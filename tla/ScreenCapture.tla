--------------------------- MODULE ScreenCapture ----------------------------
(***************************************************************************)
(* Class ScreenCapture (src/capture/ScreenCapture.cpp, the X11 build) and  *)
(* its user: captureFrame() and the header that captureAndStream() puts    *)
(* before the pixels (src/core/Application.cpp).                           *)
(*                                                                         *)
(* A size has two axes that the code treats alike.  The size of the screen *)
(* is what Xlib remembers from the start of the connection; the root       *)
(* window and the SDL window may be resized between any two steps.  Pixels *)
(* are reduced to the size of what was read, and request arguments to      *)
(* numbers whose sums do not overflow.  Where more pixels are read than    *)
(* there is room for, the process ends or goes on.                         *)
(***************************************************************************)
EXTENDS Integers

CONSTANTS
  Extents,    \* widths and heights that screens and windows may have
  Reach,      \* bound: coordinates and lengths in a request are this far from 0
  None        \* no size

\* What the theorems suppose of the constants.
Constants ==
  /\ Extents \subseteq Nat \ {0}
  /\ Reach \in Nat
  /\ None \notin [{"x", "y"} -> Extents]

Axes == {"x", "y"}
Sizes == [Axes -> Extents]
Requests == -Reach .. Reach
Corner == [a \in Axes |-> 0]

VARIABLES
  initialized,  \* initialized_
  screen,       \* what getScreenDimensions() returns
  root,         \* size of the root window
  window,       \* size of the SDL window
  pc,           \* the capturing thread: control
  caller,       \* the program: "frame" for Application, which calls
                \* captureScreen(), or "api" for one that calls captureRegion()
  at, len,      \* x, y and width, height inside captureRegion()
  pixels,       \* size of what captureFrame() returns
  image,        \* size of the picture that was read into it
  path,         \* where the pixels are from
  frame,        \* the last frame: its header, its pixels, the picture in them,
                \* where they are from, and whether the window was resized
  shrunk, resized  \* history: the root window has been smaller than the
                \* screen; the window was resized since captureFrame() asked
                \* for its size

region == <<caller, at, len>>
content == <<pixels, image, path>>
sizes == <<screen, root, window>>
vars == <<initialized, sizes, pc, region, content, frame, shrunk, resized>>

Smaller(s, t) == \E a \in Axes : s[a] < t[a]

Init ==
  /\ initialized = FALSE
  /\ root \in Sizes /\ window \in Sizes
  /\ screen = root
  /\ pc = "off"
  /\ caller \in {"frame", "api"} /\ at = Corner /\ len = Corner
  /\ pixels = None /\ image = None /\ path = "none"
  /\ frame = [header |-> None, data |-> None, image |-> None, path |-> "none",
              moved |-> FALSE]
  /\ shrunk = FALSE /\ resized = FALSE

-----------------------------------------------------------------------------
\* init(): the display opens, or it does not (or the session is Wayland and
\* init() is not called).
OpenDisplay ==
  /\ pc = "off"
  /\ initialized' \in BOOLEAN
  /\ screen' = root
  /\ shrunk' = FALSE
  /\ pc' = "idle"
  /\ UNCHANGED <<root, window, region, content, frame, resized>>

\* A clamp of captureRegion() on one axis: where the region starts, and how
\* long it is from there.
ClampStart(p, size) ==
  IF p < 0 THEN 0 ELSE IF p >= size THEN size - 1 ELSE p

ClampLength(p, l, size) == IF p + l > size THEN size - p ELSE l

\* captureRegion() up to the test that something is left.  An empty vector
\* sends captureFrame() to the window, and any other caller home.
Failed == IF caller = "frame" THEN "window" ELSE "idle"

Begin(start, length) ==
  LET first == [a \in Axes |-> ClampStart(start[a], screen[a])]
      left  == [a \in Axes |-> ClampLength(first[a], length[a], screen[a])]
  IN  /\ IF \E a \in Axes : left[a] <= 0
         THEN pc' = Failed /\ UNCHANGED <<at, len>>
         ELSE pc' = "attributes" /\ at' = first /\ len' = left
      /\ UNCHANGED <<initialized, sizes, caller, content, frame, shrunk,
                     resized>>

\* captureFrame() of the stream thread: captureScreen().
CaptureScreen ==
  /\ pc = "idle" /\ initialized /\ caller = "frame"
  /\ Begin(Corner, screen)

\* captureRegion() of another program, with any arguments.
CaptureRegion(start, length) ==
  /\ pc = "idle" /\ initialized /\ caller = "api"
  /\ Begin(start, length)

\* captureFrame() without a screen to capture.
CaptureNoScreen ==
  /\ pc = "idle" /\ ~initialized /\ caller = "frame"
  /\ pc' = "window"
  /\ UNCHANGED <<initialized, sizes, region, content, frame, shrunk, resized>>

\* XGetWindowAttributes() and the second clamp, after the test.
Attributes ==
  /\ pc = "attributes"
  /\ len' = [a \in Axes |-> ClampLength(at[a], len[a], root[a])]
  /\ pc' = "image"
  /\ UNCHANGED <<initialized, sizes, caller, at, content, frame, shrunk,
                 resized>>

\* XGetImage() needs a rectangle of the root window as it is now, else the X
\* server answers with an error, which is trapped.
InRoot == \A a \in Axes : len[a] > 0 /\ at[a] + len[a] <= root[a]

\* captureRegion() returns: its variables are gone.
Returns == at' = Corner /\ len' = Corner /\ UNCHANGED caller

GetImage ==
  /\ pc = "image" /\ InRoot
  /\ Returns
  /\ IF caller = "frame"
     THEN pixels' = len /\ image' = len /\ path' = "screen" /\ pc' = "header"
     ELSE pc' = "idle" /\ UNCHANGED content
  /\ UNCHANGED <<initialized, sizes, frame, shrunk, resized>>

\* XGetWindowAttributes() fails, or XGetImage() does: the rectangle is not in
\* the root window, or the compositor denies it.
CaptureFails ==
  /\ pc \in {"attributes", "image"}
  /\ Returns
  /\ pc' = Failed
  /\ UNCHANGED <<initialized, sizes, content, frame, shrunk, resized>>

\* The fallback of captureFrame(): the window's size, and a surface of that
\* size.  renderer_mutex_ is held from here on, but the main thread polls the
\* events that resize the window without it.
AskSize ==
  /\ pc = "window"
  /\ pixels' = window /\ path' = "window"
  /\ resized' = FALSE
  /\ pc' = "surface"
  /\ UNCHANGED <<initialized, sizes, region, image, frame, shrunk>>

\* SDL_RenderReadPixels() reads the window as it is now into the surface as it
\* was made.  A smaller picture fills a part of it; one that is larger on some
\* axis is written past the rows or past the end of the surface.
ReadPixels ==
  /\ pc = "surface"
  /\ image' = window
  /\ pc' \in IF Smaller(pixels, window) THEN {"header", "dead"} ELSE {"header"}
  /\ UNCHANGED <<initialized, sizes, region, pixels, path, frame, shrunk,
                 resized>>

\* There is no renderer or no surface, or its pixels cannot be read.
ReadFails ==
  /\ pc \in {"window", "surface"}
  /\ pc' = "idle"
  /\ UNCHANGED <<initialized, sizes, region, content, frame, shrunk, resized>>

\* captureAndStream() asks for the size of the window and sends the frame.
SendFrame ==
  /\ pc = "header"
  /\ frame' = [header |-> window, data |-> pixels, image |-> image,
               path |-> path, moved |-> resized]
  /\ pc' = "idle"
  /\ UNCHANGED <<initialized, sizes, region, content, shrunk, resized>>

-----------------------------------------------------------------------------
\* The screen's mode changes; Xlib goes on reporting the old size.
ResizeRoot(size) ==
  /\ root' = size
  /\ shrunk' = (shrunk \/ Smaller(size, screen))
  /\ UNCHANGED <<initialized, screen, window, pc, region, content, frame,
                 resized>>

\* The user resizes the window of the application.
ResizeWindow(size) ==
  /\ caller = "frame"
  /\ window' = size
  /\ resized' = TRUE
  /\ UNCHANGED <<initialized, screen, root, pc, region, content, frame, shrunk>>

Environment ==
  \E size \in Sizes : ResizeRoot(size) \/ ResizeWindow(size)

Capture ==
  \/ CaptureScreen \/ CaptureNoScreen
  \/ \E start, length \in [Axes -> Requests] : CaptureRegion(start, length)
  \/ Attributes \/ GetImage \/ CaptureFails
  \/ AskSize \/ ReadPixels \/ ReadFails \/ SendFrame

Next == OpenDisplay \/ Capture \/ Environment

Spec == Init /\ [][Next]_vars

-----------------------------------------------------------------------------
(* Properties.                                                             *)

\* The type invariant.
TypeOK ==
  /\ initialized \in BOOLEAN
  /\ screen \in Sizes /\ root \in Sizes /\ window \in Sizes
  /\ pc \in {"off", "idle", "attributes", "image", "window", "surface", "header",
            "dead"}
  /\ caller \in {"frame", "api"}
  /\ at \in [Axes -> Int] /\ len \in [Axes -> Int]
  /\ pixels \in Sizes \cup {None} /\ image \in Sizes \cup {None}
  /\ path \in {"none", "screen", "window"}
  /\ frame \in [header : Sizes \cup {None}, data : Sizes \cup {None},
                image : Sizes \cup {None}, path : {"none", "screen", "window"},
                moved : BOOLEAN]
  /\ shrunk \in BOOLEAN /\ resized \in BOOLEAN

\* Whatever a caller asks for, what is looked for is a part of the screen.
\* It is not empty where the first clamp is tested; the second clamp comes
\* after the test and may leave nothing, but not of the whole screen: the
\* stream never asks the X server for an empty rectangle, however the root
\* window is resized.
RegionOnScreen ==
  /\ pc \in {"attributes", "image"} =>
       \A a \in Axes : 0 <= at[a] /\ at[a] + len[a] <= screen[a]
  /\ pc = "attributes" \/ (pc = "image" /\ caller = "frame") =>
       \A a \in Axes : len[a] > 0

\* The width and the height in the header of a frame are those of its pixels,
\* as a viewer supposes that computes the size it expects and the length of a
\* row from the header.  It is false: the header has the size of the window,
\* also for pixels of the screen, and asks for it once more.
FrameSize == frame.path # "none" => frame.data = frame.header

\* What can be said of the pixels of a frame.  Those of the screen have the
\* size that captureScreen() returned and captureFrame() dropped, unless the
\* root window has become smaller than the screen.  Those of the window are
\* the whole picture and have the size in the header, unless the window was
\* resized since captureFrame() asked for its size.
FrameContent ==
  /\ frame.path = "screen" => frame.image = frame.data
  /\ frame.path = "screen" /\ ~shrunk => frame.data = screen
  /\ frame.path = "window" /\ ~frame.moved =>
       frame.data = frame.header /\ frame.image = frame.data
=============================================================================
