------------------------ MODULE ScreenCaptureProofs ------------------------
(***************************************************************************)
(* Proofs about ScreenCapture: the type invariant, RegionOnScreen and      *)
(* FrameContent, for every set of screen and window sizes and every        *)
(* request.  What they suppose of the constants is the definition          *)
(* Constants, a hypothesis of every theorem.                               *)
(*                                                                         *)
(* The two clamps are lemmas about ClampStart and ClampLength; the         *)
(* invariant adds to the properties what the stream thread keeps between   *)
(* its steps: that its region is the whole screen, and what captureFrame() *)
(* has read.                                                               *)
(***************************************************************************)
EXTENDS ScreenCapture, TLAPS

USE DEF Constants

-----------------------------------------------------------------------------
(* The clamps.                                                             *)

\* A region starts on the screen.
LEMMA ClampStartOnScreen ==
  ASSUME NEW p \in Int, NEW size \in Nat \ {0}
  PROVE  ClampStart(p, size) \in 0 .. size - 1
BY DEF ClampStart

\* A region that starts on the screen ends on it, and is no longer than asked.
LEMMA ClampLengthOnScreen ==
  ASSUME NEW p \in Nat, NEW l \in Int, NEW size \in Nat \ {0}
  PROVE  /\ ClampLength(p, l, size) \in Int
         /\ p + ClampLength(p, l, size) <= size
         /\ ClampLength(p, l, size) <= l
BY DEF ClampLength

\* The second clamp takes no unit of a region that fits.
LEMMA ClampLengthKeeps ==
  ASSUME NEW l \in Int, NEW size \in Nat \ {0}, l <= size
  PROVE  ClampLength(0, l, size) = l
BY DEF ClampLength

LEMMA SizeIsPositive ==
  ASSUME Constants, NEW s \in Sizes, NEW a \in Axes
  PROVE  s[a] \in Nat \ {0}
BY DEF Sizes

-----------------------------------------------------------------------------
(* The type invariant.                                                     *)

Vectors == [Axes -> Int]

LEMMA CornerType == Corner \in Vectors
BY DEF Corner, Vectors

LEMMA SizesType ==
  ASSUME Constants
  PROVE  Sizes \subseteq Vectors
<1> SUFFICES ASSUME NEW s \in Sizes PROVE s \in Vectors
  OBVIOUS
<1>1. \A a \in Axes : s[a] \in Int
  BY SizeIsPositive
<1> QED BY <1>1 DEF Sizes, Vectors

\* A request is a pair of vectors.
LEMMA RequestType ==
  ASSUME Constants
  PROVE  [Axes -> Requests] \subseteq Vectors
BY DEF Requests, Vectors

\* What captureRegion() has computed when it asks for the attributes.
LEMMA BeginRegion ==
  ASSUME Constants, TypeOK, NEW start \in Vectors, NEW length \in Vectors,
         Begin(start, length), pc' = "attributes"
  PROVE  /\ at' \in Vectors /\ len' \in Vectors
         /\ \A a \in Axes : /\ 0 <= at'[a]
                            /\ at'[a] + len'[a] <= screen[a]
                            /\ len'[a] > 0
                            /\ at'[a] = ClampStart(start[a], screen[a])
                            /\ len'[a] = ClampLength(at'[a], length[a], screen[a])
<1> DEFINE first == [a \in Axes |-> ClampStart(start[a], screen[a])]
           left  == [a \in Axes |-> ClampLength(first[a], length[a], screen[a])]
<1>1. /\ ~ \E a \in Axes : left[a] <= 0
      /\ at' = first /\ len' = left
  BY DEF Begin, Failed
<1>2. ASSUME NEW a \in Axes
      PROVE  /\ first[a] \in Nat /\ left[a] \in Int
             /\ first[a] + left[a] <= screen[a]
  <2>1. screen[a] \in Nat \ {0} /\ start[a] \in Int /\ length[a] \in Int
    BY SizeIsPositive DEF TypeOK, Vectors
  <2>2. first[a] \in Nat
    BY <2>1, ClampStartOnScreen
  <2>3. left[a] \in Int /\ first[a] + left[a] <= screen[a]
    BY <2>1, <2>2, ClampLengthOnScreen
  <2> QED BY <2>2, <2>3
<1>3. first \in Vectors /\ left \in Vectors
  BY <1>2 DEF Vectors
<1>4. \A a \in Axes : left[a] > 0
  BY <1>1, <1>2
<1> QED BY <1>1, <1>2, <1>3, <1>4

\* captureRegion() as it begins, for any caller.
LEMMA BeginType ==
  ASSUME Constants, TypeOK, NEW start \in Vectors, NEW length \in Vectors,
         Begin(start, length)
  PROVE  TypeOK'
<1>1. at' \in Vectors /\ len' \in Vectors
  <2>1. CASE pc' = "attributes"
    BY <2>1, BeginRegion
  <2>2. CASE pc' # "attributes"
    BY <2>2 DEF Begin, TypeOK, Vectors
  <2> QED BY <2>1, <2>2
<1>2. pc' \in {"idle", "window", "attributes"}
  BY DEF Begin, Failed
<1> QED BY <1>1, <1>2 DEF TypeOK, Begin, sizes, content, Vectors

\* The second clamp gives a vector again.
LEMMA AttributesType ==
  ASSUME Constants, TypeOK, Attributes, \A a \in Axes : 0 <= at[a]
  PROVE  /\ len' \in Vectors
         /\ \A a \in Axes : /\ at[a] + len'[a] <= root[a]
                            /\ len'[a] <= len[a]
<1>1. ASSUME NEW a \in Axes
      PROVE  LET l == ClampLength(at[a], len[a], root[a])
             IN  l \in Int /\ at[a] + l <= root[a] /\ l <= len[a]
  <2>1. at[a] \in Nat /\ len[a] \in Int
    BY DEF TypeOK
  <2>2. root[a] \in Nat \ {0}
    BY SizeIsPositive DEF TypeOK
  <2> QED BY <2>1, <2>2, ClampLengthOnScreen
<1> QED BY <1>1 DEF Attributes, Vectors

-----------------------------------------------------------------------------
(* The inductive invariant.                                                *)

\* captureRegion() works on a part of the screen; the stream thread, on all
\* of it, and on all of the root window when that is smaller.
RegionInv ==
  pc \in {"attributes", "image"} =>
    /\ \A a \in Axes : 0 <= at[a] /\ at[a] + len[a] <= screen[a]
    /\ pc = "attributes" => \A a \in Axes : len[a] > 0
    /\ caller = "frame" => at = Corner /\ len \in Sizes
    /\ caller = "frame" /\ pc = "attributes" => len = screen
    /\ caller = "frame" /\ ~shrunk => len = screen

\* Until the root window is smaller than the screen it covers the screen.
ShrunkInv == ~shrunk => \A a \in Axes : screen[a] <= root[a]

\* What captureFrame() has read, as long as its thread holds it.
ContentInv ==
  /\ pc = "surface" => path = "window" /\ (~resized => pixels = window)
  /\ pc = "header" =>
       /\ path = "screen" => image = pixels
       /\ path = "screen" /\ ~shrunk => pixels = screen
       /\ path = "window" /\ ~resized => pixels = window /\ image = window

\* No frame before init().
FrameInv == FrameContent /\ (pc = "off" => frame.path = "none")

Inv == TypeOK /\ RegionInv /\ ShrunkInv /\ ContentInv /\ FrameInv

LEMMA InvInit ==
  ASSUME Constants
  PROVE  Init => Inv
<1> SUFFICES ASSUME Init PROVE Inv
  OBVIOUS
<1>1. TypeOK
  BY CornerType DEF Init, TypeOK, Vectors
<1>2. \A a \in Axes : screen[a] <= root[a]
  BY <1>1, SizeIsPositive DEF Init, TypeOK
<1> QED
  BY <1>1, <1>2 DEF Init, Inv, RegionInv, ShrunkInv, ContentInv, FrameInv,
     FrameContent

\* The first clamp leaves the whole screen as it is.
LEMMA WholeScreen ==
  ASSUME Constants, TypeOK, Begin(Corner, screen), pc' = "attributes"
  PROVE  at' = Corner /\ len' = screen
<1>1. Corner \in Vectors /\ screen \in Vectors
  BY CornerType, SizesType DEF TypeOK
<1>2. ASSUME NEW a \in Axes PROVE at'[a] = 0 /\ len'[a] = screen[a]
  <2>1. screen[a] \in Nat \ {0}
    BY SizeIsPositive DEF TypeOK
  <2>2. at'[a] = 0
    BY <1>1, <2>1, BeginRegion DEF Corner, ClampStart
  <2>3. len'[a] = ClampLength(0, screen[a], screen[a])
    BY <1>1, <2>2, BeginRegion
  <2> QED BY <2>1, <2>2, <2>3, ClampLengthKeeps
<1>3. at' \in Vectors /\ len' \in Vectors
  BY <1>1, BeginRegion
<1> QED BY <1>1, <1>2, <1>3 DEF Vectors, Corner

\* captureRegion() begins, on the whole screen or for another program.
LEMMA BeginInv ==
  ASSUME Constants, Inv, NEW start \in Vectors, NEW length \in Vectors,
         Begin(start, length), pc = "idle",
         caller = "frame" => start = Corner /\ length = screen
  PROVE  Inv'
<1> USE DEF Inv
<1>1. TypeOK'
  BY BeginType
<1>2. RegionInv'
  <2>1. CASE pc' = "attributes"
    <3>1. \A a \in Axes : /\ 0 <= at'[a]
                          /\ at'[a] + len'[a] <= screen[a] /\ len'[a] > 0
      BY <2>1, BeginRegion
    <3>2. caller = "frame" => at' = Corner /\ len' = screen
      BY <2>1, WholeScreen
    <3>3. screen' = screen /\ caller' = caller /\ screen \in Sizes
      BY DEF Begin, sizes, TypeOK
    <3> QED BY <2>1, <3>1, <3>2, <3>3 DEF RegionInv
  <2>2. CASE pc' # "attributes"
    BY <2>2 DEF Begin, Failed, RegionInv
  <2> QED BY <2>1, <2>2
<1>3. ShrunkInv'
  BY DEF ShrunkInv, Begin, sizes
<1>4. ContentInv' /\ FrameInv'
  BY DEF ContentInv, FrameInv, FrameContent, Begin, Failed, sizes, content
<1> QED BY <1>1, <1>2, <1>3, <1>4

\* The second clamp.
LEMMA AttributesInv ==
  ASSUME Constants, Inv, Attributes
  PROVE  Inv'
<1> USE DEF Inv
<1>1. /\ \A a \in Axes : 0 <= at[a] /\ at[a] + len[a] <= screen[a] /\ len[a] > 0
      /\ caller = "frame" => at = Corner /\ len = screen
  BY DEF RegionInv, Attributes
<1>2. /\ len' \in Vectors
      /\ \A a \in Axes : at[a] + len'[a] <= root[a] /\ len'[a] <= len[a]
  BY <1>1, AttributesType
<1>3. TypeOK'
  BY <1>2 DEF TypeOK, Attributes, sizes, content, Vectors
<1>4. ASSUME NEW a \in Axes PROVE at'[a] + len'[a] <= screen'[a]
  <2>1. at[a] \in Int /\ len[a] \in Int /\ len'[a] \in Int /\ screen[a] \in Int
    BY <1>2, SizeIsPositive DEF TypeOK, Vectors
  <2> QED BY <1>1, <1>2, <2>1 DEF Attributes, sizes
<1>5. ASSUME caller = "frame"
      PROVE  len' \in Sizes /\ (~shrunk => len' = screen)
  <2>1. ASSUME NEW a \in Axes
        PROVE  len'[a] = IF screen[a] > root[a] THEN root[a] ELSE screen[a]
    <3>1. at[a] = 0 /\ len[a] = screen[a]
      BY <1>1, <1>5 DEF Corner
    <3>2. screen[a] \in Int /\ root[a] \in Int
      BY SizeIsPositive DEF TypeOK
    <3>3. len'[a] = ClampLength(0, screen[a], root[a])
      BY <3>1 DEF Attributes
    <3> QED BY <3>2, <3>3 DEF ClampLength
  <2>2. screen \in Sizes /\ root \in Sizes
    BY DEF TypeOK
  <2>3. len' \in Sizes
    <3>1. \A a \in Axes : len'[a] \in Extents
      BY <2>1, <2>2 DEF Sizes
    <3> QED BY <1>2, <3>1 DEF Sizes, Vectors
  <2>4. ASSUME ~shrunk PROVE len' = screen
    <3>1. \A a \in Axes : len'[a] = screen[a]
      <4>1. TAKE a \in Axes
      <4>2. screen[a] <= root[a] /\ screen[a] \in Int /\ root[a] \in Int
        BY <2>4, SizeIsPositive DEF ShrunkInv, TypeOK
      <4> QED BY <2>1, <4>2
    <3> QED BY <1>2, <2>2, <3>1 DEF Sizes, Vectors
  <2> QED BY <2>3, <2>4
<1>6. RegionInv'
  <2>1. pc' = "image" /\ at' = at /\ caller' = caller /\ shrunk' = shrunk
        /\ screen' = screen
    BY DEF Attributes, sizes
  <2>2. \A a \in Axes : 0 <= at'[a] /\ at'[a] + len'[a] <= screen'[a]
    BY <1>1, <1>4, <2>1
  <2> QED BY <1>1, <1>5, <2>1, <2>2 DEF RegionInv
<1>7. ShrunkInv'
  BY DEF ShrunkInv, Attributes, sizes
<1>8. ContentInv' /\ FrameInv'
  BY DEF ContentInv, FrameInv, FrameContent, Attributes, sizes, content
<1> QED BY <1>3, <1>6, <1>7, <1>8

\* The pixels of the screen are those of the region.
LEMMA GetImageInv ==
  ASSUME Constants, Inv, GetImage
  PROVE  Inv'
<1> USE DEF Inv
<1>1. CASE caller = "frame"
  <2>1. len \in Sizes /\ (~shrunk => len = screen)
    BY <1>1 DEF RegionInv, GetImage
  <2>2. TypeOK'
    BY <1>1, <2>1, CornerType DEF TypeOK, GetImage, Returns, sizes, Vectors
  <2>3. RegionInv' /\ FrameInv'
    BY <1>1 DEF RegionInv, FrameInv, FrameContent, GetImage, sizes
  <2>4. ShrunkInv'
    BY DEF ShrunkInv, GetImage, sizes
  <2>5. ContentInv'
    BY <1>1, <2>1 DEF ContentInv, GetImage, sizes
  <2> QED BY <2>2, <2>3, <2>4, <2>5
<1>2. CASE caller # "frame"
  <2>1. TypeOK'
    BY <1>2, CornerType DEF TypeOK, GetImage, Returns, sizes, content, Vectors
  <2>2. RegionInv' /\ FrameInv' /\ ContentInv'
    BY <1>2 DEF RegionInv, FrameInv, FrameContent, ContentInv, GetImage, sizes
  <2>3. ShrunkInv'
    BY DEF ShrunkInv, GetImage, sizes
  <2> QED BY <2>1, <2>2, <2>3
<1> QED BY <1>1, <1>2

LEMMA InvStep ==
  ASSUME Constants
  PROVE  Inv /\ [Next]_vars => Inv'
<1> SUFFICES ASSUME Inv, [Next]_vars PROVE Inv'
  OBVIOUS
<1> USE DEF Inv
<1>1. CASE OpenDisplay
  <2>1. TypeOK'
    BY <1>1 DEF TypeOK, OpenDisplay, region, content
  <2>2. ShrunkInv'
    <3>1. \A a \in Axes : root[a] <= root[a]
      BY SizeIsPositive DEF TypeOK
    <3> QED BY <1>1, <3>1 DEF ShrunkInv, OpenDisplay
  <2>3. RegionInv' /\ ContentInv' /\ FrameInv'
    BY <1>1 DEF RegionInv, ContentInv, FrameInv, FrameContent, OpenDisplay
  <2> QED BY <2>1, <2>2, <2>3
<1>2. CASE CaptureScreen
  <2>1. Corner \in Vectors /\ screen \in Vectors
    BY CornerType, SizesType DEF TypeOK
  <2> QED BY <1>2, <2>1, BeginInv DEF CaptureScreen
<1>3. CASE CaptureNoScreen
  BY <1>3 DEF CaptureNoScreen, TypeOK, RegionInv, ShrunkInv, ContentInv,
     FrameInv, FrameContent, sizes, region, content
<1>4. ASSUME NEW start \in [Axes -> Requests], NEW length \in [Axes -> Requests],
             CaptureRegion(start, length)
      PROVE  Inv'
  <2>1. start \in Vectors /\ length \in Vectors
    BY RequestType
  <2> QED BY <1>4, <2>1, BeginInv DEF CaptureRegion
<1>5. CASE Attributes
  BY <1>5, AttributesInv
<1>6. CASE GetImage
  BY <1>6, GetImageInv
<1>7. CASE CaptureFails
  <2>1. TypeOK'
    BY <1>7, CornerType DEF CaptureFails, Failed, Returns, TypeOK, sizes,
       content, Vectors
  <2>2. RegionInv' /\ ShrunkInv' /\ ContentInv' /\ FrameInv'
    BY <1>7 DEF CaptureFails, Failed, RegionInv, ShrunkInv, ContentInv,
       FrameInv, FrameContent, sizes
  <2> QED BY <2>1, <2>2
<1>8. CASE AskSize
  BY <1>8 DEF AskSize, TypeOK, RegionInv, ShrunkInv, ContentInv, FrameInv,
     FrameContent, sizes, region
<1>9. CASE ReadPixels
  BY <1>9 DEF ReadPixels, TypeOK, RegionInv, ShrunkInv, ContentInv, FrameInv,
     FrameContent, sizes, region
<1>10. CASE ReadFails
  BY <1>10 DEF ReadFails, TypeOK, RegionInv, ShrunkInv, ContentInv, FrameInv,
     FrameContent, sizes, region, content
<1>11. CASE SendFrame
  BY <1>11 DEF SendFrame, TypeOK, RegionInv, ShrunkInv, ContentInv, FrameInv,
     FrameContent, sizes, region, content
<1>12. ASSUME NEW size \in Sizes, ResizeRoot(size) PROVE Inv'
  <2>1. ASSUME ~shrunk', NEW a \in Axes PROVE screen[a] <= size[a]
    <3>1. screen[a] \in Int /\ size[a] \in Int
      BY SizeIsPositive DEF TypeOK
    <3>2. ~Smaller(size, screen)
      BY <1>12, <2>1 DEF ResizeRoot
    <3> QED BY <3>1, <3>2 DEF Smaller
  <2>2. ShrunkInv'
    BY <1>12, <2>1 DEF ShrunkInv, ResizeRoot
  <2>3. TypeOK'
    BY <1>12 DEF ResizeRoot, TypeOK, region, content
  <2>4. RegionInv' /\ ContentInv' /\ FrameInv'
    BY <1>12 DEF ResizeRoot, RegionInv, ContentInv, FrameInv, FrameContent,
       region, content
  <2> QED BY <2>2, <2>3, <2>4
<1>13. ASSUME NEW size \in Sizes, ResizeWindow(size) PROVE Inv'
  BY <1>13 DEF ResizeWindow, TypeOK, RegionInv, ShrunkInv, ContentInv, FrameInv,
     FrameContent, region, content
<1>14. CASE UNCHANGED vars
  BY <1>14 DEF vars, TypeOK, RegionInv, ShrunkInv, ContentInv, FrameInv,
     FrameContent, sizes, region, content
<1> QED
  BY <1>1, <1>2, <1>3, <1>4, <1>5, <1>6, <1>7, <1>8, <1>9, <1>10, <1>11, <1>12,
     <1>13, <1>14 DEF Next, Capture, Environment

LEMMA Invariance ==
  ASSUME Constants
  PROVE  Spec => []Inv
BY InvInit, InvStep, PTL DEF Spec

-----------------------------------------------------------------------------
(* The theorems.                                                           *)

\* The type invariant, for any sizes.
THEOREM TypeCorrect ==
  ASSUME Constants
  PROVE  Spec => []TypeOK
<1>1. Inv => TypeOK
  BY DEF Inv
<1> QED BY <1>1, Invariance, PTL

\* Whatever is asked of captureRegion(), it looks at a part of the screen, and
\* never at an empty part for the stream.
THEOREM OnScreen ==
  ASSUME Constants
  PROVE  Spec => []RegionOnScreen
<1>1. Inv => RegionOnScreen
  <2> SUFFICES ASSUME Inv PROVE RegionOnScreen
    OBVIOUS
  <2>1. len \in Sizes => \A a \in Axes : len[a] > 0
    BY SizeIsPositive
  <2> QED BY <2>1 DEF Inv, RegionInv, RegionOnScreen
<1> QED BY <1>1, Invariance, PTL

\* What is known of the pixels that are sent, however screen and window are
\* resized between the steps of captureFrame() and captureAndStream().
THEOREM ContentOfFrames ==
  ASSUME Constants
  PROVE  Spec => []FrameContent
<1>1. Inv => FrameContent
  BY DEF Inv, FrameInv
<1> QED BY <1>1, Invariance, PTL
=============================================================================
