------------------------------ MODULE GuideNav ------------------------------
(***************************************************************************)
(* site/assets/guide-nav.js: the table of contents of a guide highlights   *)
(* the section being read.  A scroll or resize schedules one paint in the  *)
(* next animation frame; further events before it are absorbed.            *)
(***************************************************************************)
EXTENDS Integers, Sequences, FiniteSetsExt

CONSTANTS
  Tops,          \* the sections' offsets in the document, in order
  DocHeight,     \* scrollHeight
  Viewports,     \* the heights the window may have
  Probe,         \* PROBE: the line below the viewport's top (140 px)
  Slack          \* how near the bottom counts as the bottom (4 px)

ASSUME GuideAssumption == Tops # <<>> /\ \A h \in Viewports : h \in 0 .. DocHeight

VARIABLES
  reading,       \* the page is open
  scrollY, innerHeight,
  queued,        \* the flag that absorbs events,
  frame,         \* and the animation frame that will paint
  active         \* the highlighted entry

guideVars == <<reading, scrollY, innerHeight, queued, frame, active>>

(* paint: the last section whose top has passed the probe line; at the     *)
(* very bottom the last one, which may never pass it.                      *)
Passed(y) == {i \in DOMAIN Tops : Tops[i] - y <= Probe}
AtBottom(y, h) == h + y >= DocHeight - Slack
Current(y, h) == IF AtBottom(y, h) THEN Len(Tops) ELSE Max(Passed(y) \union {1})

Schedule == IF queued THEN UNCHANGED <<queued, frame>> ELSE queued' = TRUE /\ frame' = TRUE

PaintKeepsQueued ==                                \* a wrong variant of Paint
  /\ frame
  /\ frame' = FALSE /\ UNCHANGED queued
  /\ active' = Current(scrollY, innerHeight)
  /\ UNCHANGED <<reading, scrollY, innerHeight>>

Paint ==
  /\ frame
  /\ frame' = FALSE /\ queued' = FALSE
  /\ active' = Current(scrollY, innerHeight)
  /\ UNCHANGED <<reading, scrollY, innerHeight>>

Scroll(y) ==
  /\ reading /\ y # scrollY
  /\ scrollY' = y /\ Schedule
  /\ UNCHANGED <<reading, innerHeight, active>>

(* A taller window may leave less to scroll. *)
Resize(h) ==
  /\ reading /\ h # innerHeight
  /\ innerHeight' = h /\ scrollY' = Min({scrollY, DocHeight - h}) /\ Schedule
  /\ UNCHANGED <<reading, active>>

(* The script paints once as the page loads. *)
OpenGuide ==
  /\ ~reading /\ reading' = TRUE
  /\ innerHeight' \in Viewports
  /\ active' = Current(0, innerHeight')
  /\ UNCHANGED <<scrollY, queued, frame>>

CloseGuide ==
  /\ reading /\ reading' = FALSE
  /\ scrollY' = 0 /\ innerHeight' = 0 /\ queued' = FALSE /\ frame' = FALSE /\ active' = 1

GuideInit ==
  reading = FALSE /\ scrollY = 0 /\ innerHeight = 0 /\ queued = FALSE /\ frame = FALSE /\ active = 1

GuideStep ==
  \/ \E y \in 0 .. DocHeight - innerHeight : Scroll(y)
  \/ \E h \in Viewports : Resize(h)
  \/ Paint

-----------------------------------------------------------------------------
(* The highlight catches up with the reader: however scrolls, resizes and  *)
(* paints interleave, it is right again and again for where the reader is, *)
(* and never "sticks on a stale entry" once the reader rests.              *)
HighlightCatchesUp ==
  []<>(~reading \/ active = Current(scrollY, innerHeight))
=============================================================================
