------------------------------ MODULE Playlist ------------------------------
(***************************************************************************)
(* The playlist of local videos (global.js).  It is kept twice: the array  *)
(* loadedVideos, by which the next video is found, and the <li> items of   *)
(* the page, which the user reorders with Up, Down and drag and drop.  The *)
(* flag `playing' of a video is set by a promise callback, some time after *)
(* the video element was told to play it.                                  *)
(*                                                                         *)
(* The environment is the user, who may also drag something else than an   *)
(* item onto the list, and the browser's <video> element.                  *)
(* No camera or screen stream is attached to that element.                 *)
(***************************************************************************)
EXTENDS Integers, SequencesExt

CONSTANTS
  Videos,       \* the video objects the page ever makes
  None,         \* null, and undefined
  Broken,       \* videos the browser cannot decode
  MaxPending

ASSUME PlaylistAssumption ==
  /\ None \notin Videos /\ Broken \subseteq Videos
  /\ MaxPending \in Nat \ {0}

VARIABLES
  loadedVideos,
  items,        \* the <li> elements, from top to bottom
  removed,      \* videos whose item the user has removed
  restored,     \* history: a removed item has been put back
  currentDrag,
  playing,      \* the videos whose flag `playing' is set
  src,          \* what the video element was last given
  player,       \* "paused", "loading", "playing" or, in error, "failed"
  pending,      \* videos whose then-callback of playVideo is still to run
  waiting       \* ... and the last of them waits for the element itself

order == <<loadedVideos, items, removed, restored, currentDrag>>
media == <<playing, src, player, pending, waiting>>
vars == <<order, media>>

TypeOK ==
  /\ loadedVideos \in Seq(Videos \cup {None})
  /\ items \in Seq(Videos) /\ removed \subseteq Videos
  /\ restored \in BOOLEAN
  /\ currentDrag \in Videos \cup {None}
  /\ playing \subseteq Videos
  /\ src \in Videos \cup {None}
  /\ player \in {"paused", "loading", "playing", "failed"}
  /\ pending \in Seq(Videos) /\ waiting \in BOOLEAN
  /\ waiting => player = "loading" /\ pending # <<>>

Init ==
  /\ loadedVideos = <<>> /\ items = <<>> /\ removed = {}
  /\ restored = FALSE
  /\ currentDrag = None /\ playing = {} /\ src = None
  /\ player = "paused" /\ pending = <<>> /\ waiting = FALSE

-----------------------------------------------------------------------------
(* Positions count from 1; a position nobody holds counts as the first.    *)
At(s, i) == IF i \in DOMAIN s THEN s[i] ELSE None
currentItemIdx(v) ==
  IF \E i \in DOMAIN items : items[i] = v
  THEN CHOOSE i \in DOMAIN items : items[i] = v ELSE 1

(* An array grows when a position behind its end is written.               *)
swapVideos(s, a, b) ==
  [i \in 1..(IF a > Len(s) \/ b > Len(s) THEN (IF a > b THEN a ELSE b)
             ELSE Len(s)) |->
     IF i = a THEN At(s, b) ELSE IF i = b THEN At(s, a) ELSE At(s, i)]

onDropped_swapEnds(from, to) == swapVideos(loadedVideos, from, to)

onDropped(from, to) ==
  LET step == IF from < to THEN 1 ELSE -1
      turns == step * (to - from)
      after[n \in 0..turns] ==
        IF n = 0 THEN loadedVideos
        ELSE swapVideos(after[n - 1], from + step * (n - 1), from + step * n)
  IN  after[turns]

Before(v, w) == LET s == RemoveFirst(items, v)
                IN  InsertAt(s, SelectInSeq(s, LAMBDA x : x = w), v)
After(v, w) == LET s == RemoveFirst(items, v)
               IN  InsertAt(s, 1 + SelectInSeq(s, LAMBDA x : x = w), v)

(* A file is chosen (several: one after the other).  Preparing the item    *)
(* for drag and drop forgets the last one dragged.                         *)
addVideo(v) ==
  /\ v \notin ToSet(items) \cup removed
  /\ items' = Append(items, v) /\ loadedVideos' = Append(loadedVideos, v)
  /\ currentDrag' = None
  /\ UNCHANGED <<removed, restored, media>>

moveUp(v) ==
  LET idx == currentItemIdx(v)
  IN  /\ v \in ToSet(items) /\ idx > 1
      /\ loadedVideos' = swapVideos(loadedVideos, idx, idx - 1)
      /\ items' = Before(v, items[idx - 1])
      /\ UNCHANGED <<removed, restored, currentDrag, media>>

moveDown(v) ==
  LET idx == currentItemIdx(v)
  IN  /\ v \in ToSet(items) /\ idx < Len(items)
      /\ loadedVideos' = swapVideos(loadedVideos, idx, idx + 1)
      /\ items' = After(v, items[idx + 1])
      /\ UNCHANGED <<removed, restored, currentDrag, media>>

(* ondrop of item w, while v is the last item whose drag was started.      *)
(* Without one, insertBefore throws and nothing has changed.               *)
ondrop(v, w) ==
  LET from == currentItemIdx(v)
      to == currentItemIdx(w)
  IN  IF v = None \/ v = w THEN UNCHANGED <<items, loadedVideos>>
      ELSE /\ items' = IF from < to THEN After(v, w) ELSE Before(v, w)
           /\ loadedVideos' = onDropped(from, to)

dragItem(v, w) ==
  /\ {v, w} \subseteq ToSet(items)
  /\ currentDrag' = v
  /\ ondrop(v, w)
  /\ UNCHANGED <<removed, restored, media>>

(* A selection, a link or a file is dropped onto item w: no item's drag    *)
(* was started.  The last dragged may have been removed since: then its    *)
(* item comes back to the page, and the array is disordered.               *)
dragForeign(w) ==
  /\ w \in ToSet(items)
  /\ ondrop(currentDrag, w)
  /\ restored' = (restored \/ currentDrag \in removed)
  /\ UNCHANGED <<removed, currentDrag, media>>

-----------------------------------------------------------------------------
(* pause() of the element rejects the promise of a play() under way.       *)
Paused_unsettled == player' = "paused" /\ UNCHANGED waiting

Paused == player' = "paused" /\ waiting' = FALSE

remove_keepsIndex(v) ==
  /\ v \in ToSet(items)
  /\ IF v \in playing THEN Paused ELSE UNCHANGED <<player, waiting>>
  /\ loadedVideos' = IF loadedVideos = <<>> THEN <<>> ELSE Tail(loadedVideos)
  /\ items' = RemoveFirst(items, v) /\ removed' = removed \cup {v}
  /\ UNCHANGED <<restored, currentDrag, playing, src, pending>>

remove(v) ==
  /\ v \in ToSet(items)
  /\ IF v \in playing /\ loadedVideos # <<>> THEN Paused
     ELSE UNCHANGED <<player, waiting>>
  /\ LET idx == currentItemIdx(v)
     IN  loadedVideos' = IF idx \leq Len(loadedVideos)
                         THEN RemoveAt(loadedVideos, idx) ELSE loadedVideos
  /\ items' = RemoveFirst(items, v) /\ removed' = removed \cup {v}
  /\ UNCHANGED <<restored, currentDrag, playing, src, pending>>

(* A new source makes the element reject the promise of the old one.  Both *)
(* outcomes of startLocalVideo run the callback: it catches the rejection. *)
(* BOUND: the user waits while MaxPending callbacks are still to run.      *)
playVideo(v) ==
  /\ Len(pending) < MaxPending
  /\ src' = v /\ player' = "loading"
  /\ pending' = Append(pending, v) /\ waiting' = TRUE
  /\ UNCHANGED <<order, playing>>

clickItem(v) == v \in ToSet(items) /\ playVideo(v)

(* The last position whose video is flagged, 0 without one.                *)
lastPlayedVideoIdx == SelectLastInSeq(loadedVideos, LAMBDA v : v \in playing)

(* An undefined element of the array makes the search throw.               *)
HasNext == lastPlayedVideoIdx # 0 /\ None \notin ToSet(loadedVideos)
Play(i) == HasNext /\ playVideo(loadedVideos[i])

playNext_stopsShort ==
  Play(IF lastPlayedVideoIdx + 1 < Len(loadedVideos)
       THEN lastPlayedVideoIdx + 1 ELSE 1)

playNext ==
  Play(IF lastPlayedVideoIdx + 1 \leq Len(loadedVideos)
       THEN lastPlayedVideoIdx + 1 ELSE 1)

playPrevious ==
  Play(IF lastPlayedVideoIdx - 1 < 1 THEN Len(loadedVideos)
       ELSE lastPlayedVideoIdx - 1)

NEXT == playNext
PREVIOUS == playPrevious

PLAY ==
  /\ loadedVideos # <<>>
  /\ IF player = "paused"
     THEN player' = "loading" /\ UNCHANGED waiting
     ELSE Paused
  /\ UNCHANGED <<order, playing, src, pending>>

STOP ==
  /\ loadedVideos # <<>> /\ player # "paused"
  /\ Paused
  /\ UNCHANGED <<order, playing, src, pending>>

-----------------------------------------------------------------------------
(* The element starts to play, or gives up.                                *)
PlaySettles ==
  /\ player = "loading" /\ src # None
  /\ player' = IF src \in Broken THEN "failed" ELSE "playing"
  /\ waiting' = FALSE
  /\ UNCHANGED <<order, playing, src, pending>>

(* The callback of playVideo unflags what is in the array and flags its    *)
(* own video.                                                              *)
then_flagsOnly ==
  /\ pending # <<>> /\ (waiting => Len(pending) > 1)
  /\ playing' = playing \cup {Head(pending)}
  /\ pending' = Tail(pending)
  /\ UNCHANGED <<order, src, player, waiting>>

then ==
  /\ pending # <<>> /\ (waiting => Len(pending) > 1)
  /\ playing' = (playing \ ToSet(loadedVideos)) \cup {Head(pending)}
  /\ pending' = Tail(pending)
  /\ UNCHANGED <<order, src, player, waiting>>

(* The video is over.  Callbacks of promises that are settled have run.    *)
ended ==
  /\ player = "playing" /\ pending = <<>>
  /\ \/ playNext
     \/ ~HasNext /\ player' = "paused"
        /\ UNCHANGED <<order, playing, src, pending, waiting>>

(* BOUND: a page on which a removed item is back is followed no further.   *)
Next ==
  /\ ~restored
  /\ \/ \E v \in Videos : addVideo(v) \/ moveUp(v) \/ moveDown(v) \/ remove(v)
     \/ \E v \in Videos : clickItem(v) \/ dragForeign(v)
     \/ \E v, w \in Videos : dragItem(v, w)
     \/ PLAY \/ STOP \/ NEXT \/ PREVIOUS
     \/ PlaySettles \/ then \/ ended

Spec == Init /\ [][Next]_vars

-----------------------------------------------------------------------------
(* The page shows the playlist as it is: items and loadedVideos hold the   *)
(* same videos in the same order, after any number of additions, removals, *)
(* moves and drags, as long as no drop of something foreign has put a      *)
(* removed item back.                                                      *)
OrderAgrees == ~restored => loadedVideos = items

(* The flags catch up with the element: once the callbacks have run, the   *)
(* item shown as playing is the one the element was last given, however    *)
(* many clicks, broken files and pauses came before.                       *)
FlagIsSource ==
  pending = <<>> /\ ~restored =>
    \A v \in ToSet(items) : v \in playing <=> v = src

(* A video that comes to its end is followed by the one below it on the    *)
(* page, and the last one by the first, wherever the user has moved it in  *)
(* the meantime.                                                           *)
Below(v) == LET i == currentItemIdx(v)
            IN  IF i < Len(items) THEN items[i + 1] ELSE items[1]
EndIsFollowed ==
  [][ended /\ ~restored /\ src \in ToSet(items)
       => src' = Below(src) /\ player' = "loading"]_vars
=============================================================================
