--------------------------- MODULE StreamSources ---------------------------
(***************************************************************************)
(* The live sources of the background (global.js): a camera, a shared      *)
(* screen, the sound of a shared screen, a microphone.  Each has a toggle. *)
(* A source is a promise of a stream, which the user or the browser keeps  *)
(* or refuses at some later time; meanwhile the user goes on clicking.     *)
(* Cameras and screens are attached to the one <video> element of the      *)
(* page, the one that plays the local videos, and BkgPainter (canvas.js)   *)
(* is told what to draw from it.                                           *)
(*                                                                         *)
(* The environment is the user and the browser: prompts, streams that end  *)
(* by themselves, and the load algorithm of the <video> element, in which  *)
(* srcObject has precedence over src and whose start discards the events   *)
(* and play() promises of what was loaded before.                          *)
(***************************************************************************)
EXTENDS Integers

CONSTANTS
  Streams,
  None,         \* null
  MaxRequests   \* BOUND: unanswered requests of one source

ASSUME StreamAssumption ==
  /\ None \notin Streams \cup {"cam", "screen", "audio", "mute"}
  /\ MaxRequests \in Nat \ {0}

Kinds == {"cam", "screen", "audio", "mic"}

VARIABLES
  radioState,   \* for each toggle: the page takes it to be switched on
  checked,      \* ... and shows it so
  requests,     \* for each source, its unanswered calls of getUserMedia
                \* or getDisplayMedia
  kind,         \* what a stream is; "mute" is a shared screen that was to
                \* bring its sound and has none
  live,         \* streams with a track that runs
  ending,       \* streams whose event `inactive' is to come
  srcObject, audioStream,
  video,        \* the element has a src: a local video was played
  media,        \* the element has nothing, is "loading", "ready", "failed"
  onloadedmetadata,  \* the source whose handler is set on the element
  waiting,      \* startLocalVideo awaits play()
  painter,      \* BkgPainter
  plain         \* history: so far the user has used the page plainly

streams == <<kind, live, ending, srcObject, audioStream>>
element == <<video, media, onloadedmetadata, waiting>>
toggles == <<radioState, checked>>
vars == <<toggles, requests, streams, element, painter, plain>>

(* A stream that has ended and that nothing refers to is forgotten.        *)
Used == live \cup ending \cup {srcObject, audioStream}
Collect(kinds) ==
  kind' = [s \in Streams |-> IF s \in Used' THEN kinds[s] ELSE None]

Types == {"COLOR", "CAMERA", "SCREEN", "AUDIO", "MIC", "LOCAL_VIDEO"}

TypeOK ==
  /\ radioState \in [Kinds -> BOOLEAN] /\ checked \in [Kinds -> BOOLEAN]
  /\ requests \in [Kinds -> 0..MaxRequests]
  /\ kind \in [Streams -> {"cam", "screen", "audio", "mute", None}]
  /\ \A s \in Streams : s \in Used <=> kind[s] # None
  /\ live \subseteq Streams /\ ending \subseteq Streams \ live
  /\ srcObject \in Streams \cup {None}
  /\ srcObject # None => kind[srcObject] \in {"cam", "screen"}
  /\ audioStream \in Streams \cup {None}
  /\ audioStream # None => kind[audioStream] \in {"audio", "mute"}
  /\ video \in BOOLEAN /\ waiting \in BOOLEAN
  /\ media \in {"none", "loading", "ready", "failed"}
  /\ media # "none" <=> srcObject # None \/ video
  /\ onloadedmetadata \in {"cam", "screen", None}
  /\ painter \in [type : Types, screenState : {"STOP", "PLAY"},
                  audioState : {"STOP", "EFFECT"}]
  /\ plain \in BOOLEAN

-----------------------------------------------------------------------------
(* The commands of BkgPainter.  Each of the two states resets the other.   *)
(* "EFFECT" is FREQUENCY or TIME.  The painter's audioStream is left out:  *)
(* it is there whenever the type is AUDIO or MIC.                          *)
setScreenState(p, state) ==
  [p EXCEPT !.audioState = "STOP", !.screenState = state]
setAudioState(p, state) ==
  [p EXCEPT !.screenState = "STOP", !.audioState = state]
setSource(p, type) == [p EXCEPT !.type = type]
stopped == [type |-> "COLOR", screenState |-> "STOP", audioState |-> "STOP"]

(* What paint takes from the element's stream, without looking whether     *)
(* there is one.                                                           *)
PaintsStream ==
  \/ painter.type = "CAMERA"
  \/ painter.type = "SCREEN" /\ painter.screenState = "PLAY"

Init ==
  /\ radioState = [k \in Kinds |-> FALSE] /\ checked = radioState
  /\ requests = [k \in Kinds |-> 0]
  /\ kind = [s \in Streams |-> None]
  /\ live = {} /\ ending = {} /\ srcObject = None /\ audioStream = None
  /\ video = FALSE /\ media = "none" /\ onloadedmetadata = None
  /\ waiting = FALSE /\ painter = stopped /\ plain = TRUE

-----------------------------------------------------------------------------
(* The element loads what it has now; what waited for the former source    *)
(* is dropped.                                                             *)
Load(obj, src) ==
  media' = IF obj # None \/ src THEN "loading" ELSE "none"

(* The streams with an `oninactive'.                                       *)
Notifies(s) == kind[s] \in {"cam", "screen", "audio"}

(* Ends the streams the page knows; p is the painter from then on.         *)
Known == {srcObject, audioStream} \cap live

stopStream_elementOnly(p) ==
  /\ painter' = p
  /\ live' = live \ {srcObject}
  /\ ending' = ending \cup {s \in {srcObject} \cap live : Notifies(s)}
  /\ srcObject' = None /\ audioStream' = None
  /\ IF srcObject # None THEN Load(None, video) /\ waiting' = FALSE
     ELSE UNCHANGED <<media, waiting>>
  /\ Collect(kind)
  /\ UNCHANGED <<video, onloadedmetadata>>

stopStream(p) ==
  /\ painter' = p
  /\ live' = live \ Known
  /\ ending' = ending \cup {s \in Known : Notifies(s)}
  /\ srcObject' = None /\ audioStream' = None
  /\ IF srcObject # None THEN Load(None, video) /\ waiting' = FALSE
     ELSE UNCHANGED <<media, waiting>>
  /\ Collect(kind)
  /\ UNCHANGED <<video, onloadedmetadata>>

(* Nothing is under way.                                                   *)
Settled ==
  /\ \A k \in Kinds : requests[k] = 0
  /\ ending = {} /\ media # "loading" /\ ~waiting

(* A toggle is clicked.  The device list that the camera's toggle fills    *)
(* is left out.  checkAudioEffect runs before the request is answered.     *)
onclick(k) ==
  /\ radioState' = [radioState EXCEPT ![k] = ~@]
  /\ checked' = [checked EXCEPT ![k] = radioState'[k]]
click(k) ==
  /\ onclick(k)
  /\ IF radioState'[k] /\ k # "cam"
     THEN /\ requests[k] < MaxRequests
          /\ requests' = [requests EXCEPT ![k] = @ + 1]
     ELSE UNCHANGED requests
  /\ IF radioState'[k] /\ k \in {"audio", "mic"}
     THEN stopStream(setAudioState(stopped, "EFFECT"))
     ELSE stopStream(stopped)
  /\ plain' = (plain /\ Settled)

(* An entry of the list of cameras is chosen; the list is shown while the  *)
(* page takes the camera's toggle to be on.                                *)
startCam ==
  /\ radioState["cam"] /\ requests["cam"] < MaxRequests
  /\ requests' = [requests EXCEPT !["cam"] = @ + 1]
  /\ plain' = (plain /\ Settled /\ srcObject = None /\ checked["cam"])
  /\ UNCHANGED <<toggles, streams, element, painter>>
startCamNONE ==
  /\ radioState["cam"]
  /\ stopStream(stopped)
  /\ plain' = (plain /\ Settled)
  /\ UNCHANGED <<toggles, requests>>

(* An effect of the audio or microphone panel is chosen.                   *)
toggleAudioEffect ==
  /\ painter' = setAudioState(painter, "EFFECT")
  /\ plain' = (plain /\ painter.type \in {"AUDIO", "MIC"})
  /\ UNCHANGED <<toggles, requests, streams, element>>

(* A local video is started.                                               *)
startLocalVideo ==
  /\ video' = TRUE /\ waiting' = TRUE
  /\ Load(srcObject, TRUE)
  /\ plain' = (plain /\ Settled /\ srcObject = None)
  /\ UNCHANGED <<toggles, requests, streams, onloadedmetadata, painter>>

-----------------------------------------------------------------------------
(* A request is kept with a new stream.                                    *)
Answered(k) ==
  /\ requests[k] > 0
  /\ requests' = [requests EXCEPT ![k] = @ - 1]
  /\ UNCHANGED <<radioState, plain>>
Kept(k, s) ==
  /\ Answered(k)
  /\ s \notin Used
  /\ live' = live \cup {s}
  /\ UNCHANGED <<ending, video>>
OnlyChecked_keepsAll(k) == checked

OnlyChecked(k) == [j \in Kinds |-> j = k /\ checked[j]]

attach(k, s) ==   \* startCam and startScreen
  /\ k \in {"cam", "screen"}
  /\ Kept(k, s)
  /\ srcObject' = s /\ onloadedmetadata' = k
  /\ Load(s, video) /\ waiting' = FALSE
  /\ UNCHANGED <<checked, audioStream, painter>>
  /\ Collect([kind EXCEPT ![s] = k])
(* Nothing refers to the stream of the microphone again, nor ends it.      *)
startMicStream ==
  /\ Answered("mic")
  /\ painter' = setAudioState(setSource(painter, "MIC"), "EFFECT")
  /\ checked' = OnlyChecked("mic")
  /\ UNCHANGED <<streams, element>>

startAudioStream_toElement(s) ==
  /\ Kept("audio", s)
  /\ srcObject' = s
  /\ UNCHANGED audioStream
  /\ Collect([kind EXCEPT ![s] = "audio"])
  /\ painter' = setAudioState(setSource(painter, "AUDIO"), "EFFECT")
  /\ checked' = OnlyChecked("audio")
  /\ UNCHANGED <<media, onloadedmetadata, waiting>>

startAudioStream(s) ==
  /\ Kept("audio", s)
  /\ audioStream' = s
  /\ UNCHANGED srcObject
  /\ Collect([kind EXCEPT ![s] = "audio"])
  /\ painter' = setAudioState(setSource(painter, "AUDIO"), "EFFECT")
  /\ checked' = OnlyChecked("audio")
  /\ UNCHANGED <<media, onloadedmetadata, waiting>>
(* The shared tab or screen has no sound: createMediaStreamSource throws,  *)
(* the stream is kept.                                                     *)
startMuteStream(s) ==
  /\ Kept("audio", s)
  /\ audioStream' = s
  /\ UNCHANGED srcObject
  /\ Collect([kind EXCEPT ![s] = "mute"])
  /\ painter' = setAudioState(painter, "STOP")
  /\ checked' = [checked EXCEPT !["audio"] = FALSE]
  /\ UNCHANGED <<media, onloadedmetadata, waiting>>

(* A request is refused.                                                   *)
refused(k) ==
  /\ Answered(k)
  /\ checked' = [checked EXCEPT ![k] = FALSE]
  /\ painter' = IF k \in {"audio", "mic"} THEN setAudioState(painter, "STOP")
                ELSE painter
  /\ UNCHANGED <<streams, element>>

-----------------------------------------------------------------------------
(* The element knows the size of what it loads: a local video, or a stream *)
(* that still runs.  The handler is the one of the last camera or screen,  *)
(* whatever was loaded.                                                    *)
loadedmetadata ==
  /\ media = "loading" /\ srcObject \in live \cup {None}
  /\ media' = "ready"
  /\ IF onloadedmetadata = None THEN UNCHANGED <<checked, painter>>
     ELSE /\ painter' = setScreenState(setSource(painter,
                IF onloadedmetadata = "cam" THEN "CAMERA" ELSE "SCREEN"), "PLAY")
          /\ checked' = OnlyChecked(onloadedmetadata)
  /\ UNCHANGED <<radioState, requests, streams, video, onloadedmetadata,
                 waiting, plain>>

(* play() is kept, or the video turns out to be broken.                    *)
played ==
  /\ waiting /\ media = "ready"
  /\ waiting' = FALSE
  /\ painter' = setScreenState(setSource(painter, "LOCAL_VIDEO"), "PLAY")
  /\ UNCHANGED <<toggles, requests, streams, video, media, onloadedmetadata,
                 plain>>
broken ==
  /\ media \in {"loading", "ready"} /\ srcObject = None
  /\ media' = "failed" /\ waiting' = FALSE
  /\ UNCHANGED <<toggles, requests, streams, video, onloadedmetadata, painter,
                 plain>>

(* A stream ends by itself: unplugged, or the browser's own stop button.   *)
ends(s) ==
  /\ s \in live
  /\ live' = live \ {s}
  /\ ending' = IF Notifies(s) THEN ending \cup {s} ELSE ending
  /\ UNCHANGED <<toggles, requests, srcObject, audioStream, element, painter,
                 plain>>
  /\ Collect(kind)

oninactive_toggleOnly(s) ==
  /\ s \in ending
  /\ ending' = ending \ {s}
  /\ checked' = [checked EXCEPT ![kind[s]] = FALSE]
  /\ UNCHANGED <<radioState, requests, live, srcObject, audioStream, element,
                 plain, painter>>
  /\ Collect(kind)

oninactive(s) ==
  /\ s \in ending
  /\ ending' = ending \ {s}
  /\ checked' = [checked EXCEPT ![kind[s]] = FALSE]
  /\ painter' = setScreenState(painter, "STOP")
  /\ UNCHANGED <<radioState, requests, live, srcObject, audioStream, element,
                 plain>>
  /\ Collect(kind)

-----------------------------------------------------------------------------
User ==
  \/ \E k \in Kinds : click(k)
  \/ startCam
  \/ startCamNONE
  \/ toggleAudioEffect
  \/ startLocalVideo
Answer ==
  \/ \E k \in Kinds, s \in Streams : attach(k, s)
  \/ startMicStream
  \/ \E s \in Streams : startAudioStream(s)
  \/ \E s \in Streams : startMuteStream(s)
  \/ \E k \in Kinds : refused(k)
Browser ==
  \/ loadedmetadata
  \/ played
  \/ broken
  \/ \E s \in Streams : ends(s)
  \/ \E s \in Streams : oninactive(s)

Next == User \/ Answer \/ Browser
Spec == Init /\ [][Next]_vars

-----------------------------------------------------------------------------
(* As long as no local video has been played, paint never takes a picture  *)
(* from a stream that is not attached, and a shared screen that has ended  *)
(* is drawn no longer than until its event: whatever requests, answers,    *)
(* ends and clicks cross each other.                                       *)
DrawnIsAttached ==
  ~video /\ PaintsStream =>
    /\ srcObject # None
    /\ painter.type = "SCREEN" => srcObject \in live \cup ending

(* With local videos too: what the guard of paint stands for.  The code    *)
(* violates it: a video is started while the prompt for a screen is open,  *)
(* the screen is attached and ended by a click, and its handler runs for   *)
(* the video, which the element loads again.  A camera does the same.      *)
PaintHasStream == PaintsStream => srcObject # None

(* In plain use, where the user waits for each request to be answered and  *)
(* never chooses a second camera before NONE, stopStream can still end     *)
(* every camera, screen and sound that runs.                               *)
StopReachesAll ==
  plain => live \subseteq {srcObject, audioStream}

(* In plain use the toggle of the source that is drawn is the one that is  *)
(* on, and the only one.                                                   *)
Shown ==
  {k \in Kinds :
     \/ k = "mic" /\ painter.type = "MIC"
     \/ k = "audio" /\ painter.type = "AUDIO" /\ audioStream \in live
     \/ k = "cam" /\ painter.type = "CAMERA" /\ srcObject \in live
     \/ k = "screen" /\ painter.type = "SCREEN" /\ srcObject \in live}
ToggleShowsSource ==
  plain /\ ~video => \A k \in Shown : \A j \in Kinds : checked[j] <=> j = k
=============================================================================
