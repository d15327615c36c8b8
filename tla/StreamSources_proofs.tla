------------------------ MODULE StreamSources_proofs ------------------------
(***************************************************************************)
(* What holds of the live sources for any number of streams and of         *)
(* unanswered requests.                                                    *)
(***************************************************************************)
EXTENDS StreamSources, TLAPS

USE StreamAssumption

(* stopStream keeps the types, and attaches, leaves and paints nothing.    *)
LEMMA StopTypes ==
  ASSUME TypeOK, NEW p \in [type : Types, screenState : {"STOP", "PLAY"},
                            audioState : {"STOP", "EFFECT"}],
         stopStream(p),
         radioState' \in [Kinds -> BOOLEAN], checked' \in [Kinds -> BOOLEAN],
         requests' \in [Kinds -> 0..MaxRequests], plain' \in BOOLEAN
  PROVE  TypeOK'
<1>1. /\ live' \subseteq Streams /\ ending' \subseteq Streams \ live'
  BY DEF TypeOK, stopStream, Known
<1>2. /\ kind' \in [Streams -> {"cam", "screen", "audio", "mute", None}]
      /\ \A s \in Streams : s \in Used' <=> kind'[s] # None
  <2>1. Used' \subseteq Used \cup {None}
    BY DEF stopStream, Known, Used
  <2>2. QED
    BY <2>1 DEF TypeOK, stopStream, Collect
<1>3. /\ video' \in BOOLEAN /\ waiting' \in BOOLEAN
      /\ media' \in {"none", "loading", "ready", "failed"}
      /\ media' # "none" <=> srcObject' # None \/ video'
  BY DEF TypeOK, stopStream, Load
<1>4. QED
  BY <1>1, <1>2, <1>3 DEF TypeOK, stopStream

LEMMA StoppedIsPainter ==
  /\ stopped \in [type : Types, screenState : {"STOP", "PLAY"},
                  audioState : {"STOP", "EFFECT"}]
  /\ setAudioState(stopped, "EFFECT") \in
       [type : Types, screenState : {"STOP", "PLAY"},
        audioState : {"STOP", "EFFECT"}]
BY DEF stopped, setAudioState, Types

(* Each command of the painter gives a painter.                            *)
LEMMA CommandsType ==
  ASSUME TypeOK
  PROVE  /\ \A st \in {"STOP", "PLAY"}, t \in Types :
              /\ setScreenState(painter, st) \in
                   [type : Types, screenState : {"STOP", "PLAY"},
                    audioState : {"STOP", "EFFECT"}]
              /\ setScreenState(setSource(painter, t), st) \in
                   [type : Types, screenState : {"STOP", "PLAY"},
                    audioState : {"STOP", "EFFECT"}]
         /\ \A st \in {"STOP", "EFFECT"}, t \in Types :
              /\ setAudioState(painter, st) \in
                   [type : Types, screenState : {"STOP", "PLAY"},
                    audioState : {"STOP", "EFFECT"}]
              /\ setAudioState(setSource(painter, t), st) \in
                   [type : Types, screenState : {"STOP", "PLAY"},
                    audioState : {"STOP", "EFFECT"}]
BY DEF TypeOK, setScreenState, setAudioState, setSource

LEMMA TypeStep == TypeOK /\ [Next]_vars => TypeOK'
<1> SUFFICES ASSUME TypeOK, [Next]_vars PROVE TypeOK'
  OBVIOUS
<1> DEFINE Painters == [type : Types, screenState : {"STOP", "PLAY"},
                        audioState : {"STOP", "EFFECT"}]
<1>0. \A k \in Kinds : OnlyChecked(k) \in [Kinds -> BOOLEAN]
  BY DEF TypeOK, OnlyChecked
<1>1. ASSUME NEW k \in Kinds, click(k) PROVE TypeOK'
  <2>1. /\ radioState' \in [Kinds -> BOOLEAN] /\ checked' \in [Kinds -> BOOLEAN]
        /\ requests' \in [Kinds -> 0..MaxRequests] /\ plain' \in BOOLEAN
    BY <1>1 DEF TypeOK, click, onclick, Settled
  <2>2. PICK p \in Painters : stopStream(p)
    BY <1>1, StoppedIsPainter DEF click
  <2>3. QED
    BY <2>1, <2>2, StopTypes
<1>2. CASE startCam
  <2>1. requests' \in [Kinds -> 0..MaxRequests]
    BY <1>2 DEF TypeOK, startCam, Kinds
  <2>2. plain' \in BOOLEAN
    BY <1>2 DEF startCam
  <2>3. Used' = Used
    BY <1>2 DEF startCam, streams, Used
  <2>4. QED
    BY <1>2, <2>1, <2>2, <2>3 DEF TypeOK, startCam, toggles, streams, element
<1>3. CASE startCamNONE
  BY <1>3, StopTypes, StoppedIsPainter
     DEF startCamNONE, TypeOK, toggles, Settled
<1>4. CASE toggleAudioEffect
  <2>1. painter' \in Painters
    BY <1>4, CommandsType, "COLOR" \in Types DEF toggleAudioEffect, Types
  <2>2. QED
    BY <1>4, <2>1
       DEF TypeOK, toggleAudioEffect, toggles, streams, element, Used
<1>5. CASE startLocalVideo
  BY <1>5 DEF TypeOK, startLocalVideo, toggles, streams, Settled, Used, Load
<1>6. ASSUME NEW k \in Kinds, NEW s \in Streams, attach(k, s) PROVE TypeOK'
  <2>1. requests' \in [Kinds -> 0..MaxRequests]
    BY <1>6 DEF TypeOK, attach, Kept, Answered
  <2>2. /\ kind' \in [Streams -> {"cam", "screen", "audio", "mute", None}]
        /\ \A q \in Streams : q \in Used' <=> kind'[q] # None
        /\ kind'[s] = k
        /\ audioStream # None => kind'[audioStream] = kind[audioStream]
    <3>1. Used' \subseteq Used \cup {s} /\ s \in Used'
      BY <1>6 DEF attach, Kept, Used
    <3>2. audioStream # None => audioStream \in Used' /\ audioStream # s
      BY <1>6 DEF attach, Kept, Used
    <3>3. QED
      BY <1>6, <3>1, <3>2 DEF TypeOK, attach, Kept, Collect
  <2>3. QED
    BY <1>6, <2>1, <2>2 DEF TypeOK, attach, Kept, Answered, Load, Used
<1>7. CASE startMicStream
  <2>1. painter' \in Painters
    BY <1>7, CommandsType DEF startMicStream, Types
  <2>2. checked' \in [Kinds -> BOOLEAN]
    BY <1>7, <1>0 DEF startMicStream, Kinds
  <2>3. requests' \in [Kinds -> 0..MaxRequests]
    BY <1>7 DEF TypeOK, startMicStream, Answered, Kinds
  <2>4. Used' = Used
    BY <1>7 DEF startMicStream, streams, Used
  <2>5. QED
    BY <1>7, <2>1, <2>2, <2>3, <2>4
       DEF TypeOK, startMicStream, Answered, streams, element
<1>8. ASSUME NEW s \in Streams, startAudioStream(s) \/ startMuteStream(s)
      PROVE  TypeOK'
  <2>1. painter' \in Painters
    BY <1>8, CommandsType DEF startAudioStream, startMuteStream, Types
  <2>2. checked' \in [Kinds -> BOOLEAN]
    BY <1>8, <1>0 DEF TypeOK, startAudioStream, startMuteStream, Kinds
  <2>3. requests' \in [Kinds -> 0..MaxRequests]
    BY <1>8 DEF TypeOK, startAudioStream, startMuteStream, Kept, Answered
  <2>4. /\ kind' \in [Streams -> {"cam", "screen", "audio", "mute", None}]
        /\ \A q \in Streams : q \in Used' <=> kind'[q] # None
        /\ kind'[s] \in {"audio", "mute"}
        /\ srcObject # None => kind'[srcObject] = kind[srcObject]
    <3>1. Used' \subseteq Used \cup {s} /\ s \in Used'
      BY <1>8 DEF startAudioStream, startMuteStream, Kept, Used
    <3>2. srcObject # None => srcObject \in Used' /\ srcObject # s
      BY <1>8 DEF startAudioStream, startMuteStream, Kept, Used
    <3>3. QED
      BY <1>8, <3>1, <3>2
         DEF TypeOK, startAudioStream, startMuteStream, Kept, Collect
  <2>5. QED
    BY <1>8, <2>1, <2>2, <2>3, <2>4
       DEF TypeOK, startAudioStream, startMuteStream, Kept, Answered, Used
<1>9. ASSUME NEW k \in Kinds, refused(k) PROVE TypeOK'
  <2>1. painter' \in Painters
    BY <1>9, CommandsType DEF TypeOK, refused, Types
  <2>2. QED
    BY <1>9, <2>1 DEF TypeOK, refused, Answered, streams, element, Used
<1>10. CASE loadedmetadata
  <2>1. painter' \in Painters
    BY <1>10, CommandsType DEF TypeOK, loadedmetadata, Types
  <2>2. checked' \in [Kinds -> BOOLEAN]
    BY <1>10, <1>0 DEF TypeOK, loadedmetadata, Kinds
  <2>3. QED
    BY <1>10, <2>1, <2>2 DEF TypeOK, loadedmetadata, streams, Used
<1>11. CASE played
  <2>1. painter' \in Painters
    BY <1>11, CommandsType DEF played, Types
  <2>2. QED
    BY <1>11, <2>1 DEF TypeOK, played, toggles, streams, Used
<1>12. CASE broken
  BY <1>12 DEF TypeOK, broken, toggles, streams, Used
<1>13. ASSUME NEW s \in Streams, ends(s) PROVE TypeOK'
  <2>1. Used' \subseteq Used
    BY <1>13 DEF ends, Used
  <2>2. QED
    BY <1>13, <2>1 DEF TypeOK, ends, Collect, toggles, element, Used
<1>14. ASSUME NEW s \in Streams, oninactive(s) PROVE TypeOK'
  <2>1. painter' \in Painters
    BY <1>14, CommandsType DEF oninactive, Types
  <2>2. Used' \subseteq Used
    BY <1>14 DEF oninactive, Used
  <2>3. QED
    BY <1>14, <2>1, <2>2 DEF TypeOK, oninactive, Collect, element, Used
<1>15. CASE UNCHANGED vars
  BY <1>15 DEF TypeOK, vars, toggles, streams, element, Used
<1>16. QED
  BY <1>1, <1>2, <1>3, <1>4, <1>5, <1>6, <1>7, <1>8, <1>9, <1>10, <1>11,
     <1>12, <1>13, <1>14, <1>15 DEF Next, User, Answer, Browser

(* The variables keep their types, the element loads exactly when it has   *)
(* something, and a stream has a kind exactly as long as the page or an    *)
(* event refers to it or it runs: whatever the streams are, the bookkeeping *)
(* of startCam, startScreen, startAudioStream and stopStream (global.js).  *)
THEOREM TypeCorrect == Spec => []TypeOK
<1>1. Init => TypeOK
  <2> SUFFICES ASSUME Init PROVE TypeOK
    OBVIOUS
  <2>1. /\ radioState \in [Kinds -> BOOLEAN] /\ checked \in [Kinds -> BOOLEAN]
        /\ requests \in [Kinds -> 0..MaxRequests]
        /\ kind \in [Streams -> {"cam", "screen", "audio", "mute", None}]
    BY DEF Init
  <2>2. \A s \in Streams : s \in Used <=> kind[s] # None
    BY DEF Init, Used
  <2>3. QED
    BY <2>1, <2>2, StoppedIsPainter DEF Init, TypeOK
<1>2. QED
  BY <1>1, TypeStep, PTL DEF Spec

-----------------------------------------------------------------------------
LEMMA DrawnStep ==
  ASSUME TypeOK, DrawnIsAttached, [Next]_vars
  PROVE  DrawnIsAttached'
<1> USE DEF DrawnIsAttached, PaintsStream
<1>1. ASSUME NEW p, p.type = "COLOR", stopStream(p) PROVE DrawnIsAttached'
  BY <1>1 DEF stopStream
<1>2. stopped.type = "COLOR" /\ setAudioState(stopped, "EFFECT").type = "COLOR"
  BY DEF stopped, setAudioState
<1>3. ASSUME NEW k \in Kinds, click(k) PROVE DrawnIsAttached'
  BY <1>1, <1>2, <1>3 DEF click
<1>4. CASE startCam
  BY <1>4 DEF startCam, streams, element
<1>5. CASE startCamNONE
  BY <1>1, <1>2, <1>5 DEF startCamNONE
<1>6. CASE toggleAudioEffect
  BY <1>6 DEF TypeOK, toggleAudioEffect, setAudioState, streams, element
<1>7. CASE startLocalVideo
  BY <1>7 DEF startLocalVideo
<1>8. ASSUME NEW k \in Kinds, NEW s \in Streams, attach(k, s)
      PROVE  DrawnIsAttached'
  BY <1>8 DEF attach, Kept
<1>9. CASE startMicStream
  BY <1>9 DEF TypeOK, startMicStream, setAudioState, setSource
<1>10. ASSUME NEW s \in Streams, startAudioStream(s) PROVE DrawnIsAttached'
  BY <1>10 DEF TypeOK, startAudioStream, setAudioState, setSource
<1>11. ASSUME NEW s \in Streams, startMuteStream(s) PROVE DrawnIsAttached'
  BY <1>11 DEF TypeOK, startMuteStream, Kept, setAudioState
<1>12. ASSUME NEW k \in Kinds, refused(k) PROVE DrawnIsAttached'
  BY <1>12 DEF TypeOK, refused, setAudioState, streams, element
<1>13. CASE loadedmetadata
  <2>1. ~video => srcObject # None /\ srcObject \in live
    BY <1>13 DEF TypeOK, loadedmetadata
  <2>2. QED
    BY <1>13, <2>1 DEF loadedmetadata, streams
<1>14. CASE played
  BY <1>14 DEF TypeOK, played, setScreenState, setSource
<1>15. CASE broken
  BY <1>15 DEF broken, streams
<1>16. ASSUME NEW s \in Streams, ends(s) PROVE DrawnIsAttached'
  <2>1. s = srcObject => s \in ending'
    BY <1>16 DEF TypeOK, ends, Notifies
  <2>2. QED
    BY <1>16, <2>1 DEF ends, element
<1>17. ASSUME NEW s \in Streams, oninactive(s) PROVE DrawnIsAttached'
  BY <1>17 DEF TypeOK, oninactive, setScreenState, element
<1>18. CASE UNCHANGED vars
  BY <1>18 DEF vars, streams, element
<1>19. QED
  BY <1>3, <1>4, <1>5, <1>6, <1>7, <1>8, <1>9, <1>10, <1>11, <1>12, <1>13,
     <1>14, <1>15, <1>16, <1>17, <1>18 DEF Next, User, Answer, Browser

(* Without a local video, BkgPainter.paint (canvas.js) never takes the     *)
(* picture of a stream that is not attached, nor that of a screen after    *)
(* its event `inactive', in whatever order requests, answers, ends and     *)
(* clicks come.                                                            *)
THEOREM DrawnIsThere == Spec => []DrawnIsAttached
<1>1. Init => DrawnIsAttached
  BY DEF Init, DrawnIsAttached, PaintsStream, stopped
<1>2. QED
  BY <1>1, TypeCorrect, DrawnStep, PTL DEF Spec

-----------------------------------------------------------------------------
(* Why plain use loses no stream: one request at a time, and what its      *)
(* answer will overwrite is empty.                                         *)
OneRequest ==
  /\ \A j, k \in Kinds : requests[j] > 0 /\ requests[k] > 0 => j = k
  /\ \A k \in Kinds : requests[k] \leq 1
  /\ requests["cam"] > 0 \/ requests["screen"] > 0 => srcObject = None
  /\ requests["audio"] > 0 => audioStream = None
PlainInv == plain => OneRequest /\ live \subseteq {srcObject, audioStream}

LEMMA PlainStep ==
  ASSUME TypeOK, PlainInv, [Next]_vars
  PROVE  PlainInv'
<1> SUFFICES ASSUME plain'
             PROVE  OneRequest' /\ live' \subseteq {srcObject', audioStream'}
  BY DEF PlainInv
<1> USE DEF Kinds
<1>0. plain
  BY DEF Next, User, Answer, Browser, click, startCam, startCamNONE,
         toggleAudioEffect, startLocalVideo, attach, startMicStream,
         startAudioStream, startMuteStream, Kept, Answered, refused,
         loadedmetadata, played, broken, ends, oninactive, vars
<1>1. OneRequest /\ live \subseteq {srcObject, audioStream}
  BY <1>0 DEF PlainInv
<1>2. ASSUME NEW p, stopStream(p)
      PROVE  /\ srcObject' = None /\ audioStream' = None /\ live' = {}
  BY <1>1, <1>2 DEF stopStream, Known
<1>3. ASSUME NEW k \in Kinds, click(k)
      PROVE  OneRequest' /\ live' \subseteq {srcObject', audioStream'}
  <2>1. Settled
    BY <1>3 DEF click
  <2>2. \A j \in Kinds : requests'[j] = 0 \/ (j = k /\ requests'[j] = 1)
    BY <1>3, <2>1 DEF TypeOK, click, Settled
  <2>3. QED
    BY <1>2, <1>3, <2>2 DEF click, OneRequest
<1>4. CASE startCam
  <2>1. Settled /\ srcObject = None
    BY <1>4 DEF startCam
  <2>2. \A j \in Kinds : requests'[j] = IF j = "cam" THEN 1 ELSE 0
    BY <1>4, <2>1 DEF TypeOK, startCam, Settled
  <2>3. QED
    BY <1>1, <1>4, <2>1, <2>2 DEF startCam, streams, OneRequest
<1>5. CASE startCamNONE
  BY <1>1, <1>2, <1>5 DEF startCamNONE, OneRequest
<1>6. CASE toggleAudioEffect
  BY <1>1, <1>6 DEF toggleAudioEffect, streams, OneRequest
<1>7. CASE startLocalVideo
  BY <1>1, <1>7 DEF startLocalVideo, streams, OneRequest
<1>8. ASSUME NEW k \in Kinds, NEW s \in Streams, attach(k, s)
      PROVE  OneRequest' /\ live' \subseteq {srcObject', audioStream'}
  <2>1. srcObject = None /\ \A j \in Kinds : requests'[j] = 0
    BY <1>1, <1>8 DEF TypeOK, attach, Kept, Answered, OneRequest
  <2>2. QED
    BY <1>1, <1>8, <2>1 DEF TypeOK, attach, Kept, OneRequest
<1>9. CASE startMicStream
  BY <1>1, <1>9 DEF TypeOK, startMicStream, Answered, streams, OneRequest
<1>10. ASSUME NEW s \in Streams, startAudioStream(s) \/ startMuteStream(s)
       PROVE  OneRequest' /\ live' \subseteq {srcObject', audioStream'}
  <2>1. Answered("audio")
    BY <1>10 DEF startAudioStream, startMuteStream, Kept
  <2>2. audioStream = None /\ \A j \in Kinds : requests'[j] = 0
    BY <1>1, <2>1 DEF TypeOK, Answered, OneRequest
  <2>3. QED
    BY <1>1, <1>10, <2>2
       DEF TypeOK, startAudioStream, startMuteStream, Kept, OneRequest
<1>11. ASSUME NEW k \in Kinds, refused(k)
       PROVE  OneRequest' /\ live' \subseteq {srcObject', audioStream'}
  BY <1>1, <1>11 DEF TypeOK, refused, Answered, streams, OneRequest
<1>12. CASE loadedmetadata \/ played \/ broken
  BY <1>1, <1>12 DEF loadedmetadata, played, broken, streams, OneRequest
<1>13. ASSUME NEW s \in Streams, ends(s) \/ oninactive(s)
       PROVE  OneRequest' /\ live' \subseteq {srcObject', audioStream'}
  BY <1>1, <1>13 DEF ends, oninactive, OneRequest
<1>14. CASE UNCHANGED vars
  BY <1>1, <1>14 DEF vars, streams, OneRequest
<1>15. QED
  BY <1>3, <1>4, <1>5, <1>6, <1>7, <1>8, <1>9, <1>10, <1>11, <1>12, <1>13,
     <1>14 DEF Next, User, Answer, Browser

(* Whoever waits for answers and leaves a camera before choosing the next  *)
(* can end every camera, screen and sound: stopStream (global.js) reaches  *)
(* it through srcObject or audioStream.                                    *)
THEOREM PlainUseLosesNone == Spec => []StopReachesAll
<1>1. Init => PlainInv
  BY DEF Init, PlainInv, OneRequest, Kinds
<1>2. PlainInv => StopReachesAll
  BY DEF PlainInv, StopReachesAll
<1>3. QED
  BY <1>1, <1>2, TypeCorrect, PlainStep, PTL DEF Spec
-----------------------------------------------------------------------------
(* Why the toggle that is on belongs to what is drawn: in plain use every  *)
(* request and every stream that runs has its toggle on and awaits no      *)
(* event that would switch it off, and whatever gives the painter a source *)
(* has switched the other toggles off.                                     *)
Asked == \A k \in Kinds : requests[k] > 0 =>
  /\ checked[k] /\ painter.type = "COLOR" /\ srcObject = None
  /\ \A s \in live : kind[s] = "mute"
  /\ \A s \in ending : kind[s] # k
RunsChecked == \A s \in live :
  /\ kind[s] # "mute" => checked[kind[s]] /\ \A r \in ending : kind[r] # kind[s]
  /\ kind[s] = "mute" => painter.type # "AUDIO"
  /\ kind[s] = "audio" => painter.type = "AUDIO" /\ media # "loading"
SourceOf(type) == CASE type = "CAMERA" -> "cam" [] type = "SCREEN" -> "screen"
                    [] type = "AUDIO" -> "audio" [] type = "MIC" -> "mic"
                    [] OTHER -> None
PaintsOne ==
  /\ painter.type # "LOCAL_VIDEO" /\ ~waiting
  /\ srcObject # None => onloadedmetadata = kind[srcObject]
  /\ painter.type \in {"CAMERA", "SCREEN"} =>
       /\ srcObject # None /\ media # "loading"
       /\ kind[srcObject] = SourceOf(painter.type)
  /\ painter.type = "MIC" => checked["mic"]
  /\ painter.type # "COLOR" =>
       \A k \in Kinds : checked[k] => k = SourceOf(painter.type)
CheckedIsOn == \A k \in Kinds : checked[k] => radioState[k]
ToggleInv ==
  /\ CheckedIsOn
  /\ plain /\ ~video => Asked /\ RunsChecked /\ PaintsOne

LEMMA CheckedStep == TypeOK /\ CheckedIsOn /\ [Next]_vars => CheckedIsOn'
<1> SUFFICES ASSUME TypeOK, CheckedIsOn, [Next]_vars PROVE CheckedIsOn'
  OBVIOUS
<1>1. ASSUME NEW k \in Kinds, click(k) PROVE CheckedIsOn'
  BY <1>1 DEF CheckedIsOn, TypeOK, click, onclick
<1>2. CASE UNCHANGED toggles
  BY <1>2 DEF CheckedIsOn, toggles
<1>3. CASE /\ radioState' = radioState
           /\ \A j \in Kinds : checked'[j] => checked[j]
  BY <1>3 DEF CheckedIsOn
<1>4. startCam \/ startCamNONE \/ toggleAudioEffect \/ startLocalVideo => UNCHANGED toggles
  BY DEF startCam, startCamNONE, toggleAudioEffect, startLocalVideo
<1>5. ASSUME NEW k \in Kinds, NEW s \in Streams, attach(k, s) PROVE UNCHANGED toggles
  BY <1>5 DEF attach, Kept, Answered, toggles
<1>6. ASSUME \/ startMicStream
             \/ \E s \in Streams : startAudioStream(s) \/ startMuteStream(s)
             \/ \E k \in Kinds : refused(k)
      PROVE  radioState' = radioState
  BY <1>6 DEF startMicStream, startAudioStream, startMuteStream, refused, Kept, Answered
<1>7. \A k \in Kinds : checked' = OnlyChecked(k) \/ checked' = [checked EXCEPT ![k] = FALSE]
        => \A j \in Kinds : checked'[j] => checked[j]
  BY DEF OnlyChecked, TypeOK
<1>8. CASE \/ startMicStream
           \/ \E s \in Streams : startAudioStream(s) \/ startMuteStream(s)
           \/ \E k \in Kinds : refused(k)
  <2>1. \E k \in Kinds : checked' = OnlyChecked(k) \/ checked' = [checked EXCEPT ![k] = FALSE]
    BY <1>8 DEF startMicStream, startAudioStream, startMuteStream, refused, Kinds
  <2> QED BY <1>3, <1>6, <1>7, <1>8, <2>1
<1>9. CASE loadedmetadata
  <2>1. \/ UNCHANGED toggles
        \/ /\ radioState' = radioState /\ onloadedmetadata \in Kinds
           /\ checked' = OnlyChecked(onloadedmetadata)
    BY <1>9 DEF loadedmetadata, TypeOK, toggles, Kinds
  <2> QED BY <1>2, <1>3, <1>7, <2>1
<1>10. ASSUME NEW s \in Streams, oninactive(s) PROVE CheckedIsOn'
  <2>1. radioState' = radioState /\ \A j \in Kinds : checked'[j] => checked[j]
    BY <1>10 DEF oninactive, TypeOK
  <2> QED BY <1>3, <2>1
<1>11. played \/ broken \/ (\E s \in Streams : ends(s)) \/ UNCHANGED vars
         => UNCHANGED toggles
  BY DEF played, broken, ends, vars, toggles
<1> QED
  BY <1>1, <1>2, <1>4, <1>5, <1>8, <1>9, <1>10, <1>11 DEF Next, User, Answer, Browser

(* Once the page is told to stop, nothing is drawn and nothing runs.       *)
LEMMA Quieted ==
  ASSUME TypeOK, plain, ~video, PlainInv, NEW p, stopStream(p),
         Asked, RunsChecked, PaintsOne, p.type = "COLOR",
         \A k \in Kinds : requests'[k] > 0 =>
           checked'[k] /\ \A s \in ending' : kind'[s] # k
  PROVE  Asked' /\ RunsChecked' /\ PaintsOne'
<1>1. live' = {} /\ srcObject' = None /\ painter' = p /\ ~waiting'
  BY DEF PlainInv, stopStream, Known, PaintsOne
<1> QED BY <1>1 DEF Asked, RunsChecked, PaintsOne

LEMMA ToggleStep ==
  ASSUME TypeOK, TypeOK', PlainInv, ToggleInv, [Next]_vars, plain', ~video'
  PROVE  Asked' /\ RunsChecked' /\ PaintsOne'
<1> USE DEF Kinds
<1>0. plain /\ ~video
  <2>1. plain
    BY DEF Next, User, Answer, Browser, click, startCam, startCamNONE,
           toggleAudioEffect, startLocalVideo, attach, startMicStream,
           startAudioStream, startMuteStream, Kept, Answered, refused,
           loadedmetadata, played, broken, ends, oninactive, vars
  <2>2. video' = video \/ video'
    BY DEF Next, User, Answer, Browser, click, startCam, startCamNONE,
           toggleAudioEffect, startLocalVideo, attach, startMicStream,
           startAudioStream, startMuteStream, Kept, refused,
           loadedmetadata, played, broken, ends, oninactive, vars,
           stopStream, element
  <2> QED BY <2>1, <2>2
<1>1. /\ Asked /\ RunsChecked /\ PaintsOne /\ CheckedIsOn
      /\ OneRequest /\ live \subseteq {srcObject, audioStream}
  BY <1>0 DEF PlainInv, ToggleInv
<1>2. stopped.type = "COLOR" /\ setAudioState(stopped, "EFFECT").type = "COLOR"
  BY DEF stopped, setAudioState
<1>3. ASSUME NEW k \in Kinds, click(k) PROVE Asked' /\ RunsChecked' /\ PaintsOne'
  <2>1. Settled
    BY <1>3 DEF click
  <2>2. \A j \in Kinds : requests'[j] > 0 => j = k /\ radioState'[k]
    BY <1>3, <2>1 DEF TypeOK, click, Settled
  <2>3. ASSUME radioState'[k]
        PROVE  checked'[k] /\ \A s \in ending' : kind'[s] # k
    <3>1. ~radioState[k] /\ ~checked[k] /\ checked'[k]
      BY <1>1, <1>3, <2>3 DEF TypeOK, click, onclick, CheckedIsOn
    <3>2. ending' = {s \in Known : Notifies(s)} /\ ending' \subseteq live
      BY <1>3, <2>1 DEF click, stopStream, Settled, Known
    <3>3. \A s \in ending' : kind'[s] = kind[s] /\ kind[s] # "mute"
      BY <1>3, <3>2 DEF click, stopStream, Collect, Used, TypeOK, Notifies
    <3> QED BY <1>1, <3>1, <3>2, <3>3 DEF RunsChecked
  <2> QED
    BY <1>0, <1>1, <1>2, <1>3, <2>2, <2>3, Quieted DEF click
<1>4. CASE startCam
  <2>1. Settled /\ srcObject = None /\ checked["cam"]
    BY <1>4 DEF startCam
  <2>2. \A j \in Kinds : requests'[j] > 0 => j = "cam"
    BY <1>4, <2>1 DEF TypeOK, startCam, Settled
  <2>3. painter.type = "COLOR"
    BY <1>1, <2>1 DEF PaintsOne, SourceOf, TypeOK, Types
  <2>4. \A s \in live : kind[s] = "mute"
    BY <1>1, <2>1, <2>3 DEF RunsChecked, TypeOK
  <2> QED
    BY <1>1, <1>4, <2>1, <2>2, <2>3, <2>4
       DEF startCam, toggles, streams, element, Asked, RunsChecked, PaintsOne,
           Settled
<1>5. CASE startCamNONE
  <2>1. \A j \in Kinds : requests'[j] = 0
    BY <1>5 DEF startCamNONE, Settled
  <2> QED
    BY <1>0, <1>1, <1>2, <1>5, <2>1, Quieted DEF startCamNONE
<1>6. CASE toggleAudioEffect
  <2>1. painter'.type = painter.type
    BY <1>6 DEF TypeOK, toggleAudioEffect, setAudioState
  <2> QED
    BY <1>1, <1>6, <2>1 DEF toggleAudioEffect, toggles, streams, element,
       Asked, RunsChecked, PaintsOne
<1>7. CASE startLocalVideo
  BY <1>7 DEF startLocalVideo
<1>8. ASSUME NEW k \in Kinds, NEW s \in Streams, attach(k, s)
      PROVE  Asked' /\ RunsChecked' /\ PaintsOne'
  <2>1. /\ requests[k] > 0 /\ \A j \in Kinds : requests'[j] = 0
        /\ s \notin Used /\ k \in {"cam", "screen"}
    BY <1>1, <1>8 DEF TypeOK, attach, Kept, Answered, OneRequest
  <2>2. /\ checked' = checked /\ painter' = painter /\ ending' = ending
        /\ live' = live \cup {s} /\ srcObject' = s /\ ~waiting'
        /\ onloadedmetadata' = k
    BY <1>8 DEF attach, Kept
  <2>3. /\ kind'[s] = k
        /\ \A r \in live \cup ending : r # s /\ kind'[r] = kind[r]
    BY <1>8, <2>1, <2>2 DEF attach, Collect, Used, TypeOK
  <2>4. /\ checked[k] /\ painter.type = "COLOR"
        /\ \A r \in live : kind[r] = "mute"
        /\ \A r \in ending : kind[r] # k
    BY <1>1, <2>1 DEF Asked
  <2> QED BY <2>1, <2>2, <2>3, <2>4 DEF Asked, RunsChecked, PaintsOne
<1>9. CASE startMicStream
  <2>1. requests["mic"] > 0 /\ \A j \in Kinds : requests'[j] = 0
    BY <1>1, <1>9 DEF TypeOK, startMicStream, Answered, OneRequest
  <2>2. painter'.type = "MIC"
    BY <1>9 DEF TypeOK, startMicStream, setAudioState, setSource
  <2>3. /\ checked["mic"] /\ srcObject = None
        /\ \A s \in live : kind[s] = "mute"
    BY <1>1, <2>1 DEF Asked
  <2>4. \A j \in Kinds : checked'[j] <=> j = "mic"
    BY <1>9, <2>3 DEF startMicStream, OnlyChecked
  <2>5. \A s \in live' : kind'[s] = "mute" /\ kind[s] # "audio"
    BY <1>9, <2>3 DEF startMicStream, streams
  <2> QED
    BY <1>1, <1>9, <2>1, <2>2, <2>3, <2>4, <2>5
       DEF startMicStream, streams, element, SourceOf,
           Asked, RunsChecked, PaintsOne
<1>10. ASSUME NEW s \in Streams, startAudioStream(s) \/ startMuteStream(s)
       PROVE  Asked' /\ RunsChecked' /\ PaintsOne'
  <2>1. Kept("audio", s) /\ audioStream' = s /\ srcObject' = srcObject
        /\ waiting' = waiting /\ onloadedmetadata' = onloadedmetadata
        /\ media' = media
    BY <1>10 DEF startAudioStream, startMuteStream
  <2>2. requests["audio"] > 0 /\ \A j \in Kinds : requests'[j] = 0
    BY <1>1, <2>1 DEF TypeOK, Kept, Answered, OneRequest
  <2>3. /\ checked["audio"] /\ srcObject = None /\ audioStream = None
        /\ painter.type = "COLOR" /\ \A r \in ending : kind[r] # "audio"
    BY <1>1, <2>2 DEF Asked, OneRequest
  <2>4. live' = {s} /\ media' # "loading" /\ ending' = ending
    BY <1>0, <1>1, <2>1, <2>3 DEF Kept, TypeOK
  <2>5. \A r \in ending : r # s /\ kind'[r] = kind[r]
    BY <1>10, <2>1, <2>4 DEF startAudioStream, startMuteStream, Kept, Collect, Used, TypeOK
  <2>6. CASE startAudioStream(s)
    <3>1. painter'.type = "AUDIO" /\ kind'[s] = "audio" /\ checked' = OnlyChecked("audio")
      BY <2>6, <2>4 DEF startAudioStream, setAudioState, setSource, TypeOK,
         Collect, Used
    <3>2. \A j \in Kinds : checked'[j] <=> j = "audio"
      BY <2>3, <3>1 DEF OnlyChecked
    <3> QED
      BY <1>1, <2>1, <2>2, <2>3, <2>4, <2>5, <3>1, <3>2
         DEF SourceOf, Asked, RunsChecked, PaintsOne
  <2>7. CASE startMuteStream(s)
    <3>1. painter'.type = "COLOR" /\ kind'[s] = "mute"
      BY <2>7, <2>3, <2>4 DEF startMuteStream, setAudioState, TypeOK,
         Collect, Used
    <3> QED
      BY <1>1, <2>1, <2>2, <2>3, <2>4, <2>5, <3>1
         DEF Asked, RunsChecked, PaintsOne
  <2> QED BY <1>10, <2>6, <2>7
<1>11. ASSUME NEW k \in Kinds, refused(k)
       PROVE  Asked' /\ RunsChecked' /\ PaintsOne'
  <2>1. /\ requests[k] > 0 /\ \A j \in Kinds : requests'[j] = 0
        /\ checked' = [checked EXCEPT ![k] = FALSE]
        /\ UNCHANGED <<streams, element>>
    BY <1>1, <1>11 DEF TypeOK, refused, Answered, OneRequest
  <2>2. painter'.type = "COLOR" /\ \A s \in live : kind[s] = "mute"
    BY <1>1, <1>11, <2>1 DEF Asked, TypeOK, refused, setAudioState
  <2> QED
    BY <1>1, <2>1, <2>2 DEF streams, element, Asked, RunsChecked, PaintsOne
<1>12. CASE loadedmetadata
  <2>1. media = "loading" /\ srcObject \in live /\ onloadedmetadata = kind[srcObject]
        /\ media' = "ready" /\ UNCHANGED streams
        /\ requests' = requests /\ waiting' = waiting
        /\ onloadedmetadata' = onloadedmetadata
    BY <1>0, <1>1, <1>12 DEF TypeOK, loadedmetadata, PaintsOne
  <2>2. onloadedmetadata \in {"cam", "screen"}
    BY <2>1 DEF TypeOK
  <2>3. /\ checked' = OnlyChecked(onloadedmetadata)
        /\ painter'.type = IF onloadedmetadata = "cam" THEN "CAMERA" ELSE "SCREEN"
    <3> DEFINE source == IF onloadedmetadata = "cam" THEN "CAMERA" ELSE "SCREEN"
    <3>1. /\ checked' = OnlyChecked(onloadedmetadata)
          /\ painter' = setScreenState(setSource(painter, source), "PLAY")
      BY <1>12, <2>2 DEF loadedmetadata
    <3> HIDE DEF source
    <3>2. setScreenState(setSource(painter, source), "PLAY").type = source
      BY DEF TypeOK, setScreenState, setSource
    <3> QED BY <3>1, <3>2 DEF source
  <2>4. checked[onloadedmetadata] /\ \A j \in Kinds : requests[j] = 0
    <3>1. srcObject # None
      BY <2>1 DEF TypeOK
    <3> QED BY <1>1, <2>1, <2>2, <3>1 DEF RunsChecked, Asked, TypeOK
  <2>5. \A s \in live : kind[s] = "mute" \/ kind[s] = onloadedmetadata
    BY <1>1, <2>1 DEF RunsChecked, TypeOK
  <2>6. \A j \in Kinds : checked'[j] <=> j = onloadedmetadata
    BY <2>2, <2>3, <2>4 DEF OnlyChecked
  <2>7. RunsChecked'
    <3>1. \A s \in live : kind[s] = onloadedmetadata =>
            \A r \in ending : kind[r] # onloadedmetadata
      BY <1>1, <2>2 DEF RunsChecked
    <3> QED BY <2>1, <2>2, <2>3, <2>5, <2>6, <3>1 DEF streams, RunsChecked
  <2>8. PaintsOne'
    <3>1. /\ SourceOf(painter'.type) = onloadedmetadata
          /\ painter'.type \in {"CAMERA", "SCREEN"}
      BY <2>2, <2>3 DEF SourceOf
    <3>2. /\ srcObject' # None /\ kind'[srcObject'] = onloadedmetadata
          /\ media' # "loading" /\ ~waiting' /\ onloadedmetadata' = onloadedmetadata
      BY <1>1, <2>1 DEF streams, PaintsOne, TypeOK
    <3> QED BY <2>6, <3>1, <3>2 DEF PaintsOne
  <2> QED
    BY <2>1, <2>4, <2>7, <2>8 DEF Asked
<1>13. CASE played
  BY <1>1, <1>13 DEF played, PaintsOne
<1>14. CASE broken
  BY <1>0, <1>14 DEF broken, TypeOK
<1>15. ASSUME NEW s \in Streams, ends(s)
       PROVE  Asked' /\ RunsChecked' /\ PaintsOne'
  <2>1. /\ s \in live /\ live' = live \ {s}
        /\ ending' = IF Notifies(s) THEN ending \cup {s} ELSE ending
        /\ UNCHANGED <<toggles, requests, srcObject, audioStream, element, painter>>
    BY <1>15 DEF ends
  <2>2. /\ \A r \in live' \cup ending' : kind'[r] = kind[r]
        /\ srcObject # None => kind'[srcObject] = kind[srcObject]
    BY <1>15, <2>1 DEF ends, Collect, Used, TypeOK
  <2>3. \A r \in live : r # s => kind[r] # kind[s] \/ kind[s] = "mute"
    BY <1>1, <2>1 DEF TypeOK
  <2>4. Asked'
    BY <1>1, <2>1, <2>2 DEF Asked, toggles, Notifies
  <2>5. RunsChecked'
    BY <1>1, <2>1, <2>2, <2>3 DEF RunsChecked, toggles, element, Notifies
  <2>6. PaintsOne'
    BY <1>1, <2>1, <2>2 DEF PaintsOne, toggles, element
  <2> QED BY <2>4, <2>5, <2>6
<1>16. ASSUME NEW s \in Streams, oninactive(s)
       PROVE  Asked' /\ RunsChecked' /\ PaintsOne'
  <2>1. /\ s \in ending /\ ending' = ending \ {s}
        /\ checked' = [checked EXCEPT ![kind[s]] = FALSE]
        /\ UNCHANGED <<requests, live, srcObject, audioStream, element>>
        /\ painter'.type = painter.type
    BY <1>16 DEF oninactive, setScreenState, TypeOK
  <2>2. /\ \A r \in live' \cup ending' : kind'[r] = kind[r]
        /\ srcObject # None => kind'[srcObject] = kind[srcObject]
    BY <1>16, <2>1 DEF oninactive, Collect, Used, TypeOK
  <2>3. kind[s] # "mic"
    BY <2>1 DEF TypeOK, Used
  <2>4. /\ \A k \in Kinds : checked'[k] => checked[k]
        /\ \A k \in Kinds : checked[k] /\ k # kind[s] => checked'[k]
    BY <2>1 DEF TypeOK
  <2>5. Asked'
    BY <1>1, <2>1, <2>2, <2>4 DEF Asked
  <2>6. RunsChecked'
    <3>1. \A r \in live : kind[r] # "mute" =>
            kind[r] \in Kinds /\ checked[kind[r]] /\ kind[r] # kind[s]
      BY <1>1, <2>1 DEF RunsChecked, TypeOK
    <3> QED BY <1>1, <2>1, <2>2, <2>4, <3>1 DEF RunsChecked, element
  <2>7. PaintsOne'
    BY <1>1, <2>1, <2>2, <2>3, <2>4 DEF PaintsOne, element
  <2> QED BY <2>5, <2>6, <2>7
<1>17. CASE UNCHANGED vars
  BY <1>1, <1>17 DEF vars, toggles, streams, element, Asked, RunsChecked, PaintsOne
<1> QED
  BY <1>3, <1>4, <1>5, <1>6, <1>7, <1>8, <1>9, <1>10, <1>11, <1>12, <1>13,
     <1>14, <1>15, <1>16, <1>17 DEF Next, User, Answer, Browser

(* In plain use, and as long as no local video is played, the toggle that  *)
(* is on is the one of the source that is drawn and runs (global.js:       *)
(* disableOthers, the handlers `inactive' and loadedmetadata, the catch    *)
(* clauses), and no other is.                                              *)
THEOREM ToggleIsSource == Spec => []ToggleShowsSource
<1>1. Init => PlainInv /\ ToggleInv
  BY DEF Init, PlainInv, OneRequest, Kinds, ToggleInv, CheckedIsOn, Asked,
         RunsChecked, PaintsOne, stopped
<1>2. TypeOK /\ TypeOK' /\ PlainInv /\ ToggleInv /\ [Next]_vars => ToggleInv'
  BY CheckedStep, ToggleStep DEF ToggleInv
<1>3. TypeOK /\ ToggleInv => ToggleShowsSource
  <2> SUFFICES ASSUME TypeOK, plain, ~video, RunsChecked, PaintsOne, NEW k \in Shown
               PROVE  \A j \in Kinds : checked[j] <=> j = k
    BY DEF ToggleInv, ToggleShowsSource
  <2>1. k = SourceOf(painter.type) /\ painter.type # "COLOR"
    BY DEF Shown, SourceOf
  <2>2. checked[k]
    BY DEF Shown, RunsChecked, PaintsOne, TypeOK, SourceOf
  <2> QED BY <2>1, <2>2 DEF PaintsOne
<1> QED
  BY <1>1, <1>2, <1>3, TypeCorrect, PlainStep, PTL DEF Spec
=============================================================================
