---------------------------- MODULE CameraAlerts ----------------------------
(* The security cameras (emery/tools.py): the loop that polls them for people  *)
(* (reolink_polling_loop), the alerts it starts, each a task of its own        *)
(* (trigger_webhook_alert), and the pictures taken for an alert or for the     *)
(* model (get_reolink_snapshot).                                               *)
EXTENDS Naturals, Sequences, FiniteSets

CONSTANTS
    Cameras,
    MaxVisits,      \* bound: times somebody comes before a camera
    MaxAsked        \* bound: pictures the model asks for

ASSUME CameraAssumption == MaxVisits \in Nat /\ MaxAsked \in Nat

VARIABLES
    visits,     \* per camera, who comes and whether somebody is there
    seen,       \* state_tracker: the last state of each camera, whether it is in its cooldown, its alerts
    snapshots,  \* every picture asked for so far, and how far its task has come
    threads,    \* reolink_thread_trackers: the photo that began the thread of a camera (0: none), fresh in its window
    sentPhotos,     \* the photos in the chat; a message id is a place in it
    recorded    \* the security alerts put into the history of the chat

cameraVars == <<visits, seen, snapshots, threads, sentPhotos, recorded>>

NoThread == [photo |-> 0, fresh |-> FALSE]

CameraInit ==
    /\ visits = [c \in Cameras |-> [count |-> 0, present |-> FALSE]]
    /\ seen = [c \in Cameras |-> [last |-> FALSE, cooling |-> FALSE, alerts |-> 0]]
    /\ snapshots = <<>>
    /\ threads = [c \in Cameras |-> NoThread]
    /\ sentPhotos = <<>>
    /\ recorded = <<>>

\* by: an alert follows the thread of its camera and is suppressed when there is nothing to see.
Snapshot(c, by) == [camera |-> c, by |-> by, at |-> IF by = "alert" THEN "new" ELSE "waiting", reply |-> 0, found |-> "unknown", photo |-> 0]

\* Somebody comes before a camera or leaves it.
PersonMoves(c) ==
    /\ visits[c].present \/ visits[c].count < MaxVisits
    /\ visits' = [visits EXCEPT ![c] = [count |-> IF @.present THEN @.count ELSE @.count + 1, present |-> ~@.present]]
    /\ UNCHANGED <<seen, snapshots, threads, sentPhotos, recorded>>

\* The 60 seconds after an alert are over; the window of a thread (REOLINK_THREAD_WINDOW_MINUTES) is.
CooldownEnds(c) ==
    /\ seen[c].cooling
    /\ seen' = [seen EXCEPT ![c].cooling = FALSE]
    /\ UNCHANGED <<visits, snapshots, threads, sentPhotos, recorded>>
WindowEnds(c) ==
    /\ threads[c].fresh
    /\ threads' = [threads EXCEPT ![c].fresh = FALSE]
    /\ UNCHANGED <<visits, seen, snapshots, sentPhotos, recorded>>

\* Seeded fault: the state is remembered only when an alert is sent.
Noticed_Alerted(s, present, alerts) ==
    [last |-> alerts, cooling |-> s.cooling \/ alerts, alerts |-> IF alerts THEN s.alerts + 1 ELSE s.alerts]
Noticed(s, present, alerts) ==
    [last |-> present, cooling |-> s.cooling \/ alerts, alerts |-> IF alerts THEN s.alerts + 1 ELSE s.alerts]

\* The loop has asked for the state of one camera; a request that fails changes nothing.
Polls(c) ==
    LET present == visits[c].present
        alerts == ~seen[c].last /\ present /\ ~seen[c].cooling
    IN  /\ seen' = [seen EXCEPT ![c] = Noticed(seen[c], present, alerts)]
        /\ snapshots' = IF alerts THEN Append(snapshots, Snapshot(c, "alert")) ELSE snapshots
        /\ UNCHANGED <<visits, threads, sentPhotos, recorded>>

\* The model asks for a picture of a camera.
SnapshotAsked(c) ==
    /\ Cardinality({i \in DOMAIN snapshots : snapshots[i].by = "model"}) < MaxAsked
    /\ snapshots' = Append(snapshots, Snapshot(c, "model"))
    /\ UNCHANGED <<visits, seen, threads, sentPhotos, recorded>>

-----------------------------------------------------------------------------
(* One alert *)

\* It replies to the photo that started the thread of its camera, if that is not too old.
AlertBegins(i) ==
    LET c == snapshots[i].camera
    IN  /\ snapshots[i].at = "new"
        /\ snapshots' = [snapshots EXCEPT ![i].at = "waiting", ![i].reply = IF threads[c].fresh THEN threads[c].photo ELSE 0]
        /\ threads' = IF threads[c].fresh THEN threads ELSE [threads EXCEPT ![c] = NoThread]
        /\ UNCHANGED <<visits, seen, sentPhotos, recorded>>

\* Seeded fault: whoever asked, a picture without anything notable is not sent.
Suppressed_Any(s) == s.found = "nothing"
\* An empty description is none; a vision model that fails describes its failure.
Suppressed(s) == s.by = "alert" /\ s.found = "nothing"

\* Three attempts over two protocols, under reolink_snapshot_lock: a picture, or none; and what
\* the vision model sees in it. No state is read or written meanwhile.
SnapshotTaken(i) ==
    /\ snapshots[i].at = "waiting"
    /\ \/ snapshots' = [snapshots EXCEPT ![i].at = "failed"]
       \/ \E found \in {"notable", "nothing"} :
            LET s == [snapshots[i] EXCEPT !.found = found]
            IN  snapshots' = [snapshots EXCEPT ![i] = [s EXCEPT !.at = IF Suppressed(s) THEN "scene" ELSE "sending"]]
    /\ UNCHANGED <<visits, seen, threads, sentPhotos, recorded>>

\* Seeded fault: every photo of an alert becomes the one to reply to.
Tracks_Each(s) == s.by = "alert"
Tracks(s) == s.by = "alert" /\ s.reply = 0

\* send_photo; it may raise though the photo is in the chat, and is not repeated.
PhotoSent(i) ==
    LET s == snapshots[i]
        id == Len(sentPhotos) + 1
    IN  /\ s.at = "sending"
        /\ \/ /\ snapshots' = [snapshots EXCEPT ![i].at = "failed"]
              /\ UNCHANGED <<threads, sentPhotos>>
           \/ /\ sentPhotos' = Append(sentPhotos, [camera |-> s.camera, reply |-> s.reply, of |-> i])
              /\ \/ snapshots' = [snapshots EXCEPT ![i].at = "failed"] /\ UNCHANGED threads
                 \/ /\ snapshots' = [snapshots EXCEPT ![i].at = "scene", ![i].photo = id]
                    /\ threads' = IF Tracks(s) THEN [threads EXCEPT ![s.camera] = [photo |-> id, fresh |-> TRUE]] ELSE threads
        /\ UNCHANGED <<visits, seen, recorded>>

\* The alert of a thread is recorded with the photo that started it.
InThread(s) == IF s.reply # 0 THEN s.reply ELSE threads[s.camera].photo

\* The scene is described and the camera log written (which never raises); an alert that was not
\* suppressed is recorded in the history, with no await in between.
SnapshotLogged(i) ==
    LET s == snapshots[i]
    IN  /\ s.at = "scene"
        /\ snapshots' = [snapshots EXCEPT ![i].at = "over"]
        /\ recorded' = IF s.by = "alert" /\ ~Suppressed(s)
                         THEN Append(recorded, [camera |-> s.camera, photo |-> InThread(s), of |-> i])
                         ELSE recorded
        /\ UNCHANGED <<visits, seen, threads, sentPhotos>>

CameraNext ==
    \/ \E c \in Cameras : PersonMoves(c) \/ CooldownEnds(c) \/ WindowEnds(c) \/ Polls(c) \/ SnapshotAsked(c)
    \/ \E i \in DOMAIN snapshots :
         AlertBegins(i) \/ SnapshotTaken(i) \/ PhotoSent(i) \/ SnapshotLogged(i)

CameraSpec == CameraInit /\ [][CameraNext]_cameraVars

-----------------------------------------------------------------------------
(* Properties *)

\* Who comes before a camera is reported once, however long he stays.
OneAlertPerVisit == \A c \in Cameras : seen[c].alerts <= visits[c].count

\* A thread has one level: an alert replies to a photo of its camera that began a thread;
\* so a thread ends with its window although its alerts go on.
ThreadsFlat ==
    LET Root(photo, c) == photo # 0 =>
            sentPhotos[photo].camera = c /\ sentPhotos[photo].reply = 0 /\ snapshots[sentPhotos[photo].of].by = "alert"
    IN  /\ \A i \in DOMAIN sentPhotos : Root(sentPhotos[i].reply, sentPhotos[i].camera)
        /\ \A c \in Cameras : Root(threads[c].photo, c)

\* What was sent is accounted for: a picture the model asked for is in the chat when it is told
\* so, an alert is in the history if and only if its photo was sent, under a photo of its camera
\* that began a thread or none.
AlertsAccounted ==
    /\ \A i \in DOMAIN snapshots : snapshots[i].at = "over" =>
         /\ snapshots[i].by = "model" => snapshots[i].photo # 0
         /\ snapshots[i].by = "alert" => (snapshots[i].photo # 0 <=> \E h \in DOMAIN recorded : recorded[h].of = i)
    /\ \A h \in DOMAIN recorded :
         LET e == recorded[h]
         IN  e.photo # 0 => sentPhotos[e.photo].camera = e.camera /\ sentPhotos[e.photo].reply = 0

\* What the cameras report, and where.
CamerasSound == OneAlertPerVisit /\ ThreadsFlat /\ AlertsAccounted
=============================================================================
