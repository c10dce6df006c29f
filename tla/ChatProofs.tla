----------------------------- MODULE ChatProofs -----------------------------
(***************************************************************************)
(* Theorems about what a chat is told unasked (CameraAlerts, Heartbeat),   *)
(* sent by its image queue (ImageQueue) and shown of its turns             *)
(* (StatusStack), for every set of cameras and chats, every length of a    *)
(* day, every number and size of requests, and any failing calls.          *)
(***************************************************************************)
EXTENDS CameraAlerts, Heartbeat, ImageQueue, StatusStack, FiniteSetTheorems, SequenceTheorems, TLAPS

(* Cameras *)

SnapshotRecord ==
    [camera: Cameras, by: {"alert", "model"}, at: {"new", "waiting", "sending", "scene", "over", "failed"},
     reply: Nat, found: {"unknown", "notable", "nothing"}, photo: Nat]
VisitRecord == [count: Nat, present: BOOLEAN]
SeenRecord == [last: BOOLEAN, cooling: BOOLEAN, alerts: Nat]
ThreadRecord == [photo: Nat, fresh: BOOLEAN]

CameraShape ==
    /\ visits \in [Cameras -> VisitRecord] /\ seen \in [Cameras -> SeenRecord]
    /\ threads \in [Cameras -> ThreadRecord]
    /\ snapshots \in Seq(SnapshotRecord)
    /\ sentPhotos \in Seq([camera: Cameras, reply: Nat, of: Nat])
    /\ recorded \in Seq([camera: Cameras, photo: Nat, of: Nat])

\* Of the visits that were not reported one at most is under way, and not yet seen.
VisitsSeen ==
    \A c \in Cameras : /\ seen[c].alerts <= visits[c].count
                       /\ visits[c].present /\ ~seen[c].last => seen[c].alerts + 1 <= visits[c].count

\* No photo, or one of an alert of the camera that began a thread.
Begins(photo, c, photos, pictures) ==
    photo # 0 =>
      /\ photo \in DOMAIN photos /\ photos[photo].camera = c /\ photos[photo].reply = 0
      /\ photos[photo].of \in DOMAIN pictures /\ pictures[photos[photo].of].by = "alert"
BeginsThread(photo, c) == Begins(photo, c, sentPhotos, snapshots)

ThreadsBegun ==
    /\ \A i \in DOMAIN sentPhotos : BeginsThread(sentPhotos[i].reply, sentPhotos[i].camera)
    /\ \A c \in Cameras : BeginsThread(threads[c].photo, c)
    /\ \A i \in DOMAIN snapshots : BeginsThread(snapshots[i].reply, snapshots[i].camera)
    /\ \A h \in DOMAIN recorded : BeginsThread(recorded[h].photo, recorded[h].camera)

Recorded(i) == \E h \in DOMAIN recorded : recorded[h].of = i

\* The photo of a picture that was looked at is in the chat, unless the alert was suppressed.
SoundSnapshot(s) ==
    /\ s.at \in {"new", "waiting", "sending"} => s.photo = 0
    /\ s.at = "sending" => ~Suppressed(s)
    /\ s.at \in {"scene", "over"} /\ s.by = "model" => s.photo # 0
    /\ s.at \in {"scene", "over"} /\ s.by = "alert" => (s.photo # 0 <=> ~Suppressed(s))

SnapshotsSettled ==
    /\ \A i \in DOMAIN snapshots :
         /\ SoundSnapshot(snapshots[i])
         /\ Recorded(i) <=> snapshots[i].at = "over" /\ snapshots[i].by = "alert" /\ ~Suppressed(snapshots[i])
    /\ \A h \in DOMAIN recorded : recorded[h].of \in DOMAIN snapshots

CameraInv == CameraShape /\ VisitsSeen /\ ThreadsBegun /\ SnapshotsSettled

LEMMA CameraInitial == CameraInit => CameraInv
  <1> SUFFICES ASSUME CameraInit PROVE CameraInv
    OBVIOUS
  <1>1. CameraShape  BY DEF CameraInit, CameraShape, VisitRecord, SeenRecord, ThreadRecord, NoThread
  <1>2. VisitsSeen  BY DEF CameraInit, VisitsSeen
  <1>3. ThreadsBegun /\ SnapshotsSettled  BY DEF CameraInit, ThreadsBegun, SnapshotsSettled, BeginsThread, Begins, NoThread
  <1> QED  BY <1>1, <1>2, <1>3 DEF CameraInv

\* The chat keeps its photos, and a picture is of the camera and for whom it was asked.
LEMMA ThreadStands ==
    ASSUME \A p \in DOMAIN sentPhotos : p \in DOMAIN sentPhotos' /\ sentPhotos'[p] = sentPhotos[p],
           \A i \in DOMAIN snapshots : i \in DOMAIN snapshots' /\ snapshots'[i].by = snapshots[i].by
    PROVE  \A p, c : Begins(p, c, sentPhotos, snapshots) => Begins(p, c, sentPhotos', snapshots')
  BY DEF Begins

\* Where the pictures and the photos stay what they are.
LEMMA BeforeTheCamera ==
    ASSUME CameraInv, NEW c \in Cameras, PersonMoves(c) \/ CooldownEnds(c) \/ WindowEnds(c)
    PROVE  CameraInv'
  <1>1. UNCHANGED <<snapshots, sentPhotos, recorded>>  BY DEF PersonMoves, CooldownEnds, WindowEnds
  <1>2. visits \in [Cameras -> VisitRecord] /\ seen \in [Cameras -> SeenRecord] /\ threads \in [Cameras -> ThreadRecord]
    BY DEF CameraInv, CameraShape
  <1>3. CASE PersonMoves(c)
    <2> DEFINE n == IF visits[c].present THEN visits[c].count ELSE visits[c].count + 1
    <2>1. visits' = [visits EXCEPT ![c] = [count |-> n, present |-> ~visits[c].present]] /\ UNCHANGED <<seen, threads>>
      BY <1>3 DEF PersonMoves
    <2>2. visits[c].count \in Nat /\ visits[c].present \in BOOLEAN  BY <1>2 DEF VisitRecord
    <2>3. n \in Nat  BY <2>2
    <2>4. visits' \in [Cameras -> VisitRecord]
      <3> HIDE DEF n
      <3> QED  BY <1>2, <2>1, <2>2, <2>3 DEF VisitRecord
    <2>5. VisitsSeen'
      <3>1. \A d \in Cameras \ {c} : visits'[d] = visits[d]  BY <1>2, <2>1
      <3>2. visits'[c].count = n /\ visits'[c].present = ~visits[c].present  BY <1>2, <2>1
      <3>3. seen[c].alerts \in Nat /\ seen[c].alerts <= visits[c].count  BY <1>2 DEF SeenRecord, CameraInv, VisitsSeen
      <3>4. seen[c].alerts <= n /\ (~visits[c].present => seen[c].alerts + 1 <= n)  BY <2>2, <3>3
      <3> HIDE DEF n
      <3> QED  BY <2>1, <2>2, <3>1, <3>2, <3>4 DEF CameraInv, VisitsSeen
    <2>6. ThreadsBegun' /\ SnapshotsSettled'
      BY <1>1, <2>1 DEF CameraInv, ThreadsBegun, SnapshotsSettled, BeginsThread, Recorded
    <2> QED  BY <1>1, <2>1, <2>4, <2>5, <2>6 DEF CameraInv, CameraShape
  <1>4. CASE CooldownEnds(c)
    <2>1. seen' = [seen EXCEPT ![c].cooling = FALSE] /\ UNCHANGED <<visits, threads>>  BY <1>4 DEF CooldownEnds
    <2>2. seen' \in [Cameras -> SeenRecord]  BY <1>2, <2>1 DEF SeenRecord
    <2>3. \A d \in Cameras : seen'[d].alerts = seen[d].alerts /\ seen'[d].last = seen[d].last  BY <1>2, <2>1 DEF SeenRecord
    <2>4. VisitsSeen'  BY <2>1, <2>3 DEF CameraInv, VisitsSeen
    <2>5. ThreadsBegun' /\ SnapshotsSettled'
      BY <1>1, <2>1 DEF CameraInv, ThreadsBegun, SnapshotsSettled, BeginsThread, Recorded
    <2> QED  BY <1>1, <2>1, <2>2, <2>4, <2>5 DEF CameraInv, CameraShape
  <1>5. CASE WindowEnds(c)
    <2>1. threads' = [threads EXCEPT ![c].fresh = FALSE] /\ UNCHANGED <<visits, seen>>  BY <1>5 DEF WindowEnds
    <2>2. threads' \in [Cameras -> ThreadRecord]  BY <1>2, <2>1 DEF ThreadRecord
    <2>3. \A d \in Cameras : threads'[d].photo = threads[d].photo  BY <1>2, <2>1 DEF ThreadRecord
    <2>4. VisitsSeen'  BY <2>1 DEF CameraInv, VisitsSeen
    <2>5. ThreadsBegun' /\ SnapshotsSettled'
      BY <1>1, <2>3 DEF CameraInv, ThreadsBegun, SnapshotsSettled, BeginsThread, Recorded
    <2> QED  BY <1>1, <2>1, <2>2, <2>4, <2>5 DEF CameraInv, CameraShape
  <1> QED  BY <1>3, <1>4, <1>5

PhotoRecord == [camera: Cameras, reply: Nat, of: Nat]

\* A picture is asked for: nothing refers to it yet.
LEMMA SnapshotAdded ==
    ASSUME CameraInv, NEW c \in Cameras, NEW by \in {"alert", "model"}, snapshots' = Append(snapshots, Snapshot(c, by)),
           UNCHANGED <<threads, sentPhotos, recorded>>
    PROVE  snapshots' \in Seq(SnapshotRecord) /\ ThreadsBegun' /\ SnapshotsSettled'
  <1> DEFINE s == Snapshot(c, by)
             n == Len(snapshots) + 1
  <1>1. snapshots \in Seq(SnapshotRecord)  BY DEF CameraInv, CameraShape
  <1>2. s \in SnapshotRecord /\ s.reply = 0 /\ s.photo = 0 /\ s.at \in {"new", "waiting"} /\ s.by = by
    BY DEF Snapshot, SnapshotRecord
  <1>3. snapshots' \in Seq(SnapshotRecord) /\ DOMAIN snapshots' = DOMAIN snapshots \cup {n} /\ n \notin DOMAIN snapshots
        /\ snapshots'[n] = s /\ \A i \in DOMAIN snapshots : snapshots'[i] = snapshots[i]
    <2> HIDE DEF s
    <2> QED  BY <1>1, <1>2 DEF s
  <1> HIDE DEF s, n
  <1>4. \A p, d : Begins(p, d, sentPhotos, snapshots) => Begins(p, d, sentPhotos', snapshots')
    BY <1>3, ThreadStands
  <1>5. Begins(s.reply, s.camera, sentPhotos', snapshots')  BY <1>2 DEF Begins
  <1>6. ThreadsBegun'  BY <1>3, <1>4, <1>5 DEF CameraInv, ThreadsBegun, BeginsThread
  <1>7. SnapshotsSettled'
    <2>1. ~Recorded(n)  BY <1>3 DEF CameraInv, SnapshotsSettled, Recorded
    <2>2. SoundSnapshot(s)  BY <1>2 DEF SoundSnapshot
    <2>3. \A i : Recorded(i)' <=> Recorded(i)  BY DEF Recorded
    <2>4. \A i \in DOMAIN snapshots' :
            /\ SoundSnapshot(snapshots'[i])
            /\ Recorded(i) <=> snapshots'[i].at = "over" /\ snapshots'[i].by = "alert" /\ ~Suppressed(snapshots'[i])
      BY <1>2, <1>3, <2>1, <2>2 DEF CameraInv, SnapshotsSettled
    <2>5. \A h \in DOMAIN recorded : recorded[h].of \in DOMAIN snapshots'  BY <1>3 DEF CameraInv, SnapshotsSettled
    <2> QED  BY <2>3, <2>4, <2>5 DEF SnapshotsSettled
  <1> QED  BY <1>3, <1>6, <1>7

\* The loop reports a visit it has not seen yet, and no other.
LEMMA PollStep == ASSUME CameraInv, NEW c \in Cameras, Polls(c) PROVE CameraInv'
  <1> DEFINE present == visits[c].present
             alerts == ~seen[c].last /\ present /\ ~seen[c].cooling
             n == IF alerts THEN seen[c].alerts + 1 ELSE seen[c].alerts
             r == [last |-> present, cooling |-> seen[c].cooling \/ alerts, alerts |-> n]
  <1>1. visits \in [Cameras -> VisitRecord] /\ seen \in [Cameras -> SeenRecord] /\ present \in BOOLEAN
        /\ seen[c].alerts \in Nat /\ visits[c].count \in Nat /\ seen[c].last \in BOOLEAN /\ seen[c].cooling \in BOOLEAN
    BY DEF CameraInv, CameraShape, VisitRecord, SeenRecord
  <1>2. alerts \in BOOLEAN /\ n \in Nat /\ UNCHANGED <<visits, threads, sentPhotos, recorded>>
    BY <1>1 DEF Polls
  <1>3. seen' = [seen EXCEPT ![c] = r]  BY DEF Polls, Noticed
  <1>4. seen[c].alerts <= visits[c].count /\ (present /\ ~seen[c].last => seen[c].alerts + 1 <= visits[c].count)
    BY DEF CameraInv, VisitsSeen
  <1>5. n <= visits[c].count  BY <1>1, <1>4
  <1>6. snapshots' = Append(snapshots, Snapshot(c, "alert")) \/ snapshots' = snapshots  BY DEF Polls
  <1> HIDE DEF alerts, n
  <1>7. r \in SeenRecord /\ r.last = present /\ r.alerts = n  BY <1>1, <1>2 DEF SeenRecord
  <1>8. seen' \in [Cameras -> SeenRecord]  BY <1>1, <1>3, <1>7
  <1>9. VisitsSeen'
    <2>1. seen'[c] = r /\ \A d \in Cameras \ {c} : seen'[d] = seen[d]  BY <1>1, <1>3
    <2> HIDE DEF r
    <2> QED  BY <1>2, <1>5, <1>7, <2>1 DEF CameraInv, VisitsSeen
  <1>10. snapshots' \in Seq(SnapshotRecord) /\ ThreadsBegun' /\ SnapshotsSettled'
    <2>1. CASE snapshots' = snapshots
      BY <1>2, <2>1 DEF CameraInv, CameraShape, ThreadsBegun, SnapshotsSettled, BeginsThread, Recorded
    <2>2. CASE snapshots' = Append(snapshots, Snapshot(c, "alert"))  BY <1>2, <2>2, SnapshotAdded
    <2> QED  BY <1>6, <2>1, <2>2
  <1> QED  BY <1>2, <1>8, <1>9, <1>10 DEF CameraInv, CameraShape

LEMMA AskedStep == ASSUME CameraInv, NEW c \in Cameras, SnapshotAsked(c) PROVE CameraInv'
  <1>1. snapshots' = Append(snapshots, Snapshot(c, "model")) /\ UNCHANGED <<visits, seen, threads, sentPhotos, recorded>>
    BY DEF SnapshotAsked
  <1>2. snapshots' \in Seq(SnapshotRecord) /\ ThreadsBegun' /\ SnapshotsSettled'  BY <1>1, SnapshotAdded
  <1>3. VisitsSeen'  BY <1>1 DEF CameraInv, VisitsSeen
  <1> QED  BY <1>1, <1>2, <1>3 DEF CameraInv, CameraShape

\* A picture moves on and is not yet dealt with.
LEMMA SnapshotMoves ==
    ASSUME CameraInv, NEW i \in DOMAIN snapshots, NEW s \in SnapshotRecord, snapshots' = [snapshots EXCEPT ![i] = s],
           s.by = snapshots[i].by, s.camera = snapshots[i].camera, s.at # "over", snapshots[i].at # "over", SoundSnapshot(s),
           s.reply = snapshots[i].reply \/ BeginsThread(s.reply, s.camera),
           sentPhotos' \in Seq(PhotoRecord),
           \A p \in DOMAIN sentPhotos : p \in DOMAIN sentPhotos' /\ sentPhotos'[p] = sentPhotos[p],
           \A p \in DOMAIN sentPhotos' : p \in DOMAIN sentPhotos \/ BeginsThread(sentPhotos'[p].reply, sentPhotos'[p].camera),
           threads' \in [Cameras -> ThreadRecord],
           \A c \in Cameras : threads'[c].photo = threads[c].photo \/ Begins(threads'[c].photo, c, sentPhotos', snapshots'),
           UNCHANGED <<visits, seen, recorded>>
    PROVE  CameraInv'
  <1>1. snapshots \in Seq(SnapshotRecord)  BY DEF CameraInv, CameraShape
  <1>2. snapshots' \in Seq(SnapshotRecord) /\ DOMAIN snapshots' = DOMAIN snapshots
        /\ snapshots'[i] = s /\ \A k \in DOMAIN snapshots \ {i} : snapshots'[k] = snapshots[k]
    BY <1>1
  <1>3. \A k \in DOMAIN snapshots : snapshots'[k].by = snapshots[k].by  BY <1>2
  <1>4. \A p, c : Begins(p, c, sentPhotos, snapshots) => Begins(p, c, sentPhotos', snapshots')  BY <1>2, <1>3, ThreadStands
  <1>5. CameraShape'  BY <1>2 DEF CameraInv, CameraShape, PhotoRecord
  <1>6. VisitsSeen'  BY DEF CameraInv, VisitsSeen
  <1>7. ThreadsBegun'
    <2>1. \A p \in DOMAIN sentPhotos' : Begins(sentPhotos'[p].reply, sentPhotos'[p].camera, sentPhotos', snapshots')
      <3> SUFFICES ASSUME NEW p \in DOMAIN sentPhotos'
                   PROVE  Begins(sentPhotos'[p].reply, sentPhotos'[p].camera, sentPhotos, snapshots)
        BY <1>4
      <3> QED  BY DEF CameraInv, ThreadsBegun, BeginsThread
    <2>2. \A c \in Cameras : Begins(threads'[c].photo, c, sentPhotos', snapshots')
      <3>1. \A c \in Cameras : Begins(threads[c].photo, c, sentPhotos', snapshots')
        BY <1>4 DEF CameraInv, ThreadsBegun, BeginsThread
      <3> QED  BY <3>1
    <2>3. Begins(s.reply, s.camera, sentPhotos, snapshots)  BY DEF CameraInv, ThreadsBegun, BeginsThread
    <2>4. \A k \in DOMAIN snapshots' : Begins(snapshots'[k].reply, snapshots'[k].camera, sentPhotos', snapshots')
      <3> SUFFICES ASSUME NEW k \in DOMAIN snapshots'
                   PROVE  Begins(snapshots'[k].reply, snapshots'[k].camera, sentPhotos, snapshots)
        BY <1>4
      <3>1. CASE k = i  BY <1>2, <2>3, <3>1
      <3>2. CASE k # i  BY <1>2, <3>2 DEF CameraInv, ThreadsBegun, BeginsThread
      <3> QED  BY <3>1, <3>2
    <2>5. \A h \in DOMAIN recorded' : Begins(recorded'[h].photo, recorded'[h].camera, sentPhotos', snapshots')
      BY <1>4 DEF CameraInv, ThreadsBegun, BeginsThread
    <2> QED  BY <2>1, <2>2, <2>4, <2>5 DEF ThreadsBegun, BeginsThread
  <1>8. SnapshotsSettled'
    <2>1. \A k : Recorded(k)' <=> Recorded(k)  BY DEF Recorded
    <2>2. ~Recorded(i)  BY DEF CameraInv, SnapshotsSettled
    <2>3. \A k \in DOMAIN snapshots' :
            /\ SoundSnapshot(snapshots'[k])
            /\ Recorded(k) <=> snapshots'[k].at = "over" /\ snapshots'[k].by = "alert" /\ ~Suppressed(snapshots'[k])
      <3> TAKE k \in DOMAIN snapshots'
      <3>1. CASE k = i  BY <1>2, <2>2, <3>1
      <3>2. CASE k # i  BY <1>2, <3>2 DEF CameraInv, SnapshotsSettled
      <3> QED  BY <3>1, <3>2
    <2>4. \A h \in DOMAIN recorded : recorded[h].of \in DOMAIN snapshots'  BY <1>2 DEF CameraInv, SnapshotsSettled
    <2> QED  BY <2>1, <2>3, <2>4 DEF SnapshotsSettled
  <1> QED  BY <1>5, <1>6, <1>7, <1>8 DEF CameraInv

\* What is known of a picture, of a thread and of the chat.
LEMMA PictureKnown ==
    ASSUME CameraInv, NEW i \in DOMAIN snapshots
    PROVE  /\ snapshots[i] \in SnapshotRecord /\ SoundSnapshot(snapshots[i]) /\ snapshots[i].camera \in Cameras
           /\ threads \in [Cameras -> ThreadRecord] /\ sentPhotos \in Seq(PhotoRecord) /\ i \in Nat
           /\ snapshots \in Seq(SnapshotRecord)
           /\ snapshots[i].photo \in Nat /\ snapshots[i].reply \in Nat
  <1>1. snapshots \in Seq(SnapshotRecord) /\ threads \in [Cameras -> ThreadRecord] /\ sentPhotos \in Seq(PhotoRecord)
    BY DEF CameraInv, CameraShape, PhotoRecord
  <1>2. snapshots[i] \in SnapshotRecord /\ i \in Nat  BY <1>1
  <1>3. SoundSnapshot(snapshots[i])  BY DEF CameraInv, SnapshotsSettled
  <1>4. snapshots[i].camera \in Cameras /\ snapshots[i].photo \in Nat /\ snapshots[i].reply \in Nat  BY <1>2 DEF SnapshotRecord
  <1> QED  BY <1>1, <1>2, <1>3, <1>4

LEMMA BeginsStep == ASSUME CameraInv, NEW i \in DOMAIN snapshots, AlertBegins(i) PROVE CameraInv'
  <1> DEFINE c == snapshots[i].camera
             n == IF threads[c].fresh THEN threads[c].photo ELSE 0
             s == [snapshots[i] EXCEPT !.at = "waiting", !.reply = n]
  <1>1. snapshots[i] \in SnapshotRecord /\ SoundSnapshot(snapshots[i]) /\ c \in Cameras
        /\ threads \in [Cameras -> ThreadRecord] /\ sentPhotos \in Seq(PhotoRecord) /\ snapshots \in Seq(SnapshotRecord)
    BY PictureKnown
  <1>2. snapshots[i].at = "new" /\ snapshots' = [snapshots EXCEPT ![i] = s] /\ UNCHANGED <<visits, seen, sentPhotos, recorded>>
        /\ threads' = IF threads[c].fresh THEN threads ELSE [threads EXCEPT ![c] = NoThread]
    BY <1>1 DEF AlertBegins
  <1>3. n \in Nat /\ Begins(n, c, sentPhotos, snapshots)
    BY <1>1 DEF ThreadRecord, CameraInv, ThreadsBegun, BeginsThread, Begins
  <1> HIDE DEF n
  <1>4. s \in SnapshotRecord /\ s.by = snapshots[i].by /\ s.camera = c /\ s.at = "waiting" /\ s.reply = n
        /\ s.photo = snapshots[i].photo
    BY <1>1, <1>3 DEF SnapshotRecord
  <1>5. SoundSnapshot(s)  BY <1>1, <1>2, <1>4 DEF SoundSnapshot
  <1>6. NoThread \in ThreadRecord /\ NoThread.photo = 0  BY DEF NoThread, ThreadRecord
  <1>7. threads' \in [Cameras -> ThreadRecord]  BY <1>1, <1>2, <1>6
  <1>8. ASSUME NEW d \in Cameras PROVE threads'[d].photo = threads[d].photo \/ Begins(threads'[d].photo, d, sentPhotos', snapshots')
    <2>1. threads'[d] = threads[d] \/ threads'[d] = NoThread  BY <1>1, <1>2
    <2> QED  BY <1>6, <2>1 DEF Begins
  <1> HIDE DEF s, c
  <1> QED  BY <1>1, <1>2, <1>3, <1>4, <1>5, <1>7, <1>8, SnapshotMoves DEF BeginsThread, c

LEMMA TakenStep == ASSUME CameraInv, NEW i \in DOMAIN snapshots, SnapshotTaken(i) PROVE CameraInv'
  <1>1. snapshots[i] \in SnapshotRecord /\ SoundSnapshot(snapshots[i]) /\ snapshots[i].camera \in Cameras
        /\ threads \in [Cameras -> ThreadRecord] /\ sentPhotos \in Seq(PhotoRecord) /\ snapshots \in Seq(SnapshotRecord)
    BY PictureKnown
  <1>2. snapshots[i].at = "waiting" /\ snapshots[i].photo = 0 /\ UNCHANGED <<visits, seen, threads, sentPhotos, recorded>>
    BY <1>1 DEF SnapshotTaken, SoundSnapshot
  <1>3. CASE snapshots' = [snapshots EXCEPT ![i].at = "failed"]
    <2> DEFINE s == [snapshots[i] EXCEPT !.at = "failed"]
    <2>1. snapshots' = [snapshots EXCEPT ![i] = s]  BY <1>1, <1>3
    <2>2. s \in SnapshotRecord /\ s.by = snapshots[i].by /\ s.camera = snapshots[i].camera /\ s.at = "failed"
          /\ s.reply = snapshots[i].reply
      BY <1>1 DEF SnapshotRecord
    <2>3. SoundSnapshot(s)  BY <2>2 DEF SoundSnapshot
    <2> HIDE DEF s
    <2> QED  BY <1>1, <1>2, <2>1, <2>2, <2>3, SnapshotMoves
  <1>4. ASSUME NEW found \in {"notable", "nothing"},
               snapshots' = [snapshots EXCEPT ![i] = [[snapshots[i] EXCEPT !.found = found] EXCEPT
                               !.at = IF Suppressed([snapshots[i] EXCEPT !.found = found]) THEN "scene" ELSE "sending"]]
        PROVE CameraInv'
    <2> DEFINE r == [snapshots[i] EXCEPT !.found = found]
               at == IF Suppressed(r) THEN "scene" ELSE "sending"
               s == [r EXCEPT !.at = at]
    <2>1. snapshots' = [snapshots EXCEPT ![i] = s]  BY <1>4
    <2>2. r \in SnapshotRecord /\ r.by = snapshots[i].by /\ r.camera = snapshots[i].camera /\ r.found = found
          /\ r.reply = snapshots[i].reply /\ r.photo = 0
      BY <1>1, <1>2 DEF SnapshotRecord
    <2>3. at \in {"scene", "sending"} /\ (at = "scene" <=> r.by = "alert" /\ found = "nothing")  BY <2>2 DEF Suppressed
    <2> HIDE DEF r, at
    <2>4. s \in SnapshotRecord /\ s.by = snapshots[i].by /\ s.camera = snapshots[i].camera /\ s.at = at
          /\ s.reply = snapshots[i].reply /\ s.found = found /\ s.photo = 0
      BY <2>2, <2>3 DEF SnapshotRecord
    <2>5. SoundSnapshot(s)  BY <2>2, <2>3, <2>4 DEF SoundSnapshot, Suppressed
    <2> HIDE DEF s
    <2> QED  BY <1>1, <1>2, <2>1, <2>3, <2>4, <2>5, SnapshotMoves
  <1> QED  BY <1>3, <1>4 DEF SnapshotTaken

\* A photo that reached the chat begins the thread of its camera, or none.
LEMMA PhotoStep == ASSUME CameraInv, NEW i \in DOMAIN snapshots, PhotoSent(i) PROVE CameraInv'
  <1> DEFINE s == snapshots[i]
             id == Len(sentPhotos) + 1
             photo == [camera |-> s.camera, reply |-> s.reply, of |-> i]
             failed == [s EXCEPT !.at = "failed"]
             sent == [s EXCEPT !.at = "scene", !.photo = id]
  <1>1. s \in SnapshotRecord /\ SoundSnapshot(s) /\ s.camera \in Cameras /\ s.reply \in Nat /\ i \in Nat
        /\ threads \in [Cameras -> ThreadRecord] /\ sentPhotos \in Seq(PhotoRecord) /\ snapshots \in Seq(SnapshotRecord)
    BY PictureKnown
  <1>2. s.at = "sending" /\ UNCHANGED <<visits, seen, recorded>>
    BY DEF PhotoSent
  <1>3. Begins(s.reply, s.camera, sentPhotos, snapshots)  BY DEF CameraInv, ThreadsBegun, BeginsThread
  <1>4. photo \in PhotoRecord /\ photo.camera = s.camera /\ photo.reply = s.reply /\ photo.of = i
    BY <1>1 DEF PhotoRecord
  <1>5. id \in Nat \ {0} /\ id \notin DOMAIN sentPhotos  BY <1>1
  <1>6. ~Suppressed(s)  BY <1>1, <1>2 DEF SoundSnapshot
  <1> HIDE DEF id
  <1>7. failed \in SnapshotRecord /\ failed.by = s.by /\ failed.camera = s.camera /\ failed.at = "failed"
        /\ failed.reply = s.reply
    BY <1>1 DEF SnapshotRecord
  <1>8. sent \in SnapshotRecord /\ sent.by = s.by /\ sent.camera = s.camera /\ sent.at = "scene"
        /\ sent.reply = s.reply /\ sent.found = s.found /\ sent.photo = id
    BY <1>1, <1>5 DEF SnapshotRecord
  <1>9. SoundSnapshot(failed)  BY <1>7 DEF SoundSnapshot
  <1>10. CASE sentPhotos' = sentPhotos /\ threads' = threads /\ snapshots' = [snapshots EXCEPT ![i].at = "failed"]
    <2>1. snapshots' = [snapshots EXCEPT ![i] = failed]  BY <1>1, <1>10
    <2> HIDE DEF failed
    <2> QED  BY <1>1, <1>2, <1>7, <1>9, <1>10, <2>1, SnapshotMoves
  <1>11. CASE sentPhotos' = Append(sentPhotos, photo)
    <2> HIDE DEF photo
    <2>1. sentPhotos' \in Seq(PhotoRecord) /\ DOMAIN sentPhotos' = DOMAIN sentPhotos \cup {id} /\ sentPhotos'[id] = photo
          /\ \A p \in DOMAIN sentPhotos : p \in DOMAIN sentPhotos' /\ sentPhotos'[p] = sentPhotos[p]
      BY <1>1, <1>4, <1>11 DEF id
    <2>2. \A p \in DOMAIN sentPhotos' : p \in DOMAIN sentPhotos \/ BeginsThread(sentPhotos'[p].reply, sentPhotos'[p].camera)
      BY <1>3, <1>4, <2>1 DEF BeginsThread
    <2>3. CASE threads' = threads /\ snapshots' = [snapshots EXCEPT ![i].at = "failed"]
      <3>1. snapshots' = [snapshots EXCEPT ![i] = failed]  BY <1>1, <2>3
      <3> HIDE DEF failed
      <3> QED  BY <1>1, <1>2, <1>7, <1>9, <2>1, <2>2, <2>3, <3>1, SnapshotMoves
    <2>4. CASE /\ snapshots' = [snapshots EXCEPT ![i].at = "scene", ![i].photo = id]
               /\ threads' = IF Tracks(s) THEN [threads EXCEPT ![s.camera] = [photo |-> id, fresh |-> TRUE]] ELSE threads
      <3>1. snapshots' = [snapshots EXCEPT ![i] = sent]  BY <1>1, <2>4
      <3>2. SoundSnapshot(sent)
        <4> HIDE DEF sent, s
        <4> QED  BY <1>5, <1>6, <1>8 DEF SoundSnapshot, Suppressed
      <3> DEFINE t == [photo |-> id, fresh |-> TRUE]
      <3>3. t \in ThreadRecord /\ t.photo = id  BY <1>5 DEF ThreadRecord
      <3>4. threads' \in [Cameras -> ThreadRecord]  BY <1>1, <2>4, <3>3
      <3>5. i \in DOMAIN snapshots' /\ snapshots'[i].by = s.by
        <4> HIDE DEF sent
        <4> QED  BY <1>1, <1>8, <3>1
      <3>6. ASSUME NEW d \in Cameras
            PROVE  threads'[d].photo = threads[d].photo \/ Begins(threads'[d].photo, d, sentPhotos', snapshots')
        <4>1. CASE Tracks(s) /\ d = s.camera
          <5>1. s.by = "alert" /\ s.reply = 0  BY <4>1 DEF Tracks
          <5>2. threads'[d] = t  BY <1>1, <2>4, <4>1
          <5> HIDE DEF t, s
          <5>3. Begins(id, d, sentPhotos', snapshots')  BY <1>4, <2>1, <3>5, <4>1, <5>1 DEF Begins
          <5> QED  BY <3>3, <5>2, <5>3
        <4>2. CASE ~(Tracks(s) /\ d = s.camera)
          <5>1. threads'[d] = threads[d]  BY <1>1, <2>4, <4>2
          <5> QED  BY <5>1
        <4> QED  BY <4>1, <4>2
      <3> HIDE DEF sent
      <3> QED  BY <1>1, <1>2, <1>8, <2>1, <2>2, <3>1, <3>2, <3>4, <3>6, SnapshotMoves
    <2> QED  BY <1>11, <2>3, <2>4 DEF PhotoSent, id
  <1> QED  BY <1>10, <1>11 DEF PhotoSent

\* An alert that was not suppressed is in the history once its picture is over, and under its thread.
LEMMA LoggedStep == ASSUME CameraInv, NEW i \in DOMAIN snapshots, SnapshotLogged(i) PROVE CameraInv'
  <1> DEFINE s == snapshots[i]
             o == [s EXCEPT !.at = "over"]
             e == [camera |-> s.camera, photo |-> InThread(s), of |-> i]
             HistoryRecord == [camera: Cameras, photo: Nat, of: Nat]
  <1>1. s \in SnapshotRecord /\ SoundSnapshot(s) /\ s.camera \in Cameras /\ s.reply \in Nat /\ i \in Nat
        /\ threads \in [Cameras -> ThreadRecord] /\ snapshots \in Seq(SnapshotRecord)
    BY PictureKnown
  <1>2. /\ s.at = "scene" /\ UNCHANGED <<visits, seen, threads, sentPhotos>> /\ snapshots' = [snapshots EXCEPT ![i] = o]
        /\ recorded' = IF s.by = "alert" /\ ~Suppressed(s) THEN Append(recorded, e) ELSE recorded
    BY <1>1 DEF SnapshotLogged
  <1>3. o \in SnapshotRecord /\ o.by = s.by /\ o.camera = s.camera /\ o.reply = s.reply /\ o.at = "over"
        /\ o.found = s.found /\ o.photo = s.photo
    BY <1>1 DEF SnapshotRecord
  <1>4. InThread(s) \in Nat /\ Begins(InThread(s), s.camera, sentPhotos, snapshots)
    BY <1>1 DEF InThread, ThreadRecord, CameraInv, ThreadsBegun, BeginsThread
  <1>5. e \in HistoryRecord /\ e.camera = s.camera /\ e.photo = InThread(s) /\ e.of = i  BY <1>1, <1>4
  <1>6. recorded \in Seq(HistoryRecord)  BY DEF CameraInv, CameraShape
  <1>7. (SoundSnapshot(o) /\ (Suppressed(o) <=> Suppressed(s)))  BY <1>1, <1>2, <1>3 DEF SoundSnapshot, Suppressed
  <1> HIDE DEF o, e, s, HistoryRecord
  <1>8. snapshots' \in Seq(SnapshotRecord) /\ DOMAIN snapshots' = DOMAIN snapshots
        /\ snapshots'[i] = o /\ \A k \in DOMAIN snapshots \ {i} : snapshots'[k] = snapshots[k]
    BY <1>1, <1>2, <1>3
  <1>9. \A k \in DOMAIN snapshots : snapshots'[k].by = snapshots[k].by  BY <1>3, <1>8 DEF s
  <1>10. \A p, c : Begins(p, c, sentPhotos, snapshots) => Begins(p, c, sentPhotos', snapshots')
    BY <1>2, <1>8, <1>9, ThreadStands
  <1>11. VisitsSeen'  BY <1>2 DEF CameraInv, VisitsSeen
  <1>12. /\ recorded' \in Seq(HistoryRecord)
         /\ \A h \in DOMAIN recorded : h \in DOMAIN recorded' /\ recorded'[h] = recorded[h]
         /\ \A h \in DOMAIN recorded' : h \in DOMAIN recorded \/ recorded'[h] = e
         /\ s.by = "alert" /\ ~Suppressed(s) => \E h \in DOMAIN recorded' : recorded'[h] = e
         /\ ~(s.by = "alert" /\ ~Suppressed(s)) => recorded' = recorded
    <2>1. CASE recorded' = recorded  /\ ~(s.by = "alert" /\ ~Suppressed(s)) BY <1>6, <2>1
    <2>2. CASE recorded' = Append(recorded, e) /\ s.by = "alert" /\ ~Suppressed(s)
      <3>1. recorded' \in Seq(HistoryRecord) /\ DOMAIN recorded' = DOMAIN recorded \cup {Len(recorded) + 1}
            /\ recorded'[Len(recorded) + 1] = e /\ \A h \in DOMAIN recorded : recorded'[h] = recorded[h]
        BY <1>5, <1>6, <2>2
      <3> QED  BY <2>2, <3>1
    <2> QED  BY <1>2, <2>1, <2>2
  <1>13. CameraShape'
    <2>1. recorded' \in Seq([camera: Cameras, photo: Nat, of: Nat])  BY <1>12 DEF HistoryRecord
    <2> QED  BY <1>2, <1>8, <2>1 DEF CameraInv, CameraShape
  <1>14. ThreadsBegun'
    <2>1. \A p \in DOMAIN sentPhotos : Begins(sentPhotos[p].reply, sentPhotos[p].camera, sentPhotos', snapshots')
      BY <1>10 DEF CameraInv, ThreadsBegun, BeginsThread
    <2>2. \A c \in Cameras : Begins(threads[c].photo, c, sentPhotos', snapshots')
      BY <1>10 DEF CameraInv, ThreadsBegun, BeginsThread
    <2>3. \A k \in DOMAIN snapshots' : Begins(snapshots'[k].reply, snapshots'[k].camera, sentPhotos', snapshots')
      <3> SUFFICES ASSUME NEW k \in DOMAIN snapshots'
                   PROVE  Begins(snapshots'[k].reply, snapshots'[k].camera, sentPhotos, snapshots)
        BY <1>10
      <3>1. snapshots'[k].reply = snapshots[k].reply /\ snapshots'[k].camera = snapshots[k].camera  BY <1>3, <1>8 DEF s
      <3> QED  BY <1>8, <3>1 DEF CameraInv, ThreadsBegun, BeginsThread
    <2>4. \A h \in DOMAIN recorded' : Begins(recorded'[h].photo, recorded'[h].camera, sentPhotos', snapshots')
      <3> SUFFICES ASSUME NEW h \in DOMAIN recorded'
                   PROVE  Begins(recorded'[h].photo, recorded'[h].camera, sentPhotos, snapshots)
        BY <1>10
      <3>1. CASE h \in DOMAIN recorded  BY <1>12, <3>1 DEF CameraInv, ThreadsBegun, BeginsThread
      <3>2. CASE recorded'[h] = e  BY <1>4, <1>5, <3>2
      <3> QED  BY <1>12, <3>1, <3>2
    <2> QED  BY <1>2, <2>1, <2>2, <2>3, <2>4 DEF ThreadsBegun, BeginsThread
  <1>15. SnapshotsSettled'
    <2>1. \A k : k # i => (Recorded(k)' <=> Recorded(k))
      <3> SUFFICES ASSUME NEW k, k # i PROVE Recorded(k)' <=> Recorded(k)
        OBVIOUS
      <3>1. \A h \in DOMAIN recorded' : recorded'[h].of = k => h \in DOMAIN recorded  BY <1>5, <1>12
      <3> QED  BY <1>12, <3>1 DEF Recorded
    <2>2. ~Recorded(i)  BY <1>2 DEF CameraInv, SnapshotsSettled, s
    <2>3. Recorded(i)' <=> s.by = "alert" /\ ~Suppressed(s)
      <3>1. CASE s.by = "alert" /\ ~Suppressed(s)  BY <1>5, <1>12, <3>1 DEF Recorded
      <3>2. CASE ~(s.by = "alert" /\ ~Suppressed(s))
        <4>1. recorded' = recorded  BY <1>12, <3>2
        <4>2. Recorded(i)' <=> Recorded(i)  BY <4>1 DEF Recorded
        <4> QED  BY <2>2, <3>2, <4>2
      <3> QED  BY <3>1, <3>2
    <2>4. \A k \in DOMAIN snapshots' :
            /\ SoundSnapshot(snapshots'[k])
            /\ Recorded(k)' <=> snapshots'[k].at = "over" /\ snapshots'[k].by = "alert" /\ ~Suppressed(snapshots'[k])
      <3> SUFFICES ASSUME NEW k \in DOMAIN snapshots'
                   PROVE  /\ SoundSnapshot(snapshots'[k])
                          /\ Recorded(k)' <=> snapshots'[k].at = "over" /\ snapshots'[k].by = "alert" /\ ~Suppressed(snapshots'[k])
        OBVIOUS
      <3>1. CASE k = i  BY <1>3, <1>7, <1>8, <2>3, <3>1
      <3>2. CASE k # i  BY <1>8, <2>1, <3>2 DEF CameraInv, SnapshotsSettled
      <3> QED  BY <3>1, <3>2
    <2>5. \A h \in DOMAIN recorded' : recorded'[h].of \in DOMAIN snapshots'
      <3> SUFFICES ASSUME NEW h \in DOMAIN recorded' PROVE recorded'[h].of \in DOMAIN snapshots
        BY <1>8
      <3>1. CASE h \in DOMAIN recorded  BY <1>12, <3>1 DEF CameraInv, SnapshotsSettled
      <3>2. CASE recorded'[h] = e  BY <1>5, <3>2
      <3> QED  BY <1>12, <3>1, <3>2
    <2> QED  BY <2>4, <2>5 DEF SnapshotsSettled
  <1> QED  BY <1>11, <1>13, <1>14, <1>15 DEF CameraInv

LEMMA CameraStep == ASSUME CameraInv, [CameraNext]_cameraVars PROVE CameraInv'
  <1>1. ASSUME NEW c \in Cameras, PersonMoves(c) \/ CooldownEnds(c) \/ WindowEnds(c) PROVE CameraInv'
    BY <1>1, BeforeTheCamera
  <1>2. ASSUME NEW c \in Cameras, Polls(c) PROVE CameraInv'  BY <1>2, PollStep
  <1>3. ASSUME NEW c \in Cameras, SnapshotAsked(c) PROVE CameraInv'  BY <1>3, AskedStep
  <1>4. ASSUME NEW i \in DOMAIN snapshots, AlertBegins(i) PROVE CameraInv'  BY <1>4, BeginsStep
  <1>5. ASSUME NEW i \in DOMAIN snapshots, SnapshotTaken(i) PROVE CameraInv'  BY <1>5, TakenStep
  <1>6. ASSUME NEW i \in DOMAIN snapshots, PhotoSent(i) PROVE CameraInv'  BY <1>6, PhotoStep
  <1>7. ASSUME NEW i \in DOMAIN snapshots, SnapshotLogged(i) PROVE CameraInv'  BY <1>7, LoggedStep
  <1>8. CASE UNCHANGED cameraVars
    BY <1>8 DEF cameraVars, CameraInv, CameraShape, VisitsSeen, ThreadsBegun, SnapshotsSettled, BeginsThread, Recorded
  <1> QED  BY <1>1, <1>2, <1>3, <1>4, <1>5, <1>6, <1>7, <1>8 DEF CameraNext

LEMMA CameraImplies == CameraInv => CamerasSound
  <1> SUFFICES ASSUME CameraInv PROVE CamerasSound
    OBVIOUS
  <1>1. OneAlertPerVisit  BY DEF CameraInv, VisitsSeen, OneAlertPerVisit
  <1>2. ThreadsFlat  BY DEF CameraInv, ThreadsBegun, BeginsThread, Begins, ThreadsFlat
  <1>3. AlertsAccounted
    <2>1. ASSUME NEW i \in DOMAIN snapshots, snapshots[i].at = "over"
          PROVE  /\ snapshots[i].by = "model" => snapshots[i].photo # 0
                 /\ snapshots[i].by = "alert" => (snapshots[i].photo # 0 <=> \E h \in DOMAIN recorded : recorded[h].of = i)
      <3>1. SoundSnapshot(snapshots[i])  BY DEF CameraInv, SnapshotsSettled
      <3>2. Recorded(i) <=> snapshots[i].by = "alert" /\ ~Suppressed(snapshots[i])
        BY <2>1 DEF CameraInv, SnapshotsSettled
      <3> QED  BY <2>1, <3>1, <3>2 DEF SoundSnapshot, Recorded
    <2>2. \A h \in DOMAIN recorded :
            recorded[h].photo # 0 => sentPhotos[recorded[h].photo].camera = recorded[h].camera
                                     /\ sentPhotos[recorded[h].photo].reply = 0
      BY DEF CameraInv, ThreadsBegun, BeginsThread, Begins
    <2> QED  BY <2>1, <2>2 DEF AlertsAccounted
  <1> QED  BY <1>1, <1>2, <1>3 DEF CamerasSound

\* Whoever comes before a camera is reported once, an alert replies only to a photo of its camera
\* that began a thread, and what was sent is what the history and the model are told
\* (reolink_polling_loop, trigger_webhook_alert, get_reolink_snapshot).
THEOREM CamerasHeld == CameraSpec => []CamerasSound
  <1> QED  BY CameraInitial, CameraStep, CameraImplies, PTL DEF CameraSpec

(***************************************************************************)
(* The heartbeat. How many messages a day has had is what the counts say   *)
(* of the day they are about, and no message is of a later day; so a count *)
(* that begins anew begins at what is true. A check that has passed the    *)
(* limits still passes them when its message is sent, however late.        *)
(***************************************************************************)

CountRecord == [day: Nat, count: Nat, message: Nat, evaluation: Nat]

SentOn(times, d) == {i \in DOMAIN times : Day(times[i]) = d}

HeartbeatShape ==
    /\ hour \in Nat \ {0}
    /\ check \in {"idle", "context", "engine", "sending"}
    /\ counted \in CountRecord /\ proactive \in Seq(Nat)

DaysCounted ==
    /\ counted.day <= Day(hour)
    /\ \A i \in DOMAIN proactive : Day(proactive[i]) <= counted.day
    /\ Cardinality(SentOn(proactive, counted.day)) = counted.count
    /\ DailyLimit > 0 => \A d \in Nat : Cardinality(SentOn(proactive, d)) <= DailyLimit

\* The last message is the one the cooldown runs from.
MessagesApart ==
    /\ counted.message <= hour
    /\ \A i \in DOMAIN proactive : 0 < proactive[i] /\ proactive[i] <= counted.message
    /\ \A i, j \in DOMAIN proactive : i < j => proactive[j] - proactive[i] >= ProactiveCooldown

MayWrite(c, now) ==
    /\ DailyLimit > 0 => DailyCount(c, now).count < DailyLimit
    /\ ~Within(now, c.message, ProactiveCooldown)

HeartbeatInv ==
    /\ HeartbeatShape /\ DaysCounted /\ MessagesApart
    /\ check # "idle" => MayWrite(counted, hour)

\* A later hour is of no earlier day.
LEMMA DayTyped == ASSUME NEW h \in Nat PROVE Day(h) \in Nat
  BY HeartbeatAssumption DEF Day

LEMMA DaysPass == ASSUME NEW h \in Nat PROVE Day(h) <= Day(h + 1)
  <1> DEFINE q == h \div DayLength
             r == (h + 1) \div DayLength
  <1>1. DayLength \in Nat \ {0}  BY HeartbeatAssumption
  <1>2. q \in Nat /\ r \in Nat /\ DayLength * q <= h /\ h + 1 < DayLength * r + DayLength
    BY <1>1
  <1> HIDE DEF q, r
  <1>3. ASSUME r < q PROVE FALSE
    <2>1. DayLength * (r + 1) <= DayLength * q  BY <1>1, <1>2, <1>3
    <2>2. DayLength * (r + 1) = DayLength * r + DayLength  BY <1>1, <1>2
    <2> QED  BY <1>1, <1>2, <2>1, <2>2
  <1> QED  BY <1>2, <1>3 DEF q, r, Day

LEMMA SentFinite == ASSUME NEW p \in Seq(Nat), NEW d PROVE IsFiniteSet(SentOn(p, d)) /\ Cardinality(SentOn(p, d)) \in Nat
  <1>1. Len(p) \in Nat /\ SentOn(p, d) \subseteq 1 .. Len(p)  BY DEF SentOn
  <1>2. IsFiniteSet(1 .. Len(p))  BY <1>1, FS_Interval
  <1> QED  BY <1>1, <1>2, FS_Subset, FS_CardinalityType

\* One more message counts for its day and no other.
LEMMA SentAppended ==
    ASSUME NEW p \in Seq(Nat), NEW x \in Nat, NEW d
    PROVE  Cardinality(SentOn(Append(p, x), d)) =
             IF Day(x) = d THEN Cardinality(SentOn(p, d)) + 1 ELSE Cardinality(SentOn(p, d))
  <1> DEFINE n == Len(p) + 1
             q == Append(p, x)
  <1>1. DOMAIN q = DOMAIN p \cup {n} /\ n \notin DOMAIN p /\ q[n] = x /\ \A i \in DOMAIN p : q[i] = p[i]
    OBVIOUS
  <1> HIDE DEF n, q
  <1>2. CASE Day(x) = d
    <2>1. SentOn(q, d) = SentOn(p, d) \cup {n} /\ n \notin SentOn(p, d)  BY <1>1, <1>2 DEF SentOn
    <2>2. IsFiniteSet(SentOn(p, d))  BY SentFinite
    <2> QED  BY <1>2, <2>1, <2>2, FS_AddElement DEF q
  <1>3. CASE Day(x) # d
    <2>1. SentOn(q, d) = SentOn(p, d)  BY <1>1, <1>3 DEF SentOn
    <2> QED  BY <1>3, <2>1 DEF q
  <1> QED  BY <1>2, <1>3

LEMMA HeartbeatInitial == HeartbeatInit => HeartbeatInv
  <1> SUFFICES ASSUME HeartbeatInit PROVE HeartbeatInv
    OBVIOUS
  <1>1. DayLength \in Nat \ {0} /\ DailyLimit \in Nat  BY HeartbeatAssumption
  <1>2. HeartbeatShape /\ MessagesApart /\ check = "idle"
    BY <1>1 DEF HeartbeatInit, HeartbeatShape, CountRecord, MessagesApart
  <1>3. \A d : Cardinality(SentOn(proactive, d)) = 0
    <2>1. \A d : SentOn(proactive, d) = {}  BY DEF HeartbeatInit, SentOn
    <2> QED  BY <2>1, FS_EmptySet
  <1>4. DaysCounted  BY <1>1, <1>3, DayTyped DEF HeartbeatInit, DaysCounted
  <1> QED  BY <1>2, <1>4 DEF HeartbeatInv

\* A count of another day is none, and that is true of the day.
LEMMA CountedDay ==
    ASSUME HeartbeatInv
    PROVE  LET c == DailyCount(counted, hour)
           IN  /\ c \in CountRecord /\ c.day = Day(hour) /\ c.message = counted.message
               /\ Cardinality(SentOn(proactive, c.day)) = c.count
               /\ MayWrite(counted, hour) => MayWrite(c, hour)
  <1> DEFINE c == DailyCount(counted, hour)
             r == [counted EXCEPT !.day = Day(hour), !.count = 0]
  <1>1. hour \in Nat /\ counted \in CountRecord /\ proactive \in Seq(Nat) /\ Day(hour) \in Nat
    BY DayTyped DEF HeartbeatInv, HeartbeatShape
  <1>2. CASE counted.day = Day(hour)
    <2>1. c = counted  BY <1>2 DEF DailyCount
    <2> QED  BY <1>1, <1>2, <2>1 DEF HeartbeatInv, DaysCounted
  <1>3. CASE counted.day # Day(hour)
    <2>1. c = r  BY <1>3 DEF DailyCount
    <2>2. r \in CountRecord /\ r.day = Day(hour) /\ r.message = counted.message /\ r.count = 0  BY <1>1 DEF CountRecord
    <2>3. SentOn(proactive, Day(hour)) = {}
      <3>1. ASSUME NEW i \in DOMAIN proactive PROVE Day(proactive[i]) # Day(hour)
        <4>1. Day(proactive[i]) <= counted.day /\ counted.day <= Day(hour)  BY DEF HeartbeatInv, DaysCounted
        <4>2. proactive[i] \in Nat /\ counted.day \in Nat  BY <1>1 DEF CountRecord
        <4>3. Day(proactive[i]) \in Nat  BY <4>2, DayTyped
        <4> QED  BY <1>1, <1>3, <4>1, <4>2, <4>3
      <3> QED  BY <3>1 DEF SentOn
    <2> HIDE DEF r
    <2>4. DailyCount(r, hour) = r  BY <2>2 DEF DailyCount
    <2>5. MayWrite(counted, hour) => MayWrite(r, hour)  BY <2>2, <2>4, HeartbeatAssumption DEF MayWrite
    <2>6. c = r  BY <2>1
    <2> HIDE DEF c
    <2> QED  BY <2>2, <2>3, <2>5, <2>6, FS_EmptySet DEF c
  <1> QED  BY <1>2, <1>3

LEMMA HourStep == ASSUME HeartbeatInv, HourPasses PROVE HeartbeatInv'
  <1> DEFINE h == hour + 1
  <1>1. hour \in Nat \ {0} /\ counted \in CountRecord /\ proactive \in Seq(Nat) /\ Day(hour) \in Nat
    BY DayTyped DEF HeartbeatInv, HeartbeatShape
  <1>2. hour' = h /\ UNCHANGED <<check, counted, proactive>>  BY DEF HourPasses
  <1>3. h \in Nat \ {0} /\ hour < h /\ Day(hour) <= Day(h) /\ Day(h) \in Nat  BY <1>1, DaysPass, DayTyped
  <1>4. counted.day \in Nat /\ counted.count \in Nat /\ counted.message \in Nat  BY <1>1 DEF CountRecord
  <1> HIDE DEF h
  <1>5. HeartbeatShape'  BY <1>1, <1>2, <1>3 DEF HeartbeatInv, HeartbeatShape
  <1>6. DaysCounted'
    <2>1. counted.day <= Day(h)  BY <1>1, <1>3, <1>4 DEF HeartbeatInv, DaysCounted
    <2> QED  BY <1>2, <2>1 DEF HeartbeatInv, DaysCounted
  <1>7. MessagesApart'
    <2>1. counted.message <= h  BY <1>1, <1>3, <1>4 DEF HeartbeatInv, MessagesApart
    <2> QED  BY <1>2, <2>1 DEF HeartbeatInv, MessagesApart
  <1>8. MayWrite(counted, hour) => MayWrite(counted, h)
    <2>1. DailyLimit \in Nat /\ ProactiveCooldown \in Nat  BY HeartbeatAssumption
    <2>2. ~Within(hour, counted.message, ProactiveCooldown) => ~Within(h, counted.message, ProactiveCooldown)
      BY <1>1, <1>3, <1>4, <2>1 DEF Within
    <2>3. ASSUME DailyLimit > 0, DailyCount(counted, hour).count < DailyLimit
          PROVE  DailyCount(counted, h).count < DailyLimit
      <3>1. CASE counted.day = Day(h)
        <4>1. counted.day <= Day(hour)  BY DEF HeartbeatInv, DaysCounted
        <4>2. counted.day = Day(hour)  BY <1>1, <1>3, <1>4, <3>1, <4>1
        <4> QED  BY <2>3, <3>1, <4>2 DEF DailyCount
      <3>2. CASE counted.day # Day(h)
        <4>1. [counted EXCEPT !.day = Day(h), !.count = 0].count = 0  BY <1>1 DEF CountRecord
        <4> QED  BY <2>1, <2>3, <3>2, <4>1 DEF DailyCount
      <3> QED  BY <3>1, <3>2
    <2> QED  BY <2>2, <2>3 DEF MayWrite
  <1> QED  BY <1>2, <1>5, <1>6, <1>7, <1>8 DEF HeartbeatInv

\* Where the counts may be brought to the day.
LEMMA CheckMoves ==
    ASSUME HeartbeatInv, UNCHANGED <<hour, proactive>>, check' \in {"idle", "context", "engine", "sending"},
           NEW c \in CountRecord, counted' = c, c.day = Day(hour), c.message = counted.message,
           Cardinality(SentOn(proactive, c.day)) = c.count, check' # "idle" => MayWrite(c, hour)
    PROVE  HeartbeatInv'
  <1>1. hour \in Nat \ {0} /\ proactive \in Seq(Nat) /\ Day(hour) \in Nat /\ counted.day \in Nat
    BY DayTyped DEF HeartbeatInv, HeartbeatShape, CountRecord
  <1>2. HeartbeatShape'  BY DEF HeartbeatInv, HeartbeatShape
  <1>3. MessagesApart'  BY DEF HeartbeatInv, MessagesApart
  <1>4. \A i \in DOMAIN proactive : Day(proactive[i]) <= c.day
    <2> SUFFICES ASSUME NEW i \in DOMAIN proactive PROVE Day(proactive[i]) <= c.day
      OBVIOUS
    <2>1. proactive[i] \in Nat  BY <1>1
    <2>2. Day(proactive[i]) \in Nat  BY <2>1, DayTyped
    <2>3. Day(proactive[i]) <= counted.day /\ counted.day <= Day(hour)  BY DEF HeartbeatInv, DaysCounted
    <2> QED  BY <1>1, <2>2, <2>3
  <1>5. DaysCounted'  BY <1>1, <1>4 DEF HeartbeatInv, DaysCounted
  <1> QED  BY <1>2, <1>3, <1>5 DEF HeartbeatInv

LEMMA CheckStep == ASSUME HeartbeatInv, HeartbeatCheck PROVE HeartbeatInv'
  <1> DEFINE c == DailyCount(counted, hour)
             e == [c EXCEPT !.evaluation = hour]
  <1>1. c \in CountRecord /\ c.day = Day(hour) /\ c.message = counted.message
        /\ Cardinality(SentOn(proactive, c.day)) = c.count /\ (MayWrite(counted, hour) => MayWrite(c, hour))
    BY CountedDay
  <1>2. hour \in Nat  BY DEF HeartbeatInv, HeartbeatShape
  <1>3. check = "idle" /\ UNCHANGED <<hour, proactive>>  BY DEF HeartbeatCheck
  <1>4. CASE Suppresses(counted, hour) /\ counted' = c /\ UNCHANGED check
    <2> HIDE DEF c
    <2> QED  BY <1>1, <1>3, <1>4, CheckMoves
  <1>5. CASE ~Suppresses(counted, hour) /\ counted' = e /\ check' = "context"
    <2>1. MayWrite(counted, hour)
      <3>1. ASSUME DailyLimit > 0 PROVE c.count < DailyLimit
        <4>1. c.count \in Nat /\ DailyLimit \in Nat  BY <1>1, HeartbeatAssumption DEF CountRecord
        <4>2. ~(c.count >= DailyLimit)  BY <1>5, <3>1 DEF Suppresses
        <4> HIDE DEF c
        <4> QED  BY <4>1, <4>2
      <3> QED  BY <1>5, <3>1 DEF Suppresses, MayWrite
    <2> HIDE DEF c
    <2>2. e \in CountRecord /\ e.day = c.day /\ e.message = c.message /\ e.count = c.count  BY <1>1, <1>2 DEF CountRecord
    <2> HIDE DEF e
    <2>3. MayWrite(e, hour)
      <3>1. DailyCount(e, hour) = e /\ DailyCount(c, hour) = c  BY <1>1, <2>2 DEF DailyCount
      <3> QED  BY <1>1, <2>1, <2>2, <3>1 DEF MayWrite
    <2> QED  BY <1>1, <1>3, <1>5, <2>2, <2>3, CheckMoves
  <1> QED  BY <1>4, <1>5 DEF HeartbeatCheck

LEMMA ContextStep == ASSUME HeartbeatInv, ContextBuilt PROVE HeartbeatInv'
  <1> DEFINE c == DailyCount(counted, hour)
  <1>1. c \in CountRecord /\ c.day = Day(hour) /\ c.message = counted.message
        /\ Cardinality(SentOn(proactive, c.day)) = c.count /\ (MayWrite(counted, hour) => MayWrite(c, hour))
    BY CountedDay
  <1>2. check = "context" /\ check' = "engine" /\ counted' = c /\ UNCHANGED <<hour, proactive>>  BY DEF ContextBuilt
  <1>3. MayWrite(counted, hour)  BY <1>2 DEF HeartbeatInv
  <1> HIDE DEF c
  <1> QED  BY <1>1, <1>2, <1>3, CheckMoves

\* A message is written within the limits the check has passed, and counts from now on.
LEMMA SentStep == ASSUME HeartbeatInv, HeartbeatSent PROVE HeartbeatInv'
  <1> DEFINE c == DailyCount(counted, hour)
             n == c.count + 1
             r == [c EXCEPT !.count = n, !.message = hour]
  <1>1. c \in CountRecord /\ c.day = Day(hour) /\ c.message = counted.message
        /\ Cardinality(SentOn(proactive, c.day)) = c.count
    BY CountedDay
  <1>2. hour \in Nat \ {0} /\ proactive \in Seq(Nat) /\ Day(hour) \in Nat /\ counted \in CountRecord
        /\ DailyLimit \in Nat /\ ProactiveCooldown \in Nat
    BY DayTyped, HeartbeatAssumption DEF HeartbeatInv, HeartbeatShape
  <1>3. check = "sending" /\ check' = "idle" /\ hour' = hour  BY DEF HeartbeatSent
  <1>4. MayWrite(counted, hour)  BY <1>3 DEF HeartbeatInv
  <1>5. CASE counted' = counted /\ proactive' = proactive
    BY <1>3, <1>5 DEF HeartbeatInv, HeartbeatShape, DaysCounted, MessagesApart
  <1>6. CASE counted' = Counts(counted, hour) /\ proactive' = Append(proactive, hour)
    <2>1. counted' = r  BY <1>6 DEF Counts, RecordProactive
    <2>2. DailyLimit > 0 => c.count < DailyLimit  BY <1>4 DEF MayWrite
    <2> HIDE DEF c
    <2>3. n \in Nat /\ c.count \in Nat /\ (DailyLimit > 0 => n <= DailyLimit)  BY <1>1, <1>2, <2>2 DEF CountRecord
    <2>4. n = c.count + 1  OBVIOUS
    <2> HIDE DEF n
    <2>5. r \in CountRecord /\ r.day = Day(hour) /\ r.count = n /\ r.message = hour
      BY <1>1, <1>2, <2>3 DEF CountRecord
    <2> HIDE DEF r
    <2>6. /\ proactive' \in Seq(Nat) /\ DOMAIN proactive' = DOMAIN proactive \cup {Len(proactive) + 1}
          /\ proactive'[Len(proactive) + 1] = hour /\ \A i \in DOMAIN proactive : proactive'[i] = proactive[i]
      BY <1>2, <1>6
    <2>7. HeartbeatShape'  BY <1>2, <1>3, <2>1, <2>5, <2>6 DEF HeartbeatShape
    <2>8. \A i \in DOMAIN proactive : Day(proactive[i]) <= Day(hour)
      <3> SUFFICES ASSUME NEW i \in DOMAIN proactive PROVE Day(proactive[i]) <= Day(hour)
        OBVIOUS
      <3>1. proactive[i] \in Nat  BY <1>2
      <3>2. Day(proactive[i]) \in Nat /\ counted.day \in Nat  BY <1>2, <3>1, DayTyped DEF CountRecord
      <3>3. Day(proactive[i]) <= counted.day /\ counted.day <= Day(hour)  BY DEF HeartbeatInv, DaysCounted
      <3> QED  BY <1>2, <3>2, <3>3
    <2>9. \A d : Cardinality(SentOn(proactive', d)) =
                   IF Day(hour) = d THEN Cardinality(SentOn(proactive, d)) + 1 ELSE Cardinality(SentOn(proactive, d))
      BY <1>2, <1>6, SentAppended
    <2>10. DaysCounted'
      <3>1. \A i \in DOMAIN proactive' : Day(proactive'[i]) <= Day(hour)  BY <1>2, <2>6, <2>8
      <3>2. Cardinality(SentOn(proactive', Day(hour))) = n  BY <1>1, <2>4, <2>9
      <3>3. ASSUME DailyLimit > 0, NEW d \in Nat PROVE Cardinality(SentOn(proactive', d)) <= DailyLimit
        <4>1. CASE d = Day(hour)  BY <2>3, <3>2, <3>3, <4>1
        <4>2. CASE d # Day(hour)
          <5>1. Cardinality(SentOn(proactive', d)) = Cardinality(SentOn(proactive, d))  BY <2>9, <4>2
          <5> QED  BY <3>3, <5>1 DEF HeartbeatInv, DaysCounted
        <4> QED  BY <4>1, <4>2
      <3>4. Day(hour) <= Day(hour)  BY <1>2
      <3> QED  BY <1>3, <2>1, <2>5, <3>1, <3>2, <3>3, <3>4 DEF DaysCounted
    <2>11. MessagesApart'
      <3>1. counted.message \in Nat /\ counted.message <= hour  BY <1>2 DEF CountRecord, HeartbeatInv, MessagesApart
      <3>2. ASSUME NEW i \in DOMAIN proactive
            PROVE  proactive[i] \in Nat /\ 0 < proactive[i] /\ proactive[i] <= hour
                   /\ hour - proactive[i] >= ProactiveCooldown
        <4>1. proactive[i] \in Nat  BY <1>2
        <4>2. 0 < proactive[i] /\ proactive[i] <= counted.message  BY DEF HeartbeatInv, MessagesApart
        <4>3. counted.message # 0  BY <3>1, <4>1, <4>2
        <4>4. ~(hour - counted.message < ProactiveCooldown)  BY <1>4, <4>3 DEF MayWrite, Within
        <4> QED  BY <1>2, <3>1, <4>1, <4>2, <4>4
      <3>3. \A i \in DOMAIN proactive' : 0 < proactive'[i] /\ proactive'[i] <= hour  BY <1>2, <2>6, <3>2
      <3>4. ASSUME NEW i \in DOMAIN proactive', NEW j \in DOMAIN proactive', i < j
            PROVE  proactive'[j] - proactive'[i] >= ProactiveCooldown
        <4>1. i \in DOMAIN proactive  BY <1>2, <1>6, <3>4
        <4>2. CASE j \in DOMAIN proactive  BY <2>6, <3>4, <4>1, <4>2 DEF HeartbeatInv, MessagesApart
        <4>3. CASE j = Len(proactive) + 1  BY <2>6, <3>2, <4>1, <4>3
        <4> QED  BY <2>6, <4>2, <4>3
      <3>5. hour <= hour  BY <1>2
      <3> QED  BY <1>3, <2>1, <2>5, <3>3, <3>4, <3>5 DEF MessagesApart
    <2> QED  BY <1>3, <2>7, <2>10, <2>11 DEF HeartbeatInv
  <1> QED  BY <1>5, <1>6 DEF HeartbeatSent

LEMMA HeartbeatStep == ASSUME HeartbeatInv, [HeartbeatNext]_heartbeatVars PROVE HeartbeatInv'
  <1>1. CASE ChatSpeaks \/ ChatCleared \/ ModeSwitches \/ UNCHANGED heartbeatVars
    <2>1. UNCHANGED <<hour, check, counted, proactive>>
      BY <1>1 DEF ChatSpeaks, ChatCleared, ModeSwitches, heartbeatVars
    <2> QED  BY <2>1 DEF HeartbeatInv, HeartbeatShape, DaysCounted, MessagesApart
  <1>2. CASE EngineAnswered
    <2>1. check = "engine" /\ check' \in {"idle", "sending"} /\ UNCHANGED <<hour, counted, proactive>>
      BY <1>2 DEF EngineAnswered
    <2> QED  BY <2>1 DEF HeartbeatInv, HeartbeatShape, DaysCounted, MessagesApart
  <1> QED  BY <1>1, <1>2, HourStep, CheckStep, ContextStep, SentStep DEF HeartbeatNext

LEMMA HeartbeatImplies == HeartbeatInv => HeartbeatSound
  <1> SUFFICES ASSUME HeartbeatInv PROVE HeartbeatSound
    OBVIOUS
  <1>1. ASSUME DailyLimit > 0, NEW h \in 1 .. hour
        PROVE  Cardinality({i \in DOMAIN proactive : Day(proactive[i]) = Day(h)}) <= DailyLimit
    <2>1. Day(h) \in Nat  BY DayTyped DEF HeartbeatInv, HeartbeatShape
    <2> QED  BY <1>1, <2>1 DEF HeartbeatInv, DaysCounted, SentOn
  <1> QED  BY <1>1 DEF HeartbeatInv, MessagesApart, HeartbeatSound

\* A chat gets no more than its messages of a day, and no two closer than the cooldown, however long
\* a check takes and however the day ends meanwhile (heartbeat_check and its counts in emery/bot.py).
THEOREM HeartbeatHeld == HeartbeatSpec => []HeartbeatSound
  <1> QED  BY HeartbeatInitial, HeartbeatStep, HeartbeatImplies, PTL DEF HeartbeatSpec

-----------------------------------------------------------------------------
(***************************************************************************)
(* The image queues (ImageQueue).  A request is in hand in one place, in   *)
(* its order, and what is still to be made of it there completes it.       *)
(***************************************************************************)

USE QueueAssumption

RunPlaces == {"run", "stopping", "marked", "after"}
StateRecord == [active: BOOLEAN, jobs: Seq(Job), paused: BOOLEAN, priority: BOOLEAN,
                cancel: BOOLEAN, ready: BOOLEAN]
WorkerRecord == [at: RunPlaces \cup {"none", "wait", "lock", "pick", "closing", "release", "notice"},
                 job: JobIds \cup {0}, left: 0..Batch, done: 0..Batch, told: 0..Batch,
                 result: {"none", "paused", "preempted", "error"}, claimed: BOOLEAN]

ImagesShape ==
    /\ st \in [Chats -> StateRecord] /\ worker \in [Chats -> WorkerRecord]
    /\ requested \in 0..MaxJobs /\ delivered \in [JobIds -> Nat] /\ excused \subseteq JobIds

\* The jobs q are in the order of their requests, and later than j of the n there were.
Ordered(q) == \A i, k \in 1..Len(q) : i < k => q[i].id < q[k].id
Later(q, j, n) == \A i \in 1..Len(q) : j < q[i].id /\ q[i].id <= n

Line(s, w, n) ==
    /\ Ordered(s.jobs) /\ Later(s.jobs, w.job, n) /\ w.job <= n
    /\ ~s.active => s.jobs = <<>> /\ w = NoWorker
    /\ s.cancel => s.jobs = <<>> /\ ~s.paused

\* How far the worker is with its job.
Running(w) ==
    /\ w.job # 0 <=> w.at \in RunPlaces
    /\ w.job # 0 =>
        /\ w.done <= w.left /\ w.told <= w.done
        /\ w.at = "run" => w.result = "none"
        /\ w.at = "stopping" => w.result # "none"
        /\ w.at = "marked" => w.result = "preempted"
        /\ w.at = "after" /\ w.result = "none" => w.done = w.left
        /\ w.result \in {"paused", "preempted"} => w.told = w.done \/ "submit" \in Preemptions

\* d images were delivered of each request: what is still to be made of it completes the request,
\* and exceeds it only after a preemption that said nothing of the images done.
Completes(delivery, left) ==
    /\ delivery + left >= Batch
    /\ "submit" \notin Preemptions => delivery + left <= Batch
Due(q, d) == \A i \in 1..Len(q) : Completes(d[q[i].id], q[i].left)
Owed(s, w, d) == Due(s.jobs, d) /\ (w.job # 0 => Completes(d[w.job], w.left - w.done))

\* A job is given up, of those in x, for an error or a cancel; or, if u, in the user's pauses.
GivenUp(s, w, x, u) ==
    /\ w.job # 0 /\ (s.cancel \/ w.result = "error") => w.job \in x
    /\ ~u => /\ s.paused => s.priority /\ w.at \in {"marked", "after", "release", "notice"}
             /\ w.job # 0 => w.result # "paused"
             /\ w.at \in {"marked", "after"} =>
                  (s.paused => w.result = "preempted") /\ (w.result = "preempted" => s.paused \/ s.cancel)

One(s, w, n, d, x, u) == Line(s, w, n) /\ Running(w) /\ Owed(s, w, d) /\ GivenUp(s, w, x, u)

\* The requests a chat has in hand.
Holds(s, w) == IdsIn(s.jobs) \cup ({w.job} \ {0})

Apart == \A c, e \in Chats : c # e => Holds(st[c], worker[c]) \cap Holds(st[e], worker[e]) = {}

Accounts ==
    /\ \A j \in JobIds : j > requested => delivered[j] = 0
    /\ "submit" \notin Preemptions => \A j \in JobIds : delivered[j] <= Batch
    /\ ~disturbed => \A j \in 1..requested : \/ j \in excused \/ delivered[j] >= Batch
                                             \/ \E c \in Chats : j \in Holds(st[c], worker[c])

ImagesInv ==
    /\ ImagesShape /\ Apart /\ Accounts
    /\ \A c \in Chats : One(st[c], worker[c], requested, delivered, excused, disturbed)

-----------------------------------------------------------------------------
(* Queues: what is put at their ends and taken from their front *)

LEMMA JobFields == \A e \in Job : e.id \in JobIds /\ e.left \in 1..Batch
  BY DEF Job

LEMMA EmptyJobs ==
    /\ <<>> \in Seq(Job) /\ IdsIn(<<>>) = {}
    /\ Ordered(<<>>) /\ \A j, n : Later(<<>>, j, n) /\ \A d : Due(<<>>, d)
  <1>1. Len(<<>>) = 0 /\ <<>> \in Seq(Job) /\ DOMAIN <<>> = {}  BY EmptySeq
  <1> QED  BY <1>1 DEF IdsIn, Ordered, Later, Due

LEMMA JobsOf ==
    ASSUME NEW q \in Seq(Job)
    PROVE  /\ Len(q) \in Nat /\ \A i \in 1..Len(q) : q[i] \in Job
           /\ IdsIn(q) = {q[i].id : i \in 1..Len(q)}
           /\ IdsIn(q) \subseteq JobIds
           /\ \A j, n : Later(q, j, n) <=> \A k \in IdsIn(q) : j < k /\ k <= n
  <1>1. Len(q) \in Nat /\ DOMAIN q = 1..Len(q) /\ \A i \in 1..Len(q) : q[i] \in Job
    BY LenProperties, ElementOfSeq
  <1>2. IdsIn(q) = {q[i].id : i \in 1..Len(q)}  BY <1>1 DEF IdsIn
  <1>3. IdsIn(q) \subseteq JobIds  BY <1>1, <1>2, JobFields
  <1> QED  BY <1>1, <1>2, <1>3 DEF Later

\* A new request goes to the end.
LEMMA JobAppended ==
    ASSUME NEW q \in Seq(Job), NEW e \in Job, NEW j \in Nat, NEW n \in Nat,
           Ordered(q), Later(q, j, n), e.id = n + 1, j <= n
    PROVE  /\ Append(q, e) \in Seq(Job) /\ Ordered(Append(q, e)) /\ Later(Append(q, e), j, n + 1)
           /\ IdsIn(Append(q, e)) = IdsIn(q) \cup {n + 1}
           /\ \A d : Due(q, d) /\ Completes(d[n + 1], e.left) => Due(Append(q, e), d)
  <1> DEFINE a == Append(q, e)
  <1>1. /\ a \in Seq(Job) /\ Len(a) = Len(q) + 1
        /\ \A i \in 1..Len(q) : a[i] = q[i]
        /\ a[Len(q) + 1] = e
    BY AppendProperties
  <1>2. /\ Len(q) \in Nat /\ \A i \in 1..Len(q) : q[i] \in Job /\ q[i].id \in JobIds
    BY JobsOf, JobFields
  <1> HIDE DEF a
  <1>3. \A i \in 1..Len(a) : i \in 1..Len(q) \/ i = Len(q) + 1  BY <1>1, <1>2
  <1>4. Ordered(a)
    <2> SUFFICES ASSUME NEW i \in 1..Len(a), NEW k \in 1..Len(a), i < k PROVE a[i].id < a[k].id
      BY DEF Ordered
    <2>1. i \in 1..Len(q) /\ a[i] = q[i]  BY <1>1, <1>2
    <2>2. CASE k \in 1..Len(q)  BY <1>1, <2>1, <2>2 DEF Ordered
    <2>3. CASE k = Len(q) + 1
      <3>1. q[i].id <= n /\ q[i].id \in JobIds  BY <1>2, <2>1 DEF Later
      <3> QED  BY <1>1, <2>1, <2>3, <3>1 DEF JobIds
    <2> QED  BY <1>3, <2>2, <2>3
  <1>5. Later(a, j, n + 1)  BY <1>1, <1>2, <1>3 DEF Later, JobIds
  <1>6. IdsIn(a) = IdsIn(q) \cup {n + 1}
    <2>1. IdsIn(a) = {a[i].id : i \in 1..Len(a)} /\ IdsIn(q) = {q[i].id : i \in 1..Len(q)}
      BY <1>1, JobsOf
    <2>2. 1..Len(a) = 1..Len(q) \cup {Len(q) + 1}  BY <1>1, <1>2
    <2> QED  BY <1>1, <2>1, <2>2
  <1>7. ASSUME NEW d, Due(q, d), Completes(d[n + 1], e.left) PROVE Due(a, d)
    BY <1>1, <1>3, <1>7 DEF Due
  <1> QED  BY <1>1, <1>4, <1>5, <1>6, <1>7 DEF a

\* The rest of a batch goes to the front.
LEMMA JobPutBack ==
    ASSUME NEW q \in Seq(Job), NEW e \in Job, NEW n \in Nat, Ordered(q), Later(q, e.id, n), e.id <= n
    PROVE  /\ <<e>> \o q \in Seq(Job) /\ Ordered(<<e>> \o q) /\ Later(<<e>> \o q, 0, n)
           /\ IdsIn(<<e>> \o q) = IdsIn(q) \cup {e.id}
           /\ \A d : Due(q, d) /\ Completes(d[e.id], e.left) => Due(<<e>> \o q, d)
  <1> DEFINE a == <<e>> \o q
  <1>0. <<e>> \in Seq(Job) /\ Len(<<e>>) = 1 /\ <<e>>[1] = e  OBVIOUS
  <1>1. /\ a \in Seq(Job) /\ Len(a) = 1 + Len(q)
        /\ \A i \in 1..Len(a) : a[i] = IF i <= 1 THEN <<e>>[i] ELSE q[i - 1]
    BY <1>0, ConcatProperties
  <1>2. /\ Len(q) \in Nat /\ \A i \in 1..Len(q) : q[i] \in Job /\ q[i].id \in JobIds
    BY JobsOf, JobFields
  <1> HIDE DEF a
  <1>3. \A i \in 1..Len(a) : (i = 1 /\ a[i] = e) \/ (i - 1 \in 1..Len(q) /\ a[i] = q[i - 1])
    BY <1>0, <1>1, <1>2
  <1>4. e.id \in JobIds  BY JobFields
  <1>5. Ordered(a)
    <2> SUFFICES ASSUME NEW i \in 1..Len(a), NEW k \in 1..Len(a), i < k PROVE a[i].id < a[k].id
      BY DEF Ordered
    <2>1. k - 1 \in 1..Len(q) /\ a[k] = q[k - 1]  BY <1>1, <1>2, <1>3
    <2>2. CASE a[i] = e  BY <2>1, <2>2 DEF Later
    <2>3. CASE i - 1 \in 1..Len(q) /\ a[i] = q[i - 1]  BY <1>1, <1>2, <2>1, <2>3 DEF Ordered
    <2> QED  BY <1>3, <2>2, <2>3
  <1>6. Later(a, 0, n)
    <2>1. \A k \in 1..Len(q) : q[k].id \in JobIds /\ q[k].id <= n  BY <1>2 DEF Later
    <2>2. \A i \in 1..Len(a) : a[i].id \in JobIds /\ a[i].id <= n  BY <1>3, <1>4, <2>1
    <2>3. \A i \in 1..Len(a) : 0 < a[i].id /\ a[i].id <= n  BY <2>2 DEF JobIds
    <2> QED  BY <2>3 DEF Later
  <1>7. IdsIn(a) = IdsIn(q) \cup {e.id}
    <2>1. IdsIn(a) = {a[i].id : i \in 1..Len(a)} /\ IdsIn(q) = {q[i].id : i \in 1..Len(q)}
      BY <1>1, JobsOf
    <2>2. \A i \in 1..Len(q) : i + 1 \in 1..Len(a) /\ a[i + 1] = q[i]  BY <1>1, <1>2
    <2>3. 1 \in 1..Len(a) /\ a[1] = e  BY <1>0, <1>1, <1>2
    <2>4. \A i \in 1..Len(a) : a[i].id \in IdsIn(q) \cup {e.id}  BY <1>3, <2>1
    <2>5. \A i \in 1..Len(q) : q[i].id \in IdsIn(a)
      <3> SUFFICES ASSUME NEW i \in 1..Len(q) PROVE q[i].id \in IdsIn(a)
        OBVIOUS
      <3>1. i + 1 \in 1..Len(a) /\ a[i + 1].id = q[i].id  BY <2>2
      <3> QED  BY <2>1, <3>1
    <2>6. e.id \in IdsIn(a)  BY <2>1, <2>3
    <2> QED  BY <2>1, <2>4, <2>5, <2>6
  <1>8. ASSUME NEW d, Due(q, d), Completes(d[e.id], e.left) PROVE Due(a, d)
    BY <1>1, <1>3, <1>8 DEF Due
  <1> QED  BY <1>1, <1>5, <1>6, <1>7, <1>8 DEF a

\* The next job is taken from the front.
LEMMA JobTaken ==
    ASSUME NEW q \in Seq(Job), q # <<>>, NEW n \in Nat, NEW j, Ordered(q), Later(q, j, n)
    PROVE  /\ Head(q) \in Job /\ Head(q).id <= n /\ Tail(q) \in Seq(Job) /\ Ordered(Tail(q))
           /\ Later(Tail(q), Head(q).id, n)
           /\ IdsIn(q) = IdsIn(Tail(q)) \cup {Head(q).id}
           /\ \A d : Due(q, d) => Due(Tail(q), d) /\ Completes(d[Head(q).id], Head(q).left)
  <1> DEFINE t == Tail(q)
  <1>1. /\ Len(q) \in Nat \ {0} /\ Head(q) = q[1] /\ t \in Seq(Job) /\ Len(t) = Len(q) - 1
        /\ \A i \in 1..Len(t) : t[i] = q[i + 1]
    BY HeadTailProperties, EmptySeq, JobsOf
  <1>2. \A i \in 1..Len(q) : q[i] \in Job  BY JobsOf
  <1> HIDE DEF t
  <1>3. 1 \in 1..Len(q) /\ \A i \in 1..Len(t) : i + 1 \in 1..Len(q)  BY <1>1
  <1>4. Ordered(t)  BY <1>1, <1>3 DEF Ordered
  <1>5. Later(t, q[1].id, n)
    <2> SUFFICES ASSUME NEW i \in 1..Len(t) PROVE q[1].id < t[i].id /\ t[i].id <= n
      BY DEF Later
    <2>1. i + 1 \in 1..Len(q) /\ 1 < i + 1 /\ t[i] = q[i + 1]  BY <1>1, <1>3
    <2>2. q[1].id < q[i + 1].id  BY <1>3, <2>1 DEF Ordered
    <2>3. q[i + 1].id <= n  BY <2>1 DEF Later
    <2> QED  BY <2>1, <2>2, <2>3
  <1>6. IdsIn(q) = IdsIn(t) \cup {q[1].id}
    <2>1. IdsIn(t) = {t[i].id : i \in 1..Len(t)} /\ IdsIn(q) = {q[i].id : i \in 1..Len(q)}
      BY <1>1, JobsOf
    <2>2. \A i \in 1..Len(q) : i = 1 \/ (i - 1 \in 1..Len(t) /\ q[i] = t[i - 1])  BY <1>1
    <2>3. \A i \in 1..Len(q) : q[i].id \in IdsIn(t) \cup {q[1].id}  BY <2>1, <2>2
    <2>4. \A i \in 1..Len(t) : t[i].id \in IdsIn(q)
      <3> SUFFICES ASSUME NEW i \in 1..Len(t) PROVE t[i].id \in IdsIn(q)
        OBVIOUS
      <3>1. i + 1 \in 1..Len(q) /\ t[i].id = q[i + 1].id  BY <1>1, <1>3
      <3> QED  BY <2>1, <3>1
    <2>5. q[1].id \in IdsIn(q)  BY <1>3, <2>1
    <2> QED  BY <2>1, <2>3, <2>4, <2>5
  <1>7. \A d : Due(q, d) => Due(t, d) /\ Completes(d[q[1].id], q[1].left)
    BY <1>1, <1>3 DEF Due
  <1>8. q[1] \in Job /\ q[1].id <= n  BY <1>2, <1>3 DEF Later
  <1> QED  BY <1>1, <1>4, <1>5, <1>6, <1>7, <1>8 DEF t

-----------------------------------------------------------------------------
(* Steps of one chat *)

LEMMA NoStateIs ==
    /\ NoState \in StateRecord /\ ~NoState.active /\ NoState.jobs = <<>> /\ ~NoState.paused /\ ~NoState.cancel
    /\ NoWorker \in WorkerRecord /\ NoWorker.job = 0 /\ NoWorker.at = "none" /\ NoWorker.result = "none"
  <1>1. <<>> \in Seq(Job) /\ 0 \in 0..Batch  BY EmptyJobs
  <1> QED  BY <1>1 DEF NoState, FreshState, NoWorker, StateRecord, WorkerRecord

LEMMA HoldsOf ==
    ASSUME NEW s \in StateRecord, NEW w \in WorkerRecord, NEW n, Line(s, w, n)
    PROVE  /\ Holds(s, w) \subseteq JobIds /\ \A j \in Holds(s, w) : j <= n
           /\ \A i \in 1..Len(s.jobs) : s.jobs[i].id \in Holds(s, w)
           /\ w.job # 0 => w.job \in Holds(s, w)
  <1>1. s.jobs \in Seq(Job) /\ w.job \in JobIds \cup {0}  BY DEF StateRecord, WorkerRecord
  <1>2. /\ IdsIn(s.jobs) = {s.jobs[i].id : i \in 1..Len(s.jobs)} /\ IdsIn(s.jobs) \subseteq JobIds
        /\ \A k \in IdsIn(s.jobs) : k <= n
    BY <1>1, JobsOf DEF Line
  <1> QED  BY <1>1, <1>2 DEF Holds, Line

\* A step of a chat leaves the others what they were, and what it lets go was given up or is done.
LEMMA ChatStep ==
    ASSUME ImagesInv, NEW c \in Chats, NEW s \in StateRecord, NEW w \in WorkerRecord,
           st' = [st EXCEPT ![c] = s], worker' = [worker EXCEPT ![c] = w],
           requested' = requested, delivered' \in [JobIds -> Nat],
           excused' \subseteq JobIds, excused \subseteq excused', disturbed => disturbed',
           One(s, w, requested, delivered', excused', disturbed'),
           Holds(s, w) \subseteq Holds(st[c], worker[c]),
           \A j \in JobIds : j \notin Holds(st[c], worker[c]) => delivered'[j] = delivered[j],
           \A j \in JobIds : delivered[j] <= delivered'[j],
           "submit" \notin Preemptions => \A j \in JobIds : delivered'[j] <= Batch,
           ~disturbed' => \A j \in Holds(st[c], worker[c]) \ Holds(s, w) :
                             j \in excused' \/ delivered'[j] >= Batch
    PROVE  ImagesInv'
  <1>0. /\ st \in [Chats -> StateRecord] /\ worker \in [Chats -> WorkerRecord]
        /\ requested \in 0..MaxJobs /\ delivered \in [JobIds -> Nat]
        /\ Apart /\ Accounts
        /\ \A e \in Chats : One(st[e], worker[e], requested, delivered, excused, disturbed)
    BY DEF ImagesInv, ImagesShape
  <1>1. ImagesShape'  BY <1>0 DEF ImagesShape
  <1>2. /\ st'[c] = s /\ worker'[c] = w
        /\ \A e \in Chats : e # c => st'[e] = st[e] /\ worker'[e] = worker[e]
    BY <1>0
  <1>3. Apart'
    <2> SUFFICES ASSUME NEW a \in Chats, NEW b \in Chats, a # b
                 PROVE  Holds(st'[a], worker'[a]) \cap Holds(st'[b], worker'[b]) = {}
      BY DEF Apart
    <2>1. \A e \in Chats : Holds(st'[e], worker'[e]) \subseteq Holds(st[e], worker[e])  BY <1>2
    <2>2. Holds(st[a], worker[a]) \cap Holds(st[b], worker[b]) = {}  BY <1>0 DEF Apart
    <2> QED  BY <2>1, <2>2
  <1>4. ASSUME NEW e \in Chats, e # c
        PROVE  One(st[e], worker[e], requested, delivered', excused', disturbed')
    <2>1. One(st[e], worker[e], requested, delivered, excused, disturbed)  BY <1>0
    <2>2. st[e] \in StateRecord /\ worker[e] \in WorkerRecord  BY <1>0
    <2>3. Holds(st[e], worker[e]) \cap Holds(st[c], worker[c]) = {}  BY <1>0, <1>4 DEF Apart
    <2>4. \A j \in Holds(st[e], worker[e]) : delivered'[j] = delivered[j]
      BY <2>1, <2>2, <2>3, HoldsOf DEF One
    <2>5. Owed(st[e], worker[e], delivered')
      BY <2>1, <2>2, <2>4, HoldsOf DEF One, Owed, Due
    <2>6. GivenUp(st[e], worker[e], excused', disturbed')  BY <2>1 DEF One, GivenUp
    <2> QED  BY <2>1, <2>5, <2>6 DEF One
  <1>5. \A e \in Chats : One(st'[e], worker'[e], requested', delivered', excused', disturbed')
    BY <1>2, <1>4
  <1>6. \A j \in JobIds : j > requested => delivered'[j] = 0
    <2> SUFFICES ASSUME NEW j \in JobIds, j > requested PROVE delivered'[j] = 0
      OBVIOUS
    <2>1. One(st[c], worker[c], requested, delivered, excused, disturbed)
          /\ st[c] \in StateRecord /\ worker[c] \in WorkerRecord
      BY <1>0
    <2>2. \A k \in Holds(st[c], worker[c]) : k <= requested  BY <2>1, HoldsOf DEF One
    <2>3. j \notin Holds(st[c], worker[c])  BY <1>0, <2>2 DEF JobIds
    <2>4. delivered[j] = 0  BY <1>0 DEF Accounts
    <2> QED  BY <2>3, <2>4
  <1>7. ASSUME ~disturbed', NEW j \in 1..requested
        PROVE  \/ j \in excused' \/ delivered'[j] >= Batch
               \/ \E e \in Chats : j \in Holds(st'[e], worker'[e])
    <2>0. j \in JobIds /\ delivered[j] \in Nat /\ delivered'[j] \in Nat  BY <1>0 DEF JobIds
    <2>1. \/ j \in excused \/ delivered[j] >= Batch
          \/ \E e \in Chats : j \in Holds(st[e], worker[e])
      BY <1>0, <1>7 DEF Accounts
    <2>2. CASE j \in excused \/ delivered[j] >= Batch  BY <2>0, <2>2
    <2>3. CASE \E e \in Chats : j \in Holds(st[e], worker[e])
      <3>1. PICK e \in Chats : j \in Holds(st[e], worker[e])  BY <2>3
      <3>2. CASE e # c  BY <1>2, <3>1, <3>2
      <3>3. CASE e = c  BY <1>2, <1>7, <3>1, <3>3
      <3> QED  BY <3>2, <3>3
    <2> QED  BY <2>1, <2>2, <2>3
  <1>8. Accounts'  BY <1>6, <1>7 DEF Accounts
  <1> QED  BY <1>1, <1>3, <1>5, <1>8 DEF ImagesInv

\* What a step finds of a chat.
LEMMA ChatOf ==
    ASSUME ImagesInv, NEW c \in Chats
    PROVE  /\ st[c] \in StateRecord /\ worker[c] \in WorkerRecord /\ st[c].jobs \in Seq(Job)
           /\ requested \in Nat /\ excused \subseteq JobIds /\ delivered \in [JobIds -> Nat]
           /\ One(st[c], worker[c], requested, delivered, excused, disturbed)
           /\ st = [st EXCEPT ![c] = st[c]] /\ worker = [worker EXCEPT ![c] = worker[c]]
           /\ Holds(st[c], worker[c]) \subseteq JobIds /\ \A j \in Holds(st[c], worker[c]) : j <= requested
  <1>1. /\ st \in [Chats -> StateRecord] /\ worker \in [Chats -> WorkerRecord] /\ requested \in Nat
        /\ excused \subseteq JobIds /\ delivered \in [JobIds -> Nat]
        /\ One(st[c], worker[c], requested, delivered, excused, disturbed)
    BY DEF ImagesInv, ImagesShape
  <1>2. st[c] \in StateRecord /\ worker[c] \in WorkerRecord  BY <1>1
  <1>3. st[c].jobs \in Seq(Job)  BY <1>2 DEF StateRecord
  <1>4. Line(st[c], worker[c], requested)  BY <1>1 DEF One
  <1> QED  BY <1>1, <1>2, <1>3, <1>4, HoldsOf

\* What is in the line of a chat.
LEMMA PendingIs == \A c \in Chats : Pending[c] = Holds(st[c], worker[c])
  BY DEF Pending, Holds

LEMMA PendingStep ==
    ASSUME ImagesInv, NEW c \in Chats, NEW s, NEW w,
           st' = [st EXCEPT ![c] = s], worker' = [worker EXCEPT ![c] = w]
    PROVE  /\ Pending[c] = Holds(st[c], worker[c])
           /\ Pending' = [Pending EXCEPT ![c] = Holds(s, w)]
  <1>1. st \in [Chats -> StateRecord] /\ worker \in [Chats -> WorkerRecord]  BY DEF ImagesInv, ImagesShape
  <1>2. Pending = [e \in Chats |-> Holds(st[e], worker[e])]  BY DEF Pending, Holds
  <1>3. Pending' = [e \in Chats |-> Holds(st'[e], worker'[e])]  BY DEF Pending, Holds
  <1>4. /\ st'[c] = s /\ worker'[c] = w
        /\ \A e \in Chats : e # c => st'[e] = st[e] /\ worker'[e] = worker[e]
    BY <1>1
  <1> QED  BY <1>2, <1>3, <1>4

\* A step keeps the invariant, and is one that ImageOrders allows.
Moved == ImagesInv' /\ ("submit" \notin Preemptions => Orders!Next)

\* One that delivers nothing.
LEMMA QuietStep ==
    ASSUME ImagesInv, NEW c \in Chats, NEW s \in StateRecord, NEW w \in WorkerRecord,
           st' = [st EXCEPT ![c] = s], worker' = [worker EXCEPT ![c] = w],
           UNCHANGED <<requested, delivered>>, excused \subseteq excused',
           excused' \subseteq excused \cup Holds(st[c], worker[c]), disturbed => disturbed',
           One(s, w, requested, delivered, excused', disturbed'),
           Holds(s, w) \subseteq Holds(st[c], worker[c]),
           ~disturbed' => \A j \in Holds(st[c], worker[c]) \ Holds(s, w) :
                             j \in excused' \/ delivered[j] >= Batch
    PROVE  Moved
  <1>1. /\ delivered \in [JobIds -> Nat]
        /\ "submit" \notin Preemptions => \A j \in JobIds : delivered[j] <= Batch
    BY DEF ImagesInv, ImagesShape, Accounts
  <1>2. \A j \in JobIds : delivered[j] <= delivered'[j]  BY <1>1
  <1>3. excused' \subseteq JobIds  BY ChatOf
  <1>4. ImagesInv'  BY <1>1, <1>2, <1>3, ChatStep
  <1>5. ASSUME "submit" \notin Preemptions PROVE Orders!Settle(c)
    <2> DEFINE had == Holds(st[c], worker[c])
               kept == Holds(s, w)
    <2>1. Pending[c] = had /\ Pending' = [Pending EXCEPT ![c] = kept]  BY PendingStep
    <2>2. excused' = excused \cup (excused' \cap had)  OBVIOUS
    <2>3. \A j \in had \ kept : disturbed' \/ j \in excused' \/ delivered[j] = Batch
      <3> SUFFICES ASSUME NEW j \in had \ kept, ~disturbed', j \notin excused' PROVE delivered[j] = Batch
        OBVIOUS
      <3>1. j \in JobIds /\ delivered[j] >= Batch  BY ChatOf
      <3> QED  BY <1>1, <1>5, <3>1
    <2> HIDE DEF had, kept
    <2>4. \E given \in SUBSET Pending[c] : excused' = excused \cup given
      <3>1. excused' \cap had \in SUBSET Pending[c]  BY <2>1
      <3> QED  BY <2>2, <3>1
    <2>5. kept \in SUBSET Pending[c]  BY <2>1 DEF had, kept
    <2>6. \E k \in SUBSET Pending[c] :
            /\ Pending' = [Pending EXCEPT ![c] = k]
            /\ \A j \in Pending[c] \ k : disturbed' \/ j \in excused' \/ delivered[j] = Batch
      BY <2>1, <2>3, <2>5
    <2> QED  BY <2>4, <2>6 DEF Orders!Settle
  <1> QED  BY <1>4, <1>5 DEF Moved, Orders!Next

\* The end of the queue: nothing is in hand then, unless a user has paused it.
LEMMA FinishStep ==
    ASSUME ImagesInv, NEW c \in Chats, Finish(c), UNCHANGED <<requested, delivered, excused, disturbed>>,
           ~disturbed => Holds(st[c], worker[c]) = {}
    PROVE  Moved
  <1>1. st' = [st EXCEPT ![c] = NoState] /\ worker' = [worker EXCEPT ![c] = NoWorker]  BY DEF Finish
  <1>2. requested \in Nat  BY DEF ImagesInv, ImagesShape
  <1>3. One(NoState, NoWorker, requested, delivered, excused, disturbed)
    BY <1>2, NoStateIs, EmptyJobs DEF One, Line, Running, RunPlaces, Owed, GivenUp
  <1>4. Holds(NoState, NoWorker) = {}  BY NoStateIs, EmptyJobs DEF Holds
  <1> QED  BY <1>1, <1>3, <1>4, NoStateIs, QuietStep

-----------------------------------------------------------------------------
(* What users do *)

\* A worker is started where there was none, and does nothing yet.
LEMMA StartedIs ==
    ASSUME ImagesInv, NEW c \in Chats
    PROVE  /\ Started(c) \in WorkerRecord /\ Started(c).job = worker[c].job
           /\ \/ Started(c) = worker[c]
              \/ worker[c].at = "none" /\ Started(c).job = 0 /\ Started(c).at = "wait"
  <1>1. worker[c] \in WorkerRecord /\ Running(worker[c])  BY ChatOf DEF One
  <1>2. CASE worker[c].at = "none"
    <2>1. worker[c].job = 0  BY <1>1, <1>2 DEF Running, RunPlaces
    <2>2. Started(c) = [NoWorker EXCEPT !.at = "wait"]  BY <1>2 DEF Started
    <2>3. Started(c) \in WorkerRecord /\ Started(c).job = 0 /\ Started(c).at = "wait"
      BY <2>2, NoStateIs DEF WorkerRecord
    <2> QED  BY <1>2, <2>1, <2>3
  <1>3. CASE worker[c].at # "none"
    BY <1>1, <1>3 DEF Started
  <1> QED  BY <1>2, <1>3

LEMMA QueueStep == \A c \in Chats : ImagesInv /\ Queue(c) => Moved
  <1> SUFFICES ASSUME NEW c \in Chats, ImagesInv, Queue(c) PROVE Moved
    OBVIOUS
  <1> DEFINE n == requested
             job == [id |-> n + 1, left |-> Batch]
             s == Enlarged(st[c], job)
             w == Started(c)
  <1>0. /\ st \in [Chats -> StateRecord] /\ worker \in [Chats -> WorkerRecord]
        /\ n \in 0..MaxJobs /\ delivered \in [JobIds -> Nat] /\ excused \subseteq JobIds
        /\ Apart /\ Accounts
        /\ \A e \in Chats : One(st[e], worker[e], n, delivered, excused, disturbed)
        /\ n < MaxJobs /\ (st[c].active => ~st[c].cancel)
    BY DEF ImagesInv, ImagesShape, Queue
  <1>1. /\ st' = [st EXCEPT ![c] = s] /\ worker' = [worker EXCEPT ![c] = w]
        /\ requested' = n + 1 /\ UNCHANGED <<delivered, excused, disturbed>>
    BY <1>0 DEF Queue
  <1>2. n + 1 \in JobIds /\ job \in Job /\ job.id = n + 1 /\ job.left = Batch
    BY <1>0 DEF JobIds, Job
  <1>3. /\ st[c] \in StateRecord /\ st[c].jobs \in Seq(Job) /\ worker[c] \in WorkerRecord
        /\ Line(st[c], worker[c], n) /\ Running(worker[c]) /\ Owed(st[c], worker[c], delivered)
        /\ GivenUp(st[c], worker[c], excused, disturbed)
    BY ChatOf DEF One
  <1> HIDE DEF job
  <1>4. /\ s \in StateRecord /\ s.active /\ ~s.cancel /\ s.jobs = Append(st[c].jobs, job)
        /\ s.paused => st[c].paused /\ s.priority = st[c].priority
    <2>1. Append(st[c].jobs, job) \in Seq(Job)  BY <1>2, <1>3, AppendProperties
    <2>2. CASE st[c].active  BY <1>0, <1>3, <2>1, <2>2 DEF Enlarged, StateRecord
    <2>3. CASE ~st[c].active
      <3>1. st[c].jobs = <<>>  BY <1>3, <2>3 DEF Line
      <3>2. Append(<<>>, job) = <<job>>  OBVIOUS
      <3> QED  BY <2>1, <2>3, <3>1, <3>2 DEF Enlarged, FreshState, StateRecord
    <2> QED  BY <2>2, <2>3
  <1>5. /\ w \in WorkerRecord /\ w.job = worker[c].job
        /\ w = worker[c] \/ (worker[c].at = "none" /\ w.job = 0 /\ w.at = "wait")
    BY StartedIs
  <1> HIDE DEF s, w
  <1>6. delivered[n + 1] = 0  BY <1>0, <1>2 DEF Accounts
  <1>7. /\ s.jobs \in Seq(Job) /\ Ordered(s.jobs) /\ Later(s.jobs, w.job, n + 1)
        /\ IdsIn(s.jobs) = IdsIn(st[c].jobs) \cup {n + 1} /\ Due(s.jobs, delivered)
    <2>1. w.job \in Nat /\ w.job <= n  BY <1>3, <1>5 DEF Line, WorkerRecord, JobIds
    <2>2. Completes(delivered[n + 1], job.left)  BY <1>2, <1>6 DEF Completes
    <2> QED  BY <1>0, <1>2, <1>3, <1>4, <1>5, <2>1, <2>2, JobAppended DEF Line, Owed
  <1>8. Holds(s, w) = Holds(st[c], worker[c]) \cup {n + 1}  BY <1>5, <1>7 DEF Holds
  <1>9. One(s, w, n + 1, delivered, excused, disturbed)
    <2>1. Line(s, w, n + 1)  BY <1>0, <1>3, <1>4, <1>5, <1>7 DEF Line, WorkerRecord, JobIds
    <2>2. Running(w)  BY <1>3, <1>5 DEF Running, RunPlaces
    <2>3. Owed(s, w, delivered)  BY <1>3, <1>5, <1>7 DEF Owed
    <2>4. GivenUp(s, w, excused, disturbed)
      <3>1. CASE w = worker[c]
        <4>1. worker[c].job # 0 => st[c].active /\ ~st[c].cancel  BY <1>0, <1>3, NoStateIs DEF Line
        <4>2. worker[c].at # "none" => s.paused = st[c].paused /\ st[c].active
          BY <1>3, NoStateIs DEF Line, s, Enlarged, StateRecord
        <4> QED  BY <1>3, <1>4, <3>1, <4>1, <4>2 DEF GivenUp, Running, RunPlaces
      <3>2. CASE worker[c].at = "none" /\ w.job = 0 /\ w.at = "wait"
        BY <1>3, <1>4, <3>2 DEF GivenUp
      <3> QED  BY <1>5, <3>1, <3>2
    <2> QED  BY <2>1, <2>2, <2>3, <2>4 DEF One
  <1>10. /\ st'[c] = s /\ worker'[c] = w
         /\ \A e \in Chats : e # c => st'[e] = st[e] /\ worker'[e] = worker[e]
    BY <1>0, <1>1
  <1>11. \A e \in Chats : One(st'[e], worker'[e], n + 1, delivered, excused, disturbed)
    <2> SUFFICES ASSUME NEW e \in Chats, e # c
                 PROVE  One(st[e], worker[e], n + 1, delivered, excused, disturbed)
      BY <1>9, <1>10
    <2>1. One(st[e], worker[e], n, delivered, excused, disturbed)  BY <1>0
    <2>2. Later(st[e].jobs, worker[e].job, n + 1)
      <3>1. st[e].jobs \in Seq(Job) /\ Later(st[e].jobs, worker[e].job, n)  BY <2>1, ChatOf DEF One, Line
      <3>2. \A k \in IdsIn(st[e].jobs) : k \in Nat /\ worker[e].job < k /\ k <= n
        BY <3>1, JobsOf DEF JobIds
      <3> QED  BY <1>0, <3>1, <3>2, JobsOf
    <2>3. worker[e].job <= n + 1  BY <1>0, <2>1, ChatOf DEF One, Line, WorkerRecord, JobIds
    <2> QED  BY <2>1, <2>2, <2>3 DEF One, Line
  <1>12. Apart'
    <2>1. \A e \in Chats : n + 1 \notin Holds(st[e], worker[e])
      <3> SUFFICES ASSUME NEW e \in Chats, n + 1 \in Holds(st[e], worker[e]) PROVE FALSE
        OBVIOUS
      <3>1. n + 1 <= n  BY ChatOf
      <3> QED  BY <1>0, <3>1
    <2> SUFFICES ASSUME NEW a \in Chats, NEW b \in Chats, a # b
                 PROVE  Holds(st'[a], worker'[a]) \cap Holds(st'[b], worker'[b]) = {}
      BY DEF Apart
    <2>2. Holds(st[a], worker[a]) \cap Holds(st[b], worker[b]) = {}  BY <1>0 DEF Apart
    <2>3. CASE a = c  BY <1>8, <1>10, <2>1, <2>2, <2>3
    <2>4. CASE b = c  BY <1>8, <1>10, <2>1, <2>2, <2>4
    <2>5. CASE a # c /\ b # c  BY <1>10, <2>2, <2>5
    <2> QED  BY <2>3, <2>4, <2>5
  <1>13. Accounts'
    <2>1. \A j \in JobIds : j > n + 1 => delivered[j] = 0  BY <1>0 DEF Accounts, JobIds
    <2>2. ASSUME ~disturbed, NEW j \in 1..(n + 1)
          PROVE  j \in excused \/ delivered[j] >= Batch \/ \E e \in Chats : j \in Holds(st'[e], worker'[e])
      <3>1. CASE j = n + 1  BY <1>8, <1>10, <3>1
      <3>2. CASE j \in 1..n
        <4>1. j \in excused \/ delivered[j] >= Batch \/ \E e \in Chats : j \in Holds(st[e], worker[e])
          BY <1>0, <2>2, <3>2 DEF Accounts
        <4>2. \A e \in Chats : Holds(st[e], worker[e]) \subseteq Holds(st'[e], worker'[e])
          BY <1>8, <1>10
        <4> QED  BY <4>1, <4>2
      <3> QED  BY <1>0, <3>1, <3>2
    <2>3. delivered' = delivered /\ excused' = excused /\ disturbed' = disturbed /\ requested' = n + 1
      BY <1>1
    <2>4. "submit" \notin Preemptions => \A j \in JobIds : delivered[j] <= Batch  BY <1>0 DEF Accounts
    <2> QED  BY <2>1, <2>2, <2>3, <2>4 DEF Accounts
  <1>14. ImagesShape'
    <2>1. n + 1 \in 0..MaxJobs  BY <1>0
    <2> QED  BY <1>0, <1>1, <1>4, <1>5, <2>1 DEF ImagesShape
  <1>15. ImagesInv'  BY <1>1, <1>11, <1>12, <1>13, <1>14 DEF ImagesInv
  <1>16. Pending' = [Pending EXCEPT ![c] = @ \cup {n + 1}]
    <2>1. Pending[c] = Holds(st[c], worker[c]) /\ Pending' = [Pending EXCEPT ![c] = Holds(s, w)]
      BY <1>1, PendingStep
    <2> QED  BY <1>8, <2>1
  <1>17. Orders!Accept(c)  BY <1>0, <1>1, <1>16 DEF Orders!Accept
  <1> QED  BY <1>15, <1>17 DEF Moved, Orders!Next

\* What is in hand when the jobs and the worker's own stay what they were.
LEMMA SameHolds ==
    \A s, w, q, v : q.jobs = s.jobs /\ v.job = w.job => Holds(q, v) = Holds(s, w)
  BY DEF Holds

LEMMA PauseStep == \A c \in Chats : ImagesInv /\ Pause(c) => Moved
  <1> SUFFICES ASSUME NEW c \in Chats, ImagesInv, Pause(c) PROVE Moved
    OBVIOUS
  <1> DEFINE r == IF st[c].active THEN st[c] ELSE FreshState(<<>>)
             s == Paused(r, FALSE)
             w == Started(c)
  <1>1. /\ st' = [st EXCEPT ![c] = s] /\ worker' = [worker EXCEPT ![c] = w]
        /\ UNCHANGED <<requested, delivered, excused>> /\ disturbed'
    BY ChatOf DEF Pause, ImagesInv, ImagesShape
  <1>2. /\ st[c] \in StateRecord /\ worker[c] \in WorkerRecord
        /\ Line(st[c], worker[c], requested) /\ Running(worker[c]) /\ Owed(st[c], worker[c], delivered)
        /\ GivenUp(st[c], worker[c], excused, disturbed) /\ excused \subseteq JobIds
    BY ChatOf DEF One
  <1>3. r \in StateRecord /\ r.jobs = st[c].jobs /\ r.active /\ (r.cancel => r = st[c])
        /\ (worker[c].at # "none" => r.cancel = st[c].cancel)
    <2>1. CASE st[c].active  BY <1>2, <2>1
    <2>2. CASE ~st[c].active
      BY <1>2, <2>2, EmptyJobs, NoStateIs DEF Line, FreshState, StateRecord
    <2> QED  BY <2>1, <2>2
  <1> HIDE DEF r
  <1>4. /\ s \in StateRecord /\ s.jobs = r.jobs /\ s.active /\ s.cancel = r.cancel
        /\ s.cancel => s = r
    BY <1>3 DEF Paused, StateRecord
  <1>5. /\ w \in WorkerRecord /\ w.job = worker[c].job
        /\ w = worker[c] \/ (worker[c].at = "none" /\ w.job = 0 /\ w.at = "wait")
    BY StartedIs
  <1> HIDE DEF s, w
  <1>6. One(s, w, requested, delivered, excused', disturbed')
    <2>1. Line(s, w, requested)  BY <1>2, <1>3, <1>4, <1>5 DEF Line
    <2>2. Running(w)  BY <1>2, <1>5 DEF Running, RunPlaces
    <2>3. Owed(s, w, delivered)  BY <1>2, <1>3, <1>4, <1>5 DEF Owed
    <2>4. GivenUp(s, w, excused', disturbed')
      BY <1>1, <1>2, <1>3, <1>4, <1>5 DEF GivenUp, Running, RunPlaces
    <2> QED  BY <2>1, <2>2, <2>3, <2>4 DEF One
  <1>7. Holds(s, w) = Holds(st[c], worker[c])  BY <1>3, <1>4, <1>5, SameHolds
  <1> QED  BY <1>1, <1>2, <1>4, <1>5, <1>6, <1>7, QuietStep

LEMMA ResumeStep == \A c \in Chats : ImagesInv /\ Resume(c) => Moved
  <1> SUFFICES ASSUME NEW c \in Chats, ImagesInv, Resume(c) PROVE Moved
    OBVIOUS
  <1> DEFINE s == Resumed(st[c])
             w == worker[c]
  <1>1. /\ st' = [st EXCEPT ![c] = s] /\ worker' = worker
        /\ UNCHANGED <<requested, delivered, excused>> /\ disturbed'
    BY DEF Resume
  <1>2. /\ st[c] \in StateRecord /\ w \in WorkerRecord
        /\ Line(st[c], w, requested) /\ Running(w) /\ Owed(st[c], w, delivered)
        /\ GivenUp(st[c], w, excused, disturbed) /\ excused \subseteq JobIds
        /\ worker = [worker EXCEPT ![c] = w]
    BY ChatOf DEF One
  <1>3. /\ s \in StateRecord /\ s.jobs = st[c].jobs /\ s.active = st[c].active /\ s.cancel = st[c].cancel
        /\ s.cancel => s = st[c]
    BY <1>2 DEF Resumed, StateRecord
  <1> HIDE DEF s, w
  <1>4. Line(s, w, requested) /\ Owed(s, w, delivered)  BY <1>2, <1>3 DEF Line, Owed
  <1>5. GivenUp(s, w, excused', disturbed')  BY <1>1, <1>2, <1>3 DEF GivenUp
  <1>6. One(s, w, requested, delivered, excused', disturbed')  BY <1>2, <1>4, <1>5 DEF One
  <1>7. Holds(s, w) = Holds(st[c], w)  BY <1>3, SameHolds
  <1>8. worker' = [worker EXCEPT ![c] = w]  BY <1>1, <1>2
  <1> QED  BY <1>1, <1>2, <1>3, <1>6, <1>7, <1>8, QuietStep DEF w

LEMMA CancelStep == \A c \in Chats : ImagesInv /\ Cancel(c) => Moved
  <1> SUFFICES ASSUME NEW c \in Chats, ImagesInv, Cancel(c) PROVE Moved
    OBVIOUS
  <1> DEFINE s == Cancelled(st[c])
             w == Started(c)
  <1>1. /\ st' = [st EXCEPT ![c] = s] /\ worker' = [worker EXCEPT ![c] = w]
        /\ UNCHANGED <<requested, delivered, disturbed>> /\ st[c].active
        /\ excused' = excused \cup IdsIn(st[c].jobs) \cup (IF worker[c].job = 0 THEN {} ELSE {worker[c].job})
    BY ChatOf DEF Cancel, ImagesInv, ImagesShape
  <1>2. /\ st[c] \in StateRecord /\ worker[c] \in WorkerRecord /\ requested \in Nat
        /\ Line(st[c], worker[c], requested) /\ Running(worker[c]) /\ Owed(st[c], worker[c], delivered)
        /\ GivenUp(st[c], worker[c], excused, disturbed) /\ excused \subseteq JobIds
        /\ Holds(st[c], worker[c]) \subseteq JobIds
    BY ChatOf DEF One
  <1>3. excused' = excused \cup Holds(st[c], worker[c])  BY <1>1 DEF Holds
  <1>4. s \in StateRecord /\ s.jobs = <<>> /\ s.active /\ s.cancel /\ ~s.paused
    BY <1>1, <1>2, EmptyJobs DEF Cancelled, StateRecord
  <1>5. /\ w \in WorkerRecord /\ w.job = worker[c].job
        /\ w = worker[c] \/ (worker[c].at = "none" /\ w.job = 0 /\ w.at = "wait")
    BY StartedIs
  <1> HIDE DEF s, w
  <1>6. One(s, w, requested, delivered, excused', disturbed')
    <2>1. Line(s, w, requested)  BY <1>2, <1>4, <1>5, EmptyJobs DEF Line
    <2>2. Running(w)  BY <1>2, <1>5 DEF Running, RunPlaces
    <2>3. Owed(s, w, delivered)  BY <1>2, <1>4, <1>5, EmptyJobs DEF Owed
    <2>4. w.job # 0 => w.job \in excused'  BY <1>3, <1>5 DEF Holds
    <2>5. GivenUp(s, w, excused', disturbed')
      BY <1>1, <1>2, <1>4, <1>5, <2>4 DEF GivenUp
    <2> QED  BY <2>1, <2>2, <2>3, <2>5 DEF One
  <1>7. Holds(s, w) \subseteq Holds(st[c], worker[c])  BY <1>4, <1>5, EmptyJobs DEF Holds
  <1> QED  BY <1>1, <1>2, <1>3, <1>4, <1>5, <1>6, <1>7, QuietStep

-----------------------------------------------------------------------------
(* What the worker does between two jobs *)

LEMMA MoveStep ==
    ASSUME ImagesInv, NEW c \in Chats, NEW s \in StateRecord, NEW w \in WorkerRecord,
           st' = [st EXCEPT ![c] = s], worker' = [worker EXCEPT ![c] = w],
           UNCHANGED <<requested, delivered, excused, disturbed>>,
           worker[c].at \notin RunPlaces \cup {"none"}, w.at \notin RunPlaces, w.job = worker[c].job,
           s.jobs = st[c].jobs, s.active = st[c].active, s.cancel = st[c].cancel, s.cancel => ~s.paused,
           ~disturbed => (s.paused => s.priority /\ w.at \in {"release", "notice"})
    PROVE  Moved
  <1>1. /\ Line(st[c], worker[c], requested) /\ Running(worker[c]) /\ Owed(st[c], worker[c], delivered)
        /\ GivenUp(st[c], worker[c], excused, disturbed) /\ excused \subseteq JobIds
    BY ChatOf DEF One
  <1>2. w.job = 0 /\ st[c].active  BY <1>1, NoStateIs DEF Running, Line
  <1>3. Line(s, w, requested)  BY <1>1, <1>2 DEF Line
  <1>4. Running(w)  BY <1>2 DEF Running
  <1>5. Owed(s, w, delivered)  BY <1>1, <1>2 DEF Owed
  <1>6. GivenUp(s, w, excused, disturbed)  BY <1>2 DEF GivenUp, RunPlaces
  <1>7. One(s, w, requested, delivered, excused', disturbed')  BY <1>3, <1>4, <1>5, <1>6 DEF One
  <1>8. Holds(s, w) = Holds(st[c], worker[c])  BY SameHolds
  <1> QED  BY <1>1, <1>7, <1>8, QuietStep

\* The same where the worker only changes its place.
LEMMA AtStep ==
    ASSUME ImagesInv, NEW c \in Chats, NEW a, At(c, a),
           UNCHANGED <<st, requested, delivered, excused, disturbed>>,
           a \in {"wait", "lock", "pick", "closing", "release", "notice"},
           worker[c].at \notin RunPlaces \cup {"none"},
           ~disturbed => (st[c].paused => a \in {"release", "notice"})
    PROVE  Moved
  <1> DEFINE w == [worker[c] EXCEPT !.at = a]
  <1>1. /\ st[c] \in StateRecord /\ worker[c] \in WorkerRecord
        /\ Line(st[c], worker[c], requested) /\ GivenUp(st[c], worker[c], excused, disturbed)
        /\ st' = [st EXCEPT ![c] = st[c]]
    BY ChatOf DEF One
  <1>2. w \in WorkerRecord /\ w.at = a /\ w.job = worker[c].job  BY <1>1 DEF WorkerRecord
  <1>3. worker' = [worker EXCEPT ![c] = w]  BY ChatOf DEF At
  <1> HIDE DEF w
  <1>4. w.at \notin RunPlaces  BY <1>2 DEF RunPlaces
  <1>5. /\ st[c].cancel => ~st[c].paused
        /\ ~disturbed => (st[c].paused => st[c].priority /\ w.at \in {"release", "notice"})
    BY <1>1, <1>2 DEF Line, GivenUp
  <1> QED  BY <1>1, <1>2, <1>3, <1>4, <1>5, MoveStep

\* Between two jobs only the queue holds any, and a cancelled one holds none.
LEMMA BetweenJobs ==
    ASSUME ImagesInv, NEW c \in Chats, worker[c].at \notin RunPlaces
    PROVE  /\ worker[c].job = 0
           /\ st[c].jobs = <<>> \/ st[c].cancel => Holds(st[c], worker[c]) = {}
  <1>1. /\ Line(st[c], worker[c], requested) /\ Running(worker[c])
    BY ChatOf DEF One
  <1> QED  BY <1>1, EmptyJobs DEF Running, Line, Holds

LEMMA ResumesStep == \A c \in Chats : ImagesInv /\ WorkerResumes(c) => Moved
  <1> SUFFICES ASSUME NEW c \in Chats, ImagesInv, WorkerResumes(c) PROVE Moved
    OBVIOUS
  <1>1. /\ worker[c].at = "wait" /\ ~st[c].paused
        /\ IF st[c].cancel THEN Finish(c) ELSE At(c, "lock") /\ UNCHANGED st
        /\ UNCHANGED <<requested, delivered, excused, disturbed>>
    BY DEF WorkerResumes, StillSame
  <1>2. worker[c].at \notin RunPlaces \cup {"none"}  BY <1>1 DEF RunPlaces
  <1>3. CASE st[c].cancel  BY <1>1, <1>2, <1>3, BetweenJobs, FinishStep
  <1>4. CASE ~st[c].cancel  BY <1>1, <1>2, <1>4, AtStep
  <1> QED  BY <1>3, <1>4

LEMMA ClaimsStep == \A c \in Chats : ImagesInv /\ WorkerClaims(c) => Moved
  <1> SUFFICES ASSUME NEW c \in Chats, ImagesInv, WorkerClaims(c) PROVE Moved
    OBVIOUS
  <1> DEFINE w == [worker[c] EXCEPT !.at = "pick", !.claimed = FALSE]
  <1>1. /\ worker[c].at = "lock" /\ worker' = [worker EXCEPT ![c].at = "pick", ![c].claimed = FALSE]
        /\ UNCHANGED <<st, requested, delivered, excused, disturbed>>
    BY DEF WorkerClaims, StillSame
  <1>2. /\ st[c] \in StateRecord /\ worker[c] \in WorkerRecord
        /\ Line(st[c], worker[c], requested) /\ GivenUp(st[c], worker[c], excused, disturbed)
        /\ st' = [st EXCEPT ![c] = st[c]]
    BY <1>1, ChatOf DEF One
  <1>3. w \in WorkerRecord /\ w.at = "pick" /\ w.job = worker[c].job  BY <1>2 DEF WorkerRecord
  <1>4. worker' = [worker EXCEPT ![c] = w]
    <2>1. worker \in [Chats -> WorkerRecord]  BY DEF ImagesInv, ImagesShape
    <2> QED  BY <1>1, <2>1
  <1> HIDE DEF w
  <1>5. w.at \notin RunPlaces /\ worker[c].at \notin RunPlaces \cup {"none"}  BY <1>1, <1>3 DEF RunPlaces
  <1>6. /\ st[c].cancel => ~st[c].paused
        /\ ~disturbed => ~st[c].paused
    BY <1>1, <1>2 DEF Line, GivenUp
  <1> QED  BY <1>1, <1>2, <1>3, <1>4, <1>5, <1>6, MoveStep

LEMMA ReleasesStep == \A c \in Chats : ImagesInv /\ WorkerReleases(c) => Moved
  <1> SUFFICES ASSUME NEW c \in Chats, ImagesInv, WorkerReleases(c) PROVE Moved
    OBVIOUS
  <1>1. /\ worker[c].at = "release" /\ UNCHANGED <<requested, delivered, excused, disturbed>>
        /\ \E back \in BOOLEAN : IF st[c].cancel THEN Finish(c)
                                 ELSE st' = [st EXCEPT ![c].ready = @ \/ back] /\ At(c, "notice")
    BY DEF WorkerReleases, Released, StillSame
  <1>2. worker[c].at \notin RunPlaces \cup {"none"}  BY <1>1 DEF RunPlaces
  <1>3. CASE st[c].cancel  BY <1>1, <1>2, <1>3, BetweenJobs, FinishStep
  <1>4. CASE ~st[c].cancel
    <2>1. PICK back \in BOOLEAN : st' = [st EXCEPT ![c].ready = @ \/ back] /\ At(c, "notice")
      BY <1>1, <1>4
    <2> DEFINE s == [st[c] EXCEPT !.ready = st[c].ready \/ back]
               w == [worker[c] EXCEPT !.at = "notice"]
    <2>2. /\ st[c] \in StateRecord /\ worker[c] \in WorkerRecord
          /\ GivenUp(st[c], worker[c], excused, disturbed)
      BY ChatOf DEF One
    <2>3. /\ s \in StateRecord /\ s.jobs = st[c].jobs /\ s.active = st[c].active /\ s.cancel = st[c].cancel
          /\ s.paused = st[c].paused /\ s.priority = st[c].priority
      BY <2>2 DEF StateRecord
    <2>4. w \in WorkerRecord /\ w.at = "notice" /\ w.job = worker[c].job  BY <2>2 DEF WorkerRecord
    <2>5. st' = [st EXCEPT ![c] = s] /\ worker' = [worker EXCEPT ![c] = w]
      <3>1. worker \in [Chats -> WorkerRecord] /\ st \in [Chats -> StateRecord]  BY DEF ImagesInv, ImagesShape
      <3> QED  BY <2>1, <3>1 DEF At
    <2> HIDE DEF s, w
    <2>6. w.at \notin RunPlaces  BY <2>4 DEF RunPlaces
    <2>7. ~disturbed => (s.paused => s.priority /\ w.at \in {"release", "notice"})
      BY <2>2, <2>3, <2>4 DEF GivenUp
    <2> QED  BY <1>1, <1>2, <1>4, <2>3, <2>4, <2>5, <2>6, <2>7, MoveStep
  <1> QED  BY <1>3, <1>4

LEMMA RoundStep == \A c \in Chats : ImagesInv /\ WorkerGoesRound(c) => Moved
  <1> SUFFICES ASSUME NEW c \in Chats, ImagesInv, WorkerGoesRound(c) PROVE Moved
    OBVIOUS
  <1> DEFINE s == IF st[c].priority THEN Resumed(st[c]) ELSE st[c]
             w == [worker[c] EXCEPT !.at = "wait"]
  <1>1. /\ worker[c].at = "notice" /\ UNCHANGED <<requested, delivered, excused, disturbed>>
        /\ st' = [st EXCEPT ![c] = s] /\ At(c, "wait")
    BY ChatOf DEF WorkerGoesRound, StillSame, ImagesInv, ImagesShape
  <1>2. /\ st[c] \in StateRecord /\ worker[c] \in WorkerRecord
        /\ Line(st[c], worker[c], requested) /\ GivenUp(st[c], worker[c], excused, disturbed)
    BY ChatOf DEF One
  <1>3. /\ s \in StateRecord /\ s.jobs = st[c].jobs /\ s.active = st[c].active /\ s.cancel = st[c].cancel
        /\ s.paused => st[c].paused
        /\ st[c].priority /\ st[c].active /\ ~st[c].cancel => ~s.paused
    BY <1>2 DEF Resumed, StateRecord
  <1>4. w \in WorkerRecord /\ w.at = "wait" /\ w.job = worker[c].job  BY <1>2 DEF WorkerRecord
  <1>5. worker' = [worker EXCEPT ![c] = w]
    <2>1. worker \in [Chats -> WorkerRecord]  BY DEF ImagesInv, ImagesShape
    <2> QED  BY <1>1, <2>1 DEF At
  <1> HIDE DEF s, w
  <1>6. w.at \notin RunPlaces /\ worker[c].at \notin RunPlaces \cup {"none"}  BY <1>1, <1>4 DEF RunPlaces
  <1>7. /\ s.cancel => ~s.paused
        /\ ~disturbed => ~s.paused
    BY <1>1, <1>2, <1>3, NoStateIs DEF Line, GivenUp
  <1> QED  BY <1>1, <1>3, <1>4, <1>5, <1>6, <1>7, MoveStep

\* The next job is taken from a queue that neither waits nor is cancelled.
LEMMA TakesStep ==
    ASSUME ImagesInv, NEW c \in Chats, Takes(c), UNCHANGED <<requested, delivered, excused, disturbed>>,
           worker[c].at \notin RunPlaces, st[c].jobs # <<>>, ~Stopping(c)
    PROVE  Moved
  <1> DEFINE q == st[c].jobs
             s == [st[c] EXCEPT !.jobs = Tail(q), !.ready = FALSE]
             w == [NoWorker EXCEPT !.at = "run", !.job = Head(q).id, !.left = Head(q).left, !.claimed = TRUE]
  <1>1. /\ st[c] \in StateRecord /\ q \in Seq(Job) /\ requested \in Nat /\ excused \subseteq JobIds
        /\ Line(st[c], worker[c], requested) /\ Owed(st[c], worker[c], delivered)
        /\ delivered \in [JobIds -> Nat]
    BY ChatOf DEF One
  <1>2. ~st[c].paused /\ ~st[c].cancel  BY DEF Stopping
  <1>3. /\ Head(q) \in Job /\ Head(q).id <= requested /\ Tail(q) \in Seq(Job) /\ Ordered(Tail(q))
        /\ Later(Tail(q), Head(q).id, requested) /\ IdsIn(q) = IdsIn(Tail(q)) \cup {Head(q).id}
        /\ Due(Tail(q), delivered) /\ Completes(delivered[Head(q).id], Head(q).left)
    BY <1>1, JobTaken DEF Line, Owed
  <1>4. Head(q).id \in JobIds /\ Head(q).left \in 1..Batch /\ Head(q).id # 0  BY <1>3, JobFields DEF JobIds
  <1>5. worker[c].job = 0  BY BetweenJobs
  <1>6. /\ st' = [st EXCEPT ![c] = s] /\ worker' = [worker EXCEPT ![c] = w]
    <2>1. st \in [Chats -> StateRecord]  BY DEF ImagesInv, ImagesShape
    <2> QED  BY <2>1 DEF Takes
  <1>7. /\ s \in StateRecord /\ s.jobs = Tail(q) /\ s.active = st[c].active /\ ~s.paused /\ ~s.cancel
    BY <1>1, <1>2, <1>3 DEF StateRecord
  <1>8. /\ w \in WorkerRecord /\ w.at = "run" /\ w.job = Head(q).id /\ w.left = Head(q).left
        /\ w.done = 0 /\ w.told = 0 /\ w.result = "none"
    <2>1. 0 \in 0..Batch /\ Head(q).left \in 0..Batch  BY <1>4
    <2> DEFINE e == Head(q)
    <2> HIDE DEF q, e
    <2>2. w = [NoWorker EXCEPT !.at = "run", !.job = e.id, !.left = e.left, !.claimed = TRUE]
      BY DEF e
    <2>3. e.id \in JobIds /\ e.left \in 0..Batch  BY <1>4, <2>1 DEF e
    <2> HIDE DEF w
    <2>4. /\ w \in WorkerRecord /\ w.at = "run" /\ w.job = e.id /\ w.left = e.left
          /\ w.done = 0 /\ w.told = 0 /\ w.result = "none"
      BY <2>1, <2>2, <2>3 DEF NoWorker, WorkerRecord, RunPlaces
    <2> QED  BY <2>4 DEF e
  <1>9. st[c].active  BY <1>1 DEF Line
  <1> HIDE DEF s, w, q
  <1>10. One(s, w, requested, delivered, excused, disturbed)
    <2>1. Line(s, w, requested)  BY <1>3, <1>7, <1>8, <1>9 DEF Line
    <2>2. Running(w)  BY <1>4, <1>8 DEF Running, RunPlaces
    <2>3. Owed(s, w, delivered)
      <3>1. w.left - w.done = Head(q).left  BY <1>4, <1>8
      <3> QED  BY <1>3, <1>7, <1>8, <3>1 DEF Owed
    <2>4. GivenUp(s, w, excused, disturbed)  BY <1>7, <1>8 DEF GivenUp
    <2> QED  BY <2>1, <2>2, <2>3, <2>4 DEF One
  <1>11. Holds(s, w) = Holds(st[c], worker[c])  BY <1>3, <1>4, <1>5, <1>7, <1>8 DEF Holds, q
  <1> QED  BY <1>1, <1>6, <1>7, <1>8, <1>10, <1>11, QuietStep

LEMMA PicksStep == \A c \in Chats : ImagesInv /\ WorkerPicks(c) => Moved
  <1> SUFFICES ASSUME NEW c \in Chats, ImagesInv, WorkerPicks(c) PROVE Moved
    OBVIOUS
  <1>1. /\ worker[c].at = "pick" /\ UNCHANGED <<requested, delivered, excused, disturbed>>
        /\ IF Stopping(c) THEN Unwinds(c)
           ELSE IF st[c].jobs # <<>> THEN Takes(c) ELSE At(c, "closing") /\ UNCHANGED st
    BY DEF WorkerPicks, StillSame
  <1>2. worker[c].at \notin RunPlaces \cup {"none"}  BY <1>1 DEF RunPlaces
  <1>3. ~disturbed => ~st[c].paused
    <2>1. GivenUp(st[c], worker[c], excused, disturbed)  BY ChatOf DEF One
    <2> QED  BY <1>1, <2>1 DEF GivenUp
  <1>4. CASE Stopping(c) /\ worker[c].claimed
    BY <1>1, <1>2, <1>4, AtStep DEF Unwinds
  <1>5. CASE Stopping(c) /\ ~worker[c].claimed /\ st[c].paused
    BY <1>1, <1>2, <1>5, AtStep DEF Unwinds
  <1>6. CASE Stopping(c) /\ ~worker[c].claimed /\ ~st[c].paused
    BY <1>1, <1>2, <1>6, BetweenJobs, FinishStep DEF Unwinds, Stopping
  <1>7. CASE ~Stopping(c) /\ st[c].jobs # <<>>  BY <1>1, <1>2, <1>7, TakesStep
  <1>8. CASE ~Stopping(c) /\ st[c].jobs = <<>>  BY <1>1, <1>2, <1>3, <1>8, AtStep
  <1> QED  BY <1>4, <1>5, <1>6, <1>7, <1>8

LEMMA ClosesStep == \A c \in Chats : ImagesInv /\ WorkerCloses(c) => Moved
  <1> SUFFICES ASSUME NEW c \in Chats, ImagesInv, WorkerCloses(c) PROVE Moved
    OBVIOUS
  <1>1. /\ worker[c].at = "closing" /\ UNCHANGED <<requested, delivered, excused, disturbed>>
        /\ IF ~Stopping(c) /\ st[c].jobs # <<>> THEN Takes(c) ELSE Finish(c)
    BY DEF WorkerCloses, StillSame
  <1>2. worker[c].at \notin RunPlaces \cup {"none"}  BY <1>1 DEF RunPlaces
  <1>3. ~disturbed => ~st[c].paused
    <2>1. GivenUp(st[c], worker[c], excused, disturbed)  BY ChatOf DEF One
    <2> QED  BY <1>1, <2>1 DEF GivenUp
  <1>4. CASE ~Stopping(c) /\ st[c].jobs # <<>>  BY <1>1, <1>2, <1>4, TakesStep
  <1>5. CASE ~(~Stopping(c) /\ st[c].jobs # <<>>)
    <2>1. ~disturbed => st[c].cancel \/ st[c].jobs = <<>>  BY <1>3, <1>5 DEF Stopping
    <2> QED  BY <1>1, <1>2, <1>5, <2>1, BetweenJobs, FinishStep
  <1> QED  BY <1>4, <1>5

-----------------------------------------------------------------------------
(* What becomes of a job *)

\* The worker still has its job: its queue is what it was, but for a pause.
LEMMA WorkStep ==
    ASSUME ImagesInv, NEW c \in Chats, NEW s \in StateRecord, NEW w \in WorkerRecord,
           st' = [st EXCEPT ![c] = s], worker' = [worker EXCEPT ![c] = w],
           UNCHANGED <<requested, delivered, disturbed>>,
           excused \subseteq excused', excused' \subseteq excused \cup Holds(st[c], worker[c]),
           worker[c].at \in RunPlaces, w.at \in RunPlaces, Running(w),
           w.job = worker[c].job, w.left = worker[c].left, w.done = worker[c].done,
           s.jobs = st[c].jobs, s.active = st[c].active, s.cancel = st[c].cancel,
           s.cancel => ~s.paused, GivenUp(s, w, excused', disturbed)
    PROVE  Moved
  <1>1. /\ Line(st[c], worker[c], requested) /\ Running(worker[c]) /\ Owed(st[c], worker[c], delivered)
    BY ChatOf DEF One
  <1>2. w.job # 0 /\ st[c].active  BY <1>1, NoStateIs DEF Running, Line
  <1>3. Line(s, w, requested)  BY <1>1, <1>2 DEF Line
  <1>4. Owed(s, w, delivered)  BY <1>1, <1>2 DEF Owed
  <1>5. One(s, w, requested, delivered, excused', disturbed')  BY <1>3, <1>4 DEF One
  <1>6. Holds(s, w) = Holds(st[c], worker[c])  BY SameHolds
  <1> QED  BY <1>5, <1>6, QuietStep

\* What a step finds of a chat whose worker has a job.
LEMMA WorkOf ==
    ASSUME ImagesInv, NEW c \in Chats, worker[c].at \in RunPlaces
    PROVE  /\ st[c] \in StateRecord /\ worker[c] \in WorkerRecord
           /\ worker[c].job \in JobIds /\ worker[c].job # 0
           /\ Line(st[c], worker[c], requested) /\ Running(worker[c]) /\ Owed(st[c], worker[c], delivered)
           /\ GivenUp(st[c], worker[c], excused, disturbed) /\ st[c].active /\ excused \subseteq JobIds
           /\ st = [st EXCEPT ![c] = st[c]]
           /\ \A a : At(c, a) => worker' = [worker EXCEPT ![c] = [worker[c] EXCEPT !.at = a]]
  <1>1. /\ st[c] \in StateRecord /\ worker[c] \in WorkerRecord
        /\ Line(st[c], worker[c], requested) /\ Running(worker[c]) /\ Owed(st[c], worker[c], delivered)
        /\ GivenUp(st[c], worker[c], excused, disturbed) /\ excused \subseteq JobIds
        /\ st = [st EXCEPT ![c] = st[c]]
    BY ChatOf DEF One
  <1>2. worker[c].job # 0 /\ worker[c].job \in JobIds /\ st[c].active
    BY <1>1, NoStateIs DEF Running, Line, WorkerRecord
  <1>3. worker \in [Chats -> WorkerRecord]  BY DEF ImagesInv, ImagesShape
  <1>4. \A a : At(c, a) => worker' = [worker EXCEPT ![c] = [worker[c] EXCEPT !.at = a]]
    BY <1>3 DEF At
  <1> QED  BY <1>1, <1>2, <1>4

LEMMA HandledStep == \A c \in Chats : ImagesInv /\ (StopHandled(c) \/ MarkNoticed(c)) => Moved
  <1> SUFFICES ASSUME NEW c \in Chats, ImagesInv, StopHandled(c) \/ MarkNoticed(c) PROVE Moved
    OBVIOUS
  <1>1. worker[c].at \in {"stopping", "marked"} /\ UNCHANGED <<requested, delivered, excused, disturbed>>
    BY DEF StopHandled, MarkNoticed, StillSame
  <1>2. worker[c].at \in RunPlaces  BY <1>1 DEF RunPlaces
  <1>3. /\ st[c] \in StateRecord /\ worker[c] \in WorkerRecord /\ worker[c].job # 0 /\ st[c].active
        /\ Line(st[c], worker[c], requested) /\ Running(worker[c]) /\ excused \subseteq JobIds
        /\ GivenUp(st[c], worker[c], excused, disturbed)
    BY <1>2, WorkOf
  <1>4. CASE worker[c].at = "stopping" /\ worker[c].result = "preempted" /\ ~Stopping(c)
    <2> DEFINE s == Paused(st[c], TRUE)
               w == [worker[c] EXCEPT !.at = "marked"]
    <2>1. st' = [st EXCEPT ![c] = s] /\ worker' = [worker EXCEPT ![c] = w]
      <3>1. st \in [Chats -> StateRecord] /\ worker \in [Chats -> WorkerRecord]  BY DEF ImagesInv, ImagesShape
      <3> QED  BY <1>4, <3>1 DEF StopHandled, MarkNoticed, At
    <2>2. /\ s \in StateRecord /\ s.jobs = st[c].jobs /\ s.active /\ ~s.cancel /\ ~st[c].cancel
          /\ s.paused /\ s.priority
      BY <1>3, <1>4 DEF Paused, StateRecord, Stopping
    <2>3. /\ w \in WorkerRecord /\ w.at = "marked" /\ w.job = worker[c].job /\ w.result = "preempted"
          /\ w.left = worker[c].left /\ w.done = worker[c].done /\ w.told = worker[c].told
      BY <1>3, <1>4 DEF WorkerRecord, RunPlaces
    <2> HIDE DEF s, w
    <2>4. w.at \in RunPlaces /\ Running(w)  BY <1>3, <1>4, <2>3 DEF Running, RunPlaces
    <2>5. GivenUp(s, w, excused, disturbed)  BY <1>3, <1>4, <2>2, <2>3 DEF GivenUp
    <2>6. UNCHANGED <<requested, delivered, disturbed>>  BY <1>1
    <2>7. /\ excused \subseteq excused' /\ excused' \subseteq excused \cup Holds(st[c], worker[c])
          /\ GivenUp(s, w, excused', disturbed)
      BY <1>1, <1>3, <2>5
    <2>8. /\ s \in StateRecord /\ (s.cancel => ~s.paused)
          /\ s.jobs = st[c].jobs /\ s.active = st[c].active /\ s.cancel = st[c].cancel
      BY <1>3, <2>2 DEF StateRecord
    <2>9. /\ w \in WorkerRecord /\ w.job = worker[c].job /\ w.left = worker[c].left /\ w.done = worker[c].done
      BY <2>3
    <2> QED  BY <1>2, <2>1, <2>4, <2>6, <2>7, <2>8, <2>9, WorkStep
  <1>5. CASE ~(worker[c].at = "stopping" /\ worker[c].result = "preempted" /\ ~Stopping(c))
    <2> DEFINE s == st[c]
               w == [worker[c] EXCEPT !.at = "after"]
    <2>1. st' = [st EXCEPT ![c] = s] /\ worker' = [worker EXCEPT ![c] = w]
      <3>1. At(c, "after") /\ UNCHANGED st  BY <1>5 DEF StopHandled, MarkNoticed
      <3> QED  BY <1>2, <3>1, WorkOf
    <2>2. /\ w \in WorkerRecord /\ w.at = "after" /\ w.job = worker[c].job /\ w.result = worker[c].result
          /\ w.left = worker[c].left /\ w.done = worker[c].done /\ w.told = worker[c].told
      BY <1>3 DEF WorkerRecord, RunPlaces
    <2> HIDE DEF w
    <2>3. w.at \in RunPlaces /\ Running(w)
      BY <1>1, <1>3, <2>2 DEF Running, RunPlaces
    <2>4. GivenUp(s, w, excused, disturbed)
      BY <1>1, <1>3, <1>5, <2>2 DEF GivenUp, Stopping
    <2>5. /\ s \in StateRecord /\ (s.cancel => ~s.paused)
          /\ s.jobs = st[c].jobs /\ s.active = st[c].active /\ s.cancel = st[c].cancel
      BY <1>3 DEF Line
    <2>6. UNCHANGED <<requested, delivered, disturbed>>  BY <1>1
    <2>7. /\ excused \subseteq excused' /\ excused' \subseteq excused \cup Holds(st[c], worker[c])
          /\ GivenUp(s, w, excused', disturbed)
      BY <1>1, <1>3, <2>4
    <2>8. /\ w \in WorkerRecord /\ w.job = worker[c].job /\ w.left = worker[c].left /\ w.done = worker[c].done
      BY <2>2
    <2> HIDE DEF s
    <2> QED  BY <1>2, <2>1, <2>3, <2>5, <2>6, <2>7, <2>8, WorkStep
  <1> QED  BY <1>4, <1>5

\* The generation stops, after a failure or for a pause or a preemption.
LEMMA StopsStep ==
    ASSUME ImagesInv, NEW c \in Chats, NEW result \in {"paused", "preempted", "error"},
           NEW told \in 0..worker[c].done,
           Stops(c, result, told), UNCHANGED <<requested, disturbed>>,
           result # "error" => told = worker[c].done \/ "submit" \in Preemptions,
           excused \subseteq excused', excused' \subseteq excused \cup Holds(st[c], worker[c]),
           result = "error" => worker[c].job \in excused', ~disturbed => result # "paused"
    PROVE  Moved
  <1> DEFINE s == st[c]
             w == [worker[c] EXCEPT !.at = "stopping", !.result = result, !.told = told]
  <1>1. worker[c].at = "run" /\ UNCHANGED <<st, delivered>>  BY DEF Stops
  <1>2. worker[c].at \in RunPlaces  BY <1>1 DEF RunPlaces
  <1>3. /\ st[c] \in StateRecord /\ worker[c] \in WorkerRecord /\ worker[c].job # 0
        /\ Line(st[c], worker[c], requested) /\ Running(worker[c])
        /\ GivenUp(st[c], worker[c], excused, disturbed) /\ st = [st EXCEPT ![c] = st[c]]
    BY <1>2, WorkOf
  <1>4. st' = [st EXCEPT ![c] = s]  BY <1>1, <1>3
  <1>5. worker' = [worker EXCEPT ![c] = w]
    <2>1. worker \in [Chats -> WorkerRecord]  BY DEF ImagesInv, ImagesShape
    <2> QED  BY <2>1 DEF Stops
  <1>6. told \in 0..Batch
    <2>1. worker[c].done \in 0..Batch  BY <1>3 DEF WorkerRecord
    <2> QED  BY <2>1
  <1>7. /\ w \in WorkerRecord /\ w.at = "stopping" /\ w.job = worker[c].job /\ w.result = result
        /\ w.left = worker[c].left /\ w.done = worker[c].done /\ w.told = told
    BY <1>3, <1>6 DEF WorkerRecord, RunPlaces
  <1> HIDE DEF w
  <1>8. w.at \in RunPlaces /\ Running(w)  BY <1>3, <1>7 DEF Running, RunPlaces
  <1>9. GivenUp(s, w, excused', disturbed)  BY <1>1, <1>3, <1>7 DEF GivenUp
  <1>10. s \in StateRecord /\ (s.cancel => ~s.paused)  BY <1>3 DEF Line
  <1>11. UNCHANGED <<requested, delivered, disturbed>>  BY <1>1
  <1>12. s.jobs = st[c].jobs /\ s.active = st[c].active /\ s.cancel = st[c].cancel  OBVIOUS
  <1> HIDE DEF s
  <1> QED  BY <1>2, <1>4, <1>5, <1>7, <1>8, <1>9, <1>10, <1>11, <1>12, WorkStep

LEMMA StoppedStep ==
    \A c \in Chats : ImagesInv /\ (RunPaused(c) \/ RunCancelled(c) \/ RunFails(c)
                                   \/ \E how \in Preemptions : RunPreempted(c, how)) => Moved
  <1> SUFFICES ASSUME NEW c \in Chats, ImagesInv,
                      RunPaused(c) \/ RunCancelled(c) \/ RunFails(c)
                      \/ \E how \in Preemptions : RunPreempted(c, how)
               PROVE  Moved
    OBVIOUS
  <1>1. worker[c].at = "run"  BY DEF RunPaused, RunCancelled, RunFails, RunPreempted, Stops
  <1>2. worker[c].at \in RunPlaces  BY <1>1 DEF RunPlaces
  <1>3. /\ worker[c] \in WorkerRecord /\ worker[c].job \in JobIds /\ worker[c].job # 0
        /\ excused \subseteq JobIds
        /\ GivenUp(st[c], worker[c], excused, disturbed)
    BY <1>2, WorkOf
  <1>4. worker[c].done \in 0..worker[c].done /\ 0 \in 0..worker[c].done  BY <1>3 DEF WorkerRecord
  <1>5. CASE RunPaused(c)
    <2>1. ~disturbed => ~st[c].paused  BY <1>1, <1>3 DEF GivenUp
    <2>2. /\ Stops(c, "paused", worker[c].done) /\ st[c].paused
          /\ UNCHANGED <<requested, disturbed>> /\ excused \subseteq excused' /\ excused' \subseteq excused \cup Holds(st[c], worker[c])
      BY <1>3, <1>5 DEF RunPaused, StillSame
    <2> QED  BY <1>4, <2>1, <2>2, StopsStep
  <1>6. CASE RunCancelled(c)
    <2>1. /\ Stops(c, "error", 0) /\ st[c].cancel
          /\ UNCHANGED <<requested, disturbed>> /\ excused \subseteq excused' /\ excused' \subseteq excused \cup Holds(st[c], worker[c])
          /\ excused' = excused
      BY <1>3, <1>6 DEF RunCancelled, StillSame
    <2>2. worker[c].job \in excused'  BY <1>3, <2>1 DEF GivenUp
    <2> QED  BY <1>4, <2>1, <2>2, StopsStep
  <1>7. CASE RunFails(c)
    <2>1. /\ Stops(c, "error", 0)
          /\ UNCHANGED <<requested, disturbed>> /\ excused' = excused \cup {worker[c].job}
      BY <1>7 DEF RunFails, StillSame
    <2>2. excused \subseteq excused' /\ excused' \subseteq excused \cup Holds(st[c], worker[c]) /\ worker[c].job \in excused'
      BY <1>3, <2>1 DEF Holds
    <2> QED  BY <1>4, <2>1, <2>2, StopsStep
  <1>8. CASE \E how \in Preemptions : RunPreempted(c, how)
    <2>1. PICK how \in Preemptions : RunPreempted(c, how)  BY <1>8
    <2>2. UNCHANGED <<requested, disturbed>> /\ excused \subseteq excused' /\ excused' \subseteq excused \cup Holds(st[c], worker[c])
      BY <1>3, <2>1 DEF RunPreempted
    <2>3. CASE how = "submit"
      <3>1. Stops(c, "preempted", 0)  BY <2>1, <2>3 DEF RunPreempted
      <3> QED  BY <1>4, <2>2, <2>3, <3>1, StopsStep
    <2>4. CASE how # "submit"
      <3>1. Stops(c, "preempted", worker[c].done)  BY <2>1, <2>4 DEF RunPreempted
      <3> QED  BY <1>4, <2>2, <3>1, StopsStep
    <2> QED  BY <2>3, <2>4
  <1> QED  BY <1>5, <1>6, <1>7, <1>8

\* An image is sent: one fewer is to be made.
LEMMA DeliveredStep == \A c \in Chats : ImagesInv /\ ImageDelivered(c) => Moved
  <1> SUFFICES ASSUME NEW c \in Chats, ImagesInv, ImageDelivered(c) PROVE Moved
    OBVIOUS
  <1> DEFINE s == st[c]
             v == worker[c]
             a == IF v.done + 1 = v.left THEN "after" ELSE "run"
             w == [v EXCEPT !.done = v.done + 1, !.at = a]
  <1>1. /\ v.at = "run" /\ v.done < v.left /\ UNCHANGED <<st, requested, excused, disturbed>>
        /\ delivered' = [delivered EXCEPT ![v.job] = @ + 1]
    BY DEF ImageDelivered, StillSame
  <1>2. v.at \in RunPlaces  BY <1>1 DEF RunPlaces
  <1>3. /\ s \in StateRecord /\ v \in WorkerRecord /\ v.job \in JobIds /\ v.job # 0
        /\ Line(s, v, requested) /\ Running(v) /\ Owed(s, v, delivered)
        /\ GivenUp(s, v, excused, disturbed) /\ st = [st EXCEPT ![c] = s] /\ excused \subseteq JobIds
    BY <1>2, WorkOf
  <1>4. delivered \in [JobIds -> Nat] /\ s.jobs \in Seq(Job) /\ Holds(s, v) \subseteq JobIds  BY ChatOf
  <1>5. /\ delivered' \in [JobIds -> Nat] /\ delivered'[v.job] = delivered[v.job] + 1
        /\ \A j \in JobIds : j # v.job => delivered'[j] = delivered[j]
    BY <1>1, <1>3, <1>4
  <1>6. v.done \in 0..Batch /\ v.left \in 0..Batch /\ v.done + 1 \in 0..Batch  BY <1>1, <1>3 DEF WorkerRecord
  <1>7. st' = [st EXCEPT ![c] = s] /\ worker' = [worker EXCEPT ![c] = w]
    <2>1. worker \in [Chats -> WorkerRecord]  BY DEF ImagesInv, ImagesShape
    <2> QED  BY <1>1, <1>3, <2>1 DEF ImageDelivered
  <1>8. a \in {"after", "run"} /\ (a = "after" => v.done + 1 = v.left)  OBVIOUS
  <1> HIDE DEF a
  <1>9. /\ w \in WorkerRecord /\ w.at = a /\ w.job = v.job /\ w.result = v.result
        /\ w.left = v.left /\ w.done = v.done + 1 /\ w.told = v.told
    BY <1>3, <1>6, <1>8 DEF WorkerRecord, RunPlaces
  <1> HIDE DEF w
  <1>10. v.result = "none" /\ v.told <= v.done /\ v.told \in 0..Batch /\ ~(~disturbed /\ s.paused)
    BY <1>1, <1>3 DEF Running, GivenUp, WorkerRecord
  <1>11. Completes(delivered'[w.job], w.left - w.done)
    <2>1. Completes(delivered[v.job], v.left - v.done)  BY <1>3 DEF Owed
    <2>2. delivered[v.job] \in Nat  BY <1>3, <1>4
    <2> QED  BY <1>5, <1>6, <1>9, <2>1, <2>2 DEF Completes
  <1>12. One(s, w, requested, delivered', excused', disturbed')
    <2>1. Line(s, w, requested)  BY <1>1, <1>3, <1>9, NoStateIs DEF Line
    <2>2. Running(w)  BY <1>1, <1>3, <1>6, <1>8, <1>9, <1>10 DEF Running, RunPlaces
    <2>3. Due(s.jobs, delivered')
      <3>1. \A i \in 1..Len(s.jobs) : s.jobs[i].id \in JobIds /\ v.job < s.jobs[i].id
        BY <1>3, <1>4, JobsOf, JobFields DEF Line, Later
      <3>2. \A i \in 1..Len(s.jobs) : delivered'[s.jobs[i].id] = delivered[s.jobs[i].id]
        BY <1>3, <1>5, <3>1 DEF JobIds
      <3> QED  BY <1>3, <3>2 DEF Owed, Due
    <2>4. GivenUp(s, w, excused', disturbed')  BY <1>1, <1>3, <1>8, <1>9, <1>10 DEF GivenUp
    <2> QED  BY <1>11, <2>1, <2>2, <2>3, <2>4 DEF One, Owed
  <1>13. Holds(s, w) = Holds(s, v) /\ v.job \in Holds(s, v)
    <2>1. v.job \in Holds(s, v)  BY <1>3 DEF Holds
    <2> QED  BY <1>9, <2>1, SameHolds
  <1>14. \A j \in JobIds : j \notin Holds(s, v) => delivered'[j] = delivered[j]  BY <1>5, <1>13
  <1>15. \A j \in JobIds : delivered[j] <= delivered'[j]  BY <1>4, <1>5
  <1>16. "submit" \notin Preemptions => \A j \in JobIds : delivered'[j] <= Batch
    <2>1. "submit" \notin Preemptions => \A j \in JobIds : delivered[j] <= Batch  BY DEF ImagesInv, Accounts
    <2>2. "submit" \notin Preemptions => delivered'[v.job] <= Batch
      <3>1. w.left - w.done \in Nat  BY <1>1, <1>6, <1>9
      <3>2. delivered'[v.job] \in Nat  BY <1>3, <1>5
      <3> QED  BY <1>9, <1>11, <3>1, <3>2 DEF Completes
    <2> QED  BY <1>5, <2>1, <2>2
  <1>17. excused' \subseteq JobIds /\ excused \subseteq excused'
         /\ (disturbed => disturbed') /\ requested' = requested
    BY <1>1, <1>3
  <1>18. ASSUME "submit" \notin Preemptions PROVE Orders!Deliver(c)
    <2>1. Pending[c] = Holds(s, v) /\ Pending' = [Pending EXCEPT ![c] = Holds(s, w)]
      BY <1>7, PendingStep
    <2>2. Pending' = Pending
      <3>1. Pending = [Pending EXCEPT ![c] = Pending[c]]  BY DEF Pending
      <3> QED  BY <1>13, <2>1, <3>1
    <2>3. \A k \in Holds(s, v) : v.job <= k
      <3>1. \A k \in IdsIn(s.jobs) : k \in Nat /\ v.job < k  BY <1>3, <1>4, JobsOf DEF Line, JobIds
      <3>2. v.job \in Nat  BY <1>3 DEF JobIds
      <3> QED  BY <3>1, <3>2 DEF Holds
    <2>4. delivered[v.job] < Batch
      <3>1. delivered[v.job] \in Nat /\ delivered'[v.job] <= Batch  BY <1>3, <1>4, <1>16, <1>18
      <3> QED  BY <1>5, <3>1
    <2>5. v.job \in Pending[c] /\ \A k \in Pending[c] : v.job <= k  BY <1>13, <2>1, <2>3
    <2> QED  BY <1>1, <2>2, <2>4, <2>5 DEF Orders!Deliver
  <1> HIDE DEF s, v
  <1>19. ImagesInv'
    BY <1>3, <1>5, <1>7, <1>9, <1>12, <1>13, <1>14, <1>15, <1>16, <1>17, ChatStep DEF s, v
  <1> QED  BY <1>18, <1>19 DEF Moved, Orders!Next

\* The job is done with or given up; or what is left of it goes back to the front.
LEMMA EvaluatedStep == \A c \in Chats : ImagesInv /\ JobEvaluated(c) => Moved
  <1> SUFFICES ASSUME NEW c \in Chats, ImagesInv, JobEvaluated(c) PROVE Moved
    OBVIOUS
  <1> DEFINE q == st[c]
             v == worker[c]
             back == [id |-> v.job, left |-> Remaining(v)]
             w(a) == [v EXCEPT !.at = a, !.job = 0, !.result = "none"]
  <1>1. v.at = "after" /\ UNCHANGED <<requested, delivered, excused, disturbed>>
    BY DEF JobEvaluated, StillSame
  <1>2. v.at \in RunPlaces  BY <1>1 DEF RunPlaces
  <1>3. /\ q \in StateRecord /\ v \in WorkerRecord /\ v.job \in JobIds /\ v.job # 0
        /\ Line(q, v, requested) /\ Running(v) /\ Owed(q, v, delivered)
        /\ GivenUp(q, v, excused, disturbed) /\ st = [st EXCEPT ![c] = q]
        /\ q.active /\ excused \subseteq JobIds
    BY <1>2, WorkOf
  <1>4. delivered \in [JobIds -> Nat] /\ q.jobs \in Seq(Job) /\ requested \in Nat  BY ChatOf
  <1>5. /\ v.done \in 0..Batch /\ v.left \in 0..Batch /\ v.told \in 0..Batch
        /\ v.done <= v.left /\ v.told <= v.done /\ (v.result = "none" => v.done = v.left)
        /\ v.result \in {"paused", "preempted"} => v.told = v.done \/ "submit" \in Preemptions
        /\ v.result \in {"none", "paused", "preempted", "error"} /\ delivered[v.job] \in Nat
        /\ Completes(delivered[v.job], v.left - v.done)
    BY <1>1, <1>3, <1>4 DEF Running, Owed, WorkerRecord
  <1>6. \A a \in {"release", "pick"} :
           /\ w(a) \in WorkerRecord /\ w(a).at = a /\ w(a).job = 0 /\ Running(w(a))
           /\ w(a).at \notin RunPlaces /\ w(a).result = "none"
    <2> SUFFICES ASSUME NEW a \in {"release", "pick"}
                 PROVE  /\ w(a) \in WorkerRecord /\ w(a).at = a /\ w(a).job = 0 /\ Running(w(a))
                        /\ w(a).at \notin RunPlaces /\ w(a).result = "none"
      OBVIOUS
    <2>1. /\ w(a) \in WorkerRecord /\ w(a).at = a /\ w(a).job = 0 /\ w(a).result = "none"
      BY <1>3 DEF WorkerRecord, RunPlaces
    <2> QED  BY <2>1 DEF Running, RunPlaces
  <1>7. Holds(q, v) = IdsIn(q.jobs) \cup {v.job}  BY <1>3 DEF Holds
  <1>8. Due(q.jobs, delivered) /\ Ordered(q.jobs) /\ Later(q.jobs, v.job, requested) /\ v.job <= requested
    BY <1>3 DEF Owed, Line
  <1>9. Later(q.jobs, 0, requested)
    <2>1. \A k \in IdsIn(q.jobs) : k \in JobIds /\ k <= requested  BY <1>4, <1>8, JobsOf
    <2>2. \A k \in IdsIn(q.jobs) : 0 < k /\ k <= requested  BY <2>1 DEF JobIds
    <2> QED  BY <1>4, <2>2, JobsOf
  <1>10. excused' \subseteq excused \cup Holds(st[c], worker[c])
         /\ excused \subseteq excused' /\ (disturbed => disturbed')
         /\ UNCHANGED <<requested, delivered>>
    BY <1>1, <1>3
  <1>11. CASE v.result \in {"paused", "preempted"} /\ q.paused /\ Remaining(v) # 0
    <2> DEFINE s == [q EXCEPT !.jobs = <<back>> \o q.jobs]
    <2>1. st' = [st EXCEPT ![c] = s] /\ worker' = [worker EXCEPT ![c] = w("release")]
      <3>1. st \in [Chats -> StateRecord] /\ worker \in [Chats -> WorkerRecord]  BY DEF ImagesInv, ImagesShape
      <3> QED  BY <1>11, <3>1 DEF JobEvaluated, Requeue
    <2>2. /\ back \in Job /\ back.id = v.job /\ Completes(delivered[back.id], back.left)
      <3>1. back.left \in 1..Batch  BY <1>5, <1>11 DEF Remaining
      <3>2. back \in Job /\ back.id = v.job  BY <1>3, <3>1 DEF Job
      <3>3. Completes(delivered[v.job], v.left - v.told)  BY <1>5, <1>11 DEF Completes
      <3> QED  BY <3>2, <3>3 DEF Remaining
    <2> HIDE DEF back
    <2> DEFINE p == <<back>> \o q.jobs
    <2>3. /\ p \in Seq(Job) /\ Ordered(p) /\ Later(p, 0, requested)
          /\ IdsIn(p) = IdsIn(q.jobs) \cup {v.job} /\ Due(p, delivered)
      BY <1>4, <1>8, <2>2, JobPutBack
    <2> HIDE DEF p
    <2>4. /\ s \in StateRecord /\ s.jobs = p /\ s.active /\ s.paused /\ ~s.cancel /\ s.priority = q.priority
      BY <1>3, <1>11, <2>3 DEF StateRecord, Line, p
    <2> DEFINE y == w("release")
    <2>5. y \in WorkerRecord /\ y.at = "release" /\ y.job = 0 /\ Running(y) /\ y.result = "none"  BY <1>6
    <2> HIDE DEF s, w, y
    <2>6. Line(s, y, requested)  BY <1>4, <2>3, <2>4, <2>5 DEF Line
    <2>7. Owed(s, y, delivered)  BY <2>3, <2>4, <2>5 DEF Owed
    <2>8. GivenUp(s, y, excused', disturbed')  BY <1>1, <1>3, <1>11, <2>4, <2>5 DEF GivenUp
    <2>9. One(s, y, requested, delivered, excused', disturbed')  BY <2>5, <2>6, <2>7, <2>8 DEF One
    <2>10. Holds(s, y) = Holds(q, v)  BY <1>7, <2>3, <2>4, <2>5 DEF Holds
    <2>11. worker' = [worker EXCEPT ![c] = y]  BY <2>1 DEF y
    <2> QED  BY <1>10, <2>1, <2>4, <2>5, <2>9, <2>10, <2>11, QuietStep
  <1>12. CASE v.result \in {"paused", "preempted"} /\ q.paused /\ Remaining(v) = 0
    <2> DEFINE y == w("release")
    <2>1. st' = [st EXCEPT ![c] = q] /\ worker' = [worker EXCEPT ![c] = y]
      <3>1. worker \in [Chats -> WorkerRecord]  BY DEF ImagesInv, ImagesShape
      <3> QED  BY <1>3, <1>12, <3>1 DEF JobEvaluated
    <2>2. y \in WorkerRecord /\ y.at = "release" /\ y.job = 0 /\ Running(y) /\ y.result = "none"  BY <1>6
    <2> HIDE DEF w, y
    <2>3. Line(q, y, requested)  BY <1>3, <1>4, <1>8, <1>9, <2>2 DEF Line
    <2>4. Owed(q, y, delivered)  BY <1>8, <2>2 DEF Owed
    <2>5. GivenUp(q, y, excused', disturbed')  BY <1>1, <1>3, <1>12, <2>2 DEF GivenUp
    <2>6. One(q, y, requested, delivered, excused', disturbed')  BY <2>2, <2>3, <2>4, <2>5 DEF One
    <2>7. Holds(q, y) = IdsIn(q.jobs)  BY <2>2 DEF Holds
    <2>8. delivered[v.job] >= Batch  BY <1>5, <1>12 DEF Completes, Remaining
    <2>9. Holds(q, y) \subseteq Holds(q, v) /\ \A j \in Holds(q, v) \ Holds(q, y) : delivered[j] >= Batch
      BY <1>7, <2>7, <2>8
    <2> QED  BY <1>3, <1>10, <2>1, <2>2, <2>6, <2>9, QuietStep
  <1>13. CASE ~(v.result \in {"paused", "preempted"} /\ q.paused)
    <2> DEFINE y == w("pick")
    <2>1. st' = [st EXCEPT ![c] = q] /\ worker' = [worker EXCEPT ![c] = y]
      <3>1. worker \in [Chats -> WorkerRecord]  BY DEF ImagesInv, ImagesShape
      <3> QED  BY <1>3, <1>13, <3>1 DEF JobEvaluated
    <2>2. y \in WorkerRecord /\ y.at = "pick" /\ y.job = 0 /\ Running(y) /\ y.result = "none"  BY <1>6
    <2> HIDE DEF w, y
    <2>3. Line(q, y, requested)  BY <1>3, <1>4, <1>8, <1>9, <2>2 DEF Line
    <2>4. Owed(q, y, delivered)  BY <1>8, <2>2 DEF Owed
    <2>5. GivenUp(q, y, excused', disturbed')  BY <1>1, <1>3, <1>13, <2>2 DEF GivenUp
    <2>6. One(q, y, requested, delivered, excused', disturbed')  BY <2>2, <2>3, <2>4, <2>5 DEF One
    <2>7. Holds(q, y) = IdsIn(q.jobs)  BY <2>2 DEF Holds
    <2>8. ~disturbed' => v.job \in excused' \/ delivered[v.job] >= Batch
      <3>1. CASE v.result = "none"  BY <1>5, <3>1 DEF Completes
      <3>2. CASE v.result = "error"  BY <1>1, <1>3, <3>2 DEF GivenUp
      <3>3. CASE v.result \in {"paused", "preempted"}  BY <1>1, <1>3, <1>13, <3>3 DEF GivenUp
      <3> QED  BY <1>5, <3>1, <3>2, <3>3
    <2>9. /\ Holds(q, y) \subseteq Holds(q, v)
          /\ ~disturbed' => \A j \in Holds(q, v) \ Holds(q, y) : j \in excused' \/ delivered[j] >= Batch
      BY <1>7, <2>7, <2>8
    <2> QED  BY <1>3, <1>10, <2>1, <2>2, <2>6, <2>9, QuietStep
  <1> QED  BY <1>11, <1>12, <1>13

-----------------------------------------------------------------------------
(* Every step *)

LEMMA ImagesInitially == Init => ImagesInv
  <1> SUFFICES ASSUME Init PROVE ImagesInv
    OBVIOUS
  <1>1. /\ st = [c \in Chats |-> NoState] /\ worker = [c \in Chats |-> NoWorker]
        /\ requested = 0 /\ delivered = [j \in JobIds |-> 0] /\ excused = {} /\ disturbed = FALSE
    BY DEF Init
  <1>2. ImagesShape  BY <1>1, NoStateIs DEF ImagesShape
  <1>3. \A n \in Nat : \A d, x, u : One(NoState, NoWorker, n, d, x, u)
    BY NoStateIs, EmptyJobs DEF One, Line, Running, RunPlaces, Owed, GivenUp
  <1>4. Holds(NoState, NoWorker) = {}  BY NoStateIs, EmptyJobs DEF Holds
  <1>5. Apart  BY <1>1, <1>4 DEF Apart
  <1>6. Accounts  BY <1>1 DEF Accounts
  <1> QED  BY <1>1, <1>2, <1>3, <1>5, <1>6 DEF ImagesInv

LEMMA ImagesSteps ==
    ASSUME ImagesInv, [Next]_vars
    PROVE  /\ ImagesInv'
           /\ "submit" \notin Preemptions => [Orders!Next]_(Orders!orderVars)
  <1> DEFINE Goal == ImagesInv' /\ ("submit" \notin Preemptions => [Orders!Next]_(Orders!orderVars))
  <1> SUFFICES Goal
    OBVIOUS
  <1>1. ASSUME UNCHANGED <<st, worker, requested, delivered, excused, disturbed>> PROVE Goal
    <2>1. ImagesInv'  BY <1>1 DEF ImagesInv, ImagesShape, Apart, Accounts
    <2>2. UNCHANGED Orders!orderVars  BY <1>1 DEF Orders!orderVars, Pending
    <2> QED  BY <2>1, <2>2
  <1>2. ASSUME Moved PROVE Goal  BY <1>2 DEF Moved
  <1> HIDE DEF Goal
  <1>3. CASE UNCHANGED vars  BY <1>1, <1>3 DEF vars
  <1>4. CASE \E m \in Messages : Send(m) \/ Deferred(m) \/ Answered(m)
    BY <1>1, <1>4 DEF Send, Deferred, Answered, Moves
  <1>5. ASSUME NEW c \in Chats, Queue(c) \/ Pause(c) \/ Resume(c) \/ Cancel(c)
        PROVE  Moved
    BY <1>5, QueueStep, PauseStep, ResumeStep, CancelStep
  <1>6. ASSUME NEW c \in Chats, WorkerStep(c) PROVE Moved
    BY <1>6, ResumesStep, ClaimsStep, PicksStep, HandledStep, EvaluatedStep, ReleasesStep,
       ClosesStep, RoundStep DEF WorkerStep
  <1>7. ASSUME NEW c \in Chats, RunStep(c) PROVE Moved
    BY <1>7, DeliveredStep, StoppedStep DEF RunStep
  <1> QED  BY <1>2, <1>3, <1>4, <1>5, <1>6, <1>7 DEF Next

LEMMA ImagesPreserved == ImagesInv /\ [Next]_vars => ImagesInv'
  BY ImagesSteps

LEMMA ImagesInOrder == ImagesInv => InOrder
  <1> SUFFICES ASSUME ImagesInv, NEW c \in Chats
               PROVE  LET ids == [i \in DOMAIN st[c].jobs |-> st[c].jobs[i].id]
                      IN  /\ \A i, k \in DOMAIN ids : i < k => ids[i] < ids[k]
                          /\ worker[c].job # 0 => \A i \in DOMAIN ids : worker[c].job < ids[i]
    BY DEF InOrder
  <1>1. st[c].jobs \in Seq(Job) /\ Line(st[c], worker[c], requested)  BY ChatOf DEF One
  <1>2. DOMAIN st[c].jobs = 1..Len(st[c].jobs)  BY <1>1, LenProperties
  <1> QED  BY <1>1, <1>2 DEF Line, Ordered, Later

LEMMA ImagesNotLost == ImagesInv /\ ~disturbed => NoImageLost
  <1> SUFFICES ASSUME ImagesInv, ~disturbed, NEW j \in 1..requested
               PROVE  j \in excused \/ delivered[j] >= Batch \/ Owner(j) # {}
    BY DEF NoImageLost
  <1>1. j \in excused \/ delivered[j] >= Batch \/ \E c \in Chats : j \in Holds(st[c], worker[c])
    BY DEF ImagesInv, Accounts
  <1>2. ASSUME NEW c \in Chats, j \in Holds(st[c], worker[c]) PROVE c \in Owner(j)
    <2>1. Line(st[c], worker[c], requested)  BY ChatOf DEF One
    <2>2. st[c].active  BY <1>2, <2>1, NoStateIs, EmptyJobs DEF Holds, Line
    <2>3. j \in IdsIn(st[c].jobs) \/ worker[c].job = j  BY <1>2 DEF Holds
    <2> QED  BY <2>2, <2>3 DEF Owner
  <1> QED  BY <1>1, <1>2

\* Whatever is paused, cancelled or preempted, in any way, each chat's requests are served in their
\* order, and until a user pauses or resumes a queue none of them is forgotten.
THEOREM RequestsServed == Spec => [](InOrder /\ (disturbed \/ NoImageLost))
  <1>1. ImagesInv => InOrder /\ (disturbed \/ NoImageLost)  BY ImagesInOrder, ImagesNotLost
  <1> QED  BY <1>1, ImagesInitially, ImagesPreserved, PTL DEF Spec

\* When every preemption says how many images are done, none is made twice either.
THEOREM ImagesHeld ==
    ASSUME "submit" \notin Preemptions
    PROVE  Spec => []ImagesSound
  <1>1. ImagesInv => ImagesSound
    <2>1. ImagesInv => NoDuplicate  BY DEF ImagesInv, Accounts, NoDuplicate
    <2> QED  BY <2>1, ImagesInOrder, ImagesNotLost DEF ImagesSound, NoneForgotten
  <1> QED  BY <1>1, ImagesInitially, ImagesPreserved, PTL DEF Spec

\* The queue of a chat, with its pauses, preemptions, put back batches and ending workers, serves
\* requests as ImageOrders promises: image by image from the first, and none leaves without a reason.
THEOREM OrdersServed ==
    ASSUME "submit" \notin Preemptions
    PROVE  Spec => ServesOrders
  <1>1. Init => Orders!Init
    <2> SUFFICES ASSUME Init PROVE Orders!Init
      OBVIOUS
    <2>1. st = [c \in Chats |-> NoState] /\ worker = [c \in Chats |-> NoWorker]  BY DEF Init
    <2>2. \A c \in Chats : Pending[c] = {}
      <3>1. Holds(NoState, NoWorker) = {}  BY NoStateIs, EmptyJobs DEF Holds
      <3> QED  BY <2>1, <3>1, PendingIs
    <2>3. Pending = [c \in Chats |-> {}]
      <3>1. Pending = [c \in Chats |-> Pending[c]]  BY DEF Pending
      <3> QED  BY <2>2, <3>1
    <2> QED  BY <2>3 DEF Init, Orders!Init, JobIds
  <1>2. ImagesInv /\ [Next]_vars => [Orders!Next]_(Orders!orderVars)  BY ImagesSteps
  <1>3. Spec => Orders!Init /\ [][Orders!Next]_(Orders!orderVars)
    BY <1>1, <1>2, ImagesInitially, ImagesPreserved, PTL DEF Spec
  <1> QED  BY <1>3 DEF ServesOrders, Orders!Spec

-----------------------------------------------------------------------------
(* The status block *)

Texts == {"none", "status", "prompt"}
MessageRecord == [id: Nat, off: BOOLEAN, text: Texts, markup: BOOLEAN]
StackRecord == [message: [Slots -> MessageRecord], tool: BOOLEAN, environment: BOOLEAN,
                approval: BOOLEAN, atBottom: BOOLEAN]
PostRecord == [slot: Slots, text: Texts, markup: BOOLEAN, gone: BOOLEAN, lost: BOOLEAN]
WorldRecord == [stack: StackRecord, posts: Seq(PostRecord), faults: Nat]
Ids(s) == {s.message[slot].id : slot \in Slots} \ {0}

\* A message that a stack knows is in the chat under its slot, and reads as the stack believes it does.
Shown(m, slot, P) ==
    m.id # 0 => /\ m.id \in DOMAIN P /\ P[m.id].slot = slot /\ ~P[m.id].gone
                /\ ~m.off => P[m.id].text = m.text /\ P[m.id].markup = m.markup
Known(s, P) == \A slot \in Slots : Shown(s.message[slot], slot, P)

\* A healthy block is filled from the top, in order, and only with a tool below the reasoning.
InPlace(s) ==
    LET id(slot) == s.message[slot].id IN
    /\ id("tool") # 0 => s.tool /\ id("reasoning") # 0 /\ id("reasoning") < id("tool")
    /\ id("environment") # 0 => id("tool") # 0 /\ id("tool") < id("environment")
InBlock(s) == (~Disabled(s) => InPlace(s)) /\ (s.environment \/ s.approval => s.tool)

\* The question is in the message of the environment.
Asks(s) ==
    /\ s.approval
    /\ ~Disabled(s) => LET m == s.message["environment"] IN m.id # 0 /\ m.text = "prompt" /\ m.markup

\* Every message that should be there is.
Filled(s) == ~Disabled(s) => \A slot \in Slots : Visible(s, slot) => s.message[slot].id # 0

Ended(s) == s.message["tool"].id = 0 /\ s.message["environment"].id = 0

Held(S, P) ==
    /\ S \in Seq(StackRecord) /\ P \in Seq(PostRecord)
    /\ \A k \in DOMAIN S : Known(S[k], P) /\ InBlock(S[k])
    /\ \A k, l \in DOMAIN S : Ids(S[k]) \cap Ids(S[l]) # {} => k = l
    /\ \A id \in DOMAIN P : P[id].gone \/ P[id].lost \/ \E k \in DOMAIN S : id \in Ids(S[k])

TurnRecord == [at : {"none", "engine", "answer", "deliver", "done"}, stack : Nat, summed : BOOLEAN]
TurnsHeld ==
    /\ current \in 0..Len(stacks) /\ controller \in 0..Len(stacks) /\ revived \subseteq DOMAIN stacks /\ faults \in Nat
    /\ chatTurn \in [Turns -> TurnRecord]
    /\ refresh \in [at : {"none", "found", "noted"}, stack : Nat, seen : Nat]
    /\ prompt \in [stack : Nat, disturbed : BOOLEAN]
    /\ refresh.at # "none" => refresh.stack \in DOMAIN stacks
    /\ \A t \in Turns : chatTurn[t].at # "none" => chatTurn[t].stack \in DOMAIN stacks
    /\ \A t \in Turns : chatTurn[t].at = "engine" => controller = chatTurn[t].stack
    /\ \A t, u \in Turns : chatTurn[t].at = "engine" /\ chatTurn[u].at = "engine" => t = u

Asked ==
    prompt.stack # 0 => /\ \E t \in Turns : chatTurn[t].at = "engine" /\ chatTurn[t].stack = prompt.stack
                        /\ prompt.disturbed \/ Asks(stacks[prompt.stack])

Unused == \A k \in DOMAIN stacks : InUse(k) \/ k \in revived \/ Ended(stacks[k])

StatusInv == Held(stacks, posts) /\ TurnsHeld /\ Asked /\ Unused

-----------------------------------------------------------------------------
(* One message *)

SameFlags(s, z) == z.tool = s.tool /\ z.environment = s.environment /\ z.approval = s.approval

\* x is w with m as the message of the slot, and with the posts P.
Puts(w, x, slot, m, P) ==
    /\ x \in WorldRecord /\ x.posts = P /\ m \in MessageRecord
    /\ x.stack.message = [w.stack.message EXCEPT ![slot] = m]
    /\ SameFlags(w.stack, x.stack) /\ x.stack.atBottom = w.stack.atBottom

LEMMA OffPuts ==
    ASSUME NEW w \in WorldRecord, NEW slot \in Slots
    PROVE  Puts(w, Off(w, slot), slot, [w.stack.message[slot] EXCEPT !.off = TRUE], w.posts)
  BY DEF Puts, Off, WorldRecord, StackRecord, MessageRecord, SameFlags

LEMMA OffLike ==
    ASSUME NEW w \in WorldRecord, NEW slot \in Slots, NEW v \in WorldRecord, v.stack = w.stack
    PROVE  Puts(w, Off(v, slot), slot, [w.stack.message[slot] EXCEPT !.off = TRUE], v.posts)
  BY OffPuts DEF Puts

LEMMA FaultKept ==
    ASSUME NEW w \in WorldRecord, NEW o \in {"ok", "refused", "lost"}
    PROVE  After(w, o) \in WorldRecord /\ After(w, o).stack = w.stack /\ After(w, o).posts = w.posts
  BY DEF After, WorldRecord

LEMMA PostAdded ==
    ASSUME NEW w \in WorldRecord, NEW p \in PostRecord
    PROVE  LET x == [w EXCEPT !.posts = Append(@, p)]
           IN  x \in WorldRecord /\ x.stack = w.stack /\ x.posts = Append(w.posts, p)
  BY DEF WorldRecord

Sent(w, x, slot, text, markup) ==
    LET m == w.stack.message[slot]
        p(lost) == StatusPost(slot, text, markup, lost)
    IN  \/ Puts(w, x, slot, [m EXCEPT !.id = Len(w.posts) + 1, !.text = text], Append(w.posts, p(FALSE)))
        \/ Puts(w, x, slot, [m EXCEPT !.off = TRUE], Append(w.posts, p(TRUE)))
        \/ Puts(w, x, slot, [m EXCEPT !.off = TRUE], w.posts)

LEMMA MessageRetold ==
    ASSUME NEW m \in MessageRecord, NEW i \in Nat, NEW text \in Texts
    PROVE  [m EXCEPT !.id = i, !.text = text] \in MessageRecord
  <1> DEFINE n == [m EXCEPT !.id = i]
  <1>1. n \in MessageRecord  BY DEF MessageRecord
  <1>2. [m EXCEPT !.id = i, !.text = text] = [n EXCEPT !.text = text]  OBVIOUS
  <1> HIDE DEF n
  <1>3. [n EXCEPT !.text = text] \in MessageRecord  BY <1>1 DEF MessageRecord
  <1> QED  BY <1>2, <1>3

LEMMA SentIs ==
    ASSUME NEW w \in WorldRecord, NEW slot \in Slots, NEW text \in Texts, NEW markup \in BOOLEAN,
           NEW x \in SentMessage(w, slot, text, markup)
    PROVE  Sent(w, x, slot, text, markup)
  <1> DEFINE p == StatusPost(slot, text, markup, FALSE)
             q == StatusPost(slot, text, markup, TRUE)
             m == w.stack.message[slot]
  <1>1. p \in PostRecord /\ q \in PostRecord  BY DEF StatusPost, PostRecord
  <1>2. m \in MessageRecord /\ Len(w.posts) \in Nat  BY DEF WorldRecord, StackRecord
  <1>3. PICK o \in {"ok", "refused", "lost"} :
            x = CASE o = "ok" -> [w EXCEPT !.posts = Append(@, p),
                                           !.stack.message[slot] = [@ EXCEPT !.id = Len(w.posts) + 1, !.text = text]]
                  [] o = "lost" -> Off([After(w, o) EXCEPT !.posts = Append(@, q)], slot)
                  [] OTHER -> Off(After(w, o), slot)
    BY DEF SentMessage, Outcomes
  <1>4. CASE o = "ok"
    <2>1. x = [w EXCEPT !.posts = Append(@, p),
                        !.stack.message[slot] = [@ EXCEPT !.id = Len(w.posts) + 1, !.text = text]]
      BY <1>3, <1>4
    <2> DEFINE n == [m EXCEPT !.id = Len(w.posts) + 1, !.text = text]
               P == Append(w.posts, p)
    <2>3. n \in MessageRecord
      <3> HIDE DEF p, q, P, m
      <3>1. Len(w.posts) + 1 \in Nat  BY <1>2
      <3> QED  BY <1>2, <3>1, MessageRetold
    <2> HIDE DEF p
    <2>2. P \in Seq(PostRecord)  BY <1>1 DEF WorldRecord
    <2>4. x = [w EXCEPT !.posts = P, !.stack.message[slot] = n]  BY <2>1
    <2> HIDE DEF n, P, m
    <2>5. Puts(w, x, slot, n, P)  BY <2>2, <2>3, <2>4 DEF Puts, WorldRecord, StackRecord, SameFlags
    <2> QED  BY <2>5 DEF Sent, n, P, p, m
  <1>5. CASE o = "lost"
    <2> DEFINE v == [After(w, o) EXCEPT !.posts = Append(@, q)]
    <2> HIDE DEF q
    <2>1. After(w, o) \in WorldRecord /\ After(w, o).stack = w.stack /\ After(w, o).posts = w.posts  BY FaultKept
    <2>2. v \in WorldRecord /\ v.stack = w.stack /\ v.posts = Append(w.posts, q)  BY <1>1, <2>1, PostAdded
    <2>3. x = Off(v, slot)  BY <1>3, <1>5
    <2> HIDE DEF v
    <2>4. Puts(w, x, slot, [m EXCEPT !.off = TRUE], Append(w.posts, q))  BY <2>2, <2>3, OffLike
    <2> QED  BY <2>4 DEF Sent, q
  <1>6. CASE o = "refused"
    <2>1. x = Off(After(w, o), slot)  BY <1>3, <1>6
    <2>2. Puts(w, x, slot, [m EXCEPT !.off = TRUE], w.posts)  BY <2>1, FaultKept, OffLike
    <2> QED  BY <2>2 DEF Sent
  <1> QED  BY <1>4, <1>5, <1>6

Rewritten(P, i, text, markup) == [P EXCEPT ![i] = [@ EXCEPT !.text = text, !.markup = markup]]

Edited(w, x, slot, text, markup) ==
    LET m == w.stack.message[slot]
        P == Rewritten(w.posts, m.id, text, markup)
    IN  \/ Puts(w, x, slot, [m EXCEPT !.text = text], P)
        \/ Puts(w, x, slot, [m EXCEPT !.off = TRUE], P)
        \/ Puts(w, x, slot, [m EXCEPT !.off = TRUE], w.posts)

LEMMA EditedIs ==
    ASSUME NEW w \in WorldRecord, NEW slot \in Slots, NEW text \in Texts, NEW markup \in BOOLEAN,
           w.stack.message[slot].id \in DOMAIN w.posts,
           NEW x \in EditedMessage(w, slot, text, markup)
    PROVE  Edited(w, x, slot, text, markup)
  <1> DEFINE m == w.stack.message[slot]
             P == [w.posts EXCEPT ![m.id] = [@ EXCEPT !.text = text, !.markup = markup]]
  <1>1. m \in MessageRecord  BY DEF WorldRecord, StackRecord
  <1>2. P \in Seq(PostRecord)
    <2>1. w.posts \in Seq(PostRecord) /\ w.posts[m.id] \in PostRecord  BY ElementOfSeq DEF WorldRecord
    <2>2. [w.posts[m.id] EXCEPT !.text = text, !.markup = markup] \in PostRecord  BY <2>1 DEF PostRecord
    <2> QED  BY <2>1, <2>2, ExceptSeq
  <1>3. PICK o \in {"ok", "refused", "lost"} :
            x = CASE o = "ok" -> [w EXCEPT !.posts = P, !.stack.message[slot].text = text]
                  [] o = "lost" -> Off([After(w, o) EXCEPT !.posts = P], slot)
                  [] OTHER -> Off(After(w, o), slot)
    BY DEF EditedMessage, Outcomes
  <1>4. CASE o = "ok"
    <2>1. x = [w EXCEPT !.posts = P, !.stack.message[slot].text = text]  BY <1>3, <1>4
    <2>2. Puts(w, x, slot, [m EXCEPT !.text = text], P)
      <3> HIDE DEF P
      <3> QED  BY <1>1, <1>2, <2>1 DEF Puts, WorldRecord, StackRecord, MessageRecord, SameFlags
    <2> QED  BY <2>2 DEF Edited, Rewritten
  <1>5. CASE o = "lost"
    <2> DEFINE v == [After(w, o) EXCEPT !.posts = P]
    <2> HIDE DEF P
    <2>1. v \in WorldRecord /\ v.stack = w.stack /\ v.posts = P  BY <1>2, FaultKept DEF WorldRecord
    <2>2. x = Off(v, slot)  BY <1>3, <1>5
    <2> HIDE DEF v
    <2>3. Puts(w, x, slot, [m EXCEPT !.off = TRUE], P)  BY <2>1, <2>2, OffLike
    <2> QED  BY <2>3 DEF Edited, Rewritten, P
  <1>6. CASE o = "refused"
    <2>1. x = Off(After(w, o), slot)  BY <1>3, <1>6
    <2>2. Puts(w, x, slot, [m EXCEPT !.off = TRUE], w.posts)  BY <2>1, FaultKept, OffLike
    <2> QED  BY <2>2 DEF Edited, Rewritten
  <1> QED  BY <1>4, <1>5, <1>6

Replaced(P, i, q) == [P EXCEPT ![i] = q]

LEMMA DeletedIs ==
    ASSUME NEW w \in WorldRecord, NEW id \in DOMAIN w.posts, NEW x \in Deleted(w, id)
    PROVE  /\ x \in WorldRecord /\ x.stack = w.stack
           /\ \E q \in PostRecord : (q.gone \/ q.lost) /\ x.posts = Replaced(w.posts, id, q)
  <1>1. w.posts \in Seq(PostRecord) /\ w.posts[id] \in PostRecord  BY ElementOfSeq DEF WorldRecord
  <1>2. CASE x = [w EXCEPT !.posts[id].gone = TRUE]
    <2> DEFINE q == [w.posts[id] EXCEPT !.gone = TRUE]
               P == [w.posts EXCEPT ![id] = q]
    <2>1. q \in PostRecord /\ q.gone  BY <1>1 DEF PostRecord
    <2>2. P \in Seq(PostRecord)  BY <1>1, <2>1, ExceptSeq
    <2>3. x = [w EXCEPT !.posts = P]  BY <1>2
    <2>4. x \in WorldRecord /\ x.stack = w.stack /\ x.posts = P
      <3> HIDE DEF P
      <3> QED  BY <2>2, <2>3 DEF WorldRecord
    <2> QED  BY <2>1, <2>4 DEF Replaced
  <1>3. CASE x = [After(w, "lost") EXCEPT !.posts[id].lost = TRUE]
    <2> DEFINE q == [w.posts[id] EXCEPT !.lost = TRUE]
               P == [w.posts EXCEPT ![id] = q]
    <2>1. q \in PostRecord /\ q.lost  BY <1>1 DEF PostRecord
    <2>2. P \in Seq(PostRecord)  BY <1>1, <2>1, ExceptSeq
    <2>3. After(w, "lost") \in WorldRecord /\ After(w, "lost").stack = w.stack /\ After(w, "lost").posts = w.posts
      BY FaultKept
    <2>4. x = [After(w, "lost") EXCEPT !.posts = P]  BY <1>3, <2>3
    <2>5. x \in WorldRecord /\ x.stack = w.stack /\ x.posts = P
      <3> HIDE DEF P
      <3> QED  BY <2>2, <2>3, <2>4 DEF WorldRecord
    <2> QED  BY <2>1, <2>5 DEF Replaced
  <1> QED  BY <1>2, <1>3 DEF Deleted

-----------------------------------------------------------------------------
(* What an operation does to one message, and to a stack *)

Sound(w) == w \in WorldRecord /\ Known(w.stack, w.posts)

\* Only the post of this message changes; what is new or was its post is its post now, removed or lost.
SlotMoves(w, x, slot) ==
    LET m == w.stack.message[slot]
        n == x.stack.message[slot]
    IN  /\ x \in WorldRecord /\ SameFlags(w.stack, x.stack)
        /\ \A s \in Slots \ {slot} : x.stack.message[s] = w.stack.message[s]
        /\ Shown(n, slot, x.posts)
        /\ Len(w.posts) <= Len(x.posts)
        /\ \A id \in DOMAIN w.posts : id # m.id => x.posts[id] = w.posts[id]
        /\ n.id = m.id \/ n.id = 0 \/ n.id > Len(w.posts)
        /\ \A id \in DOMAIN x.posts : id = m.id \/ id > Len(w.posts) => id = n.id \/ x.posts[id].gone \/ x.posts[id].lost
        /\ m.off => n.off

\* The same of all messages of the stack.
Follows(w, x) ==
    /\ Sound(x) /\ Len(w.posts) <= Len(x.posts)
    /\ \A id \in DOMAIN w.posts : id \notin Ids(w.stack) => x.posts[id] = w.posts[id]
    /\ \A id \in Ids(x.stack) : id \in Ids(w.stack) \/ id > Len(w.posts)
    /\ \A id \in DOMAIN x.posts : id \in Ids(w.stack) \/ id > Len(w.posts) =>
           id \in Ids(x.stack) \/ x.posts[id].gone \/ x.posts[id].lost
    /\ \A s \in Slots : w.stack.message[s].off => x.stack.message[s].off

LEMMA IdsAre ==
    ASSUME NEW w, Sound(w), NEW s \in Slots
    PROVE  /\ w.stack.message[s] \in MessageRecord /\ w.stack.message[s].id \in Nat
           /\ w.posts \in Seq(PostRecord) /\ Len(w.posts) \in Nat /\ DOMAIN w.posts = 1..Len(w.posts)
           /\ w.stack.message[s].id # 0 => w.stack.message[s].id \in Ids(w.stack)
           /\ w.stack.message[s].id \in 0..Len(w.posts)
  <1>1. w.stack.message[s] \in MessageRecord /\ w.stack.message[s].id \in Nat
    BY DEF Sound, WorldRecord, StackRecord, MessageRecord
  <1>2. w.posts \in Seq(PostRecord) /\ Len(w.posts) \in Nat /\ DOMAIN w.posts = 1..Len(w.posts)
    BY LenProperties DEF Sound, WorldRecord
  <1>3. w.stack.message[s].id # 0 => w.stack.message[s].id \in DOMAIN w.posts  BY DEF Sound, Known, Shown
  <1> QED  BY <1>1, <1>2, <1>3 DEF Ids

LEMMA IdsApart ==
    ASSUME NEW w, Sound(w), NEW s \in Slots, NEW z \in Slots, s # z, w.stack.message[s].id # 0
    PROVE  w.stack.message[s].id # w.stack.message[z].id
  BY DEF Sound, Known, Shown

LEMMA SlotFollows ==
    ASSUME NEW w, Sound(w), NEW slot \in Slots, NEW x, SlotMoves(w, x, slot)
    PROVE  Follows(w, x)
  <1> DEFINE m == w.stack.message[slot]
             n == x.stack.message[slot]
  <1>1. \A s \in Slots \ {slot} : x.stack.message[s] = w.stack.message[s]  BY DEF SlotMoves
  <1>2. Sound(x)
    <2>1. ASSUME NEW s \in Slots \ {slot} PROVE Shown(x.stack.message[s], s, x.posts)
      <3>1. x.stack.message[s] = w.stack.message[s] /\ Shown(w.stack.message[s], s, w.posts)
        BY <1>1 DEF Sound, Known
      <3>2. CASE w.stack.message[s].id = 0  BY <3>1, <3>2 DEF Shown
      <3>3. CASE w.stack.message[s].id # 0
        <4>1. w.stack.message[s].id # m.id  BY <3>3, IdsApart
        <4>2. w.stack.message[s].id \in DOMAIN w.posts  BY <3>1, <3>3 DEF Shown
        <4>3. x.posts[w.stack.message[s].id] = w.posts[w.stack.message[s].id]  BY <4>1, <4>2 DEF SlotMoves
        <4>4. w.stack.message[s].id \in DOMAIN x.posts
          <5>1. Len(w.posts) \in Nat /\ DOMAIN w.posts = 1..Len(w.posts)  BY IdsAre
          <5>2. Len(x.posts) \in Nat /\ DOMAIN x.posts = 1..Len(x.posts)  BY LenProperties DEF SlotMoves, WorldRecord
          <5>3. Len(w.posts) <= Len(x.posts)  BY DEF SlotMoves
          <5> QED  BY <4>2, <5>1, <5>2, <5>3
        <4> QED  BY <3>1, <3>3, <4>3, <4>4 DEF Shown
      <3> QED  BY <3>2, <3>3
    <2>2. Shown(n, slot, x.posts) /\ x \in WorldRecord  BY DEF SlotMoves
    <2> QED  BY <2>1, <2>2 DEF Sound, Known
  <1>3. ASSUME NEW id \in DOMAIN w.posts, id \notin Ids(w.stack) PROVE x.posts[id] = w.posts[id]
    <2>1. id # 0  BY IdsAre
    <2>2. id # m.id  BY <1>3, <2>1, IdsAre
    <2> QED  BY <2>2 DEF SlotMoves
  <1>4. ASSUME NEW id \in Ids(x.stack) PROVE id \in Ids(w.stack) \/ id > Len(w.posts)
    <2>1. PICK s \in Slots : id = x.stack.message[s].id /\ id # 0  BY DEF Ids
    <2>2. CASE s = slot
      <3>1. n.id = m.id \/ n.id = 0 \/ n.id > Len(w.posts)  BY DEF SlotMoves
      <3> QED  BY <2>1, <2>2, <3>1, IdsAre
    <2>3. CASE s # slot  BY <1>1, <2>1, <2>3, IdsAre
    <2> QED  BY <2>2, <2>3
  <1>5. ASSUME NEW id \in DOMAIN x.posts, id \in Ids(w.stack) \/ id > Len(w.posts)
        PROVE  id \in Ids(x.stack) \/ x.posts[id].gone \/ x.posts[id].lost
    <2>1. id # 0  BY <1>2, IdsAre
    <2>2. ASSUME NEW s \in Slots, id = x.stack.message[s].id PROVE id \in Ids(x.stack)  BY <2>1, <2>2 DEF Ids
    <2>3. CASE id = m.id \/ id > Len(w.posts)
      <3>1. id = n.id \/ x.posts[id].gone \/ x.posts[id].lost  BY <2>3 DEF SlotMoves
      <3> QED  BY <2>2, <3>1
    <2>4. CASE id # m.id /\ id \in Ids(w.stack)
      <3>1. PICK s \in Slots : id = w.stack.message[s].id  BY <2>4 DEF Ids
      <3> QED  BY <1>1, <2>2, <2>4, <3>1
    <2> QED  BY <1>5, <2>3, <2>4
  <1>6. Len(w.posts) <= Len(x.posts)  BY DEF SlotMoves
  <1>7. \A s \in Slots : w.stack.message[s].off => x.stack.message[s].off  BY <1>1 DEF SlotMoves
  <1> QED  BY <1>2, <1>3, <1>4, <1>5, <1>6, <1>7 DEF Follows

LEMMA FollowsOn ==
    ASSUME NEW w, Sound(w), NEW x, Follows(w, x), NEW y, Follows(x, y)
    PROVE  Follows(w, y)
  <1>1. Sound(x) /\ Sound(y)  BY DEF Follows
  <1>2. /\ Len(w.posts) \in Nat /\ Len(x.posts) \in Nat /\ Len(y.posts) \in Nat
        /\ DOMAIN w.posts = 1..Len(w.posts) /\ DOMAIN x.posts = 1..Len(x.posts) /\ DOMAIN y.posts = 1..Len(y.posts)
    BY <1>1, LenProperties DEF Sound, WorldRecord
  <1>3. Len(w.posts) <= Len(x.posts) /\ Len(x.posts) <= Len(y.posts)  BY DEF Follows
  <1>4. ASSUME NEW id \in DOMAIN w.posts, id \notin Ids(w.stack) PROVE y.posts[id] = w.posts[id]
    <2>1. id \in DOMAIN x.posts /\ ~(id > Len(w.posts))  BY <1>2, <1>3
    <2>2. id \notin Ids(x.stack)  BY <1>4, <2>1 DEF Follows
    <2> QED  BY <1>4, <2>1, <2>2 DEF Follows
  <1>5. ASSUME NEW id \in Ids(y.stack) PROVE id \in Ids(w.stack) \/ id > Len(w.posts)
    <2>1. id \in Ids(x.stack) \/ id > Len(x.posts)  BY DEF Follows
    <2>2. id \in Nat  BY <1>1, IdsAre DEF Ids
    <2>3. CASE id \in Ids(x.stack)  BY <2>3 DEF Follows
    <2> QED  BY <1>2, <1>3, <2>1, <2>2, <2>3
  <1>6. ASSUME NEW id \in DOMAIN y.posts, id \in Ids(w.stack) \/ id > Len(w.posts)
        PROVE  id \in Ids(y.stack) \/ y.posts[id].gone \/ y.posts[id].lost
    <2>1. CASE id > Len(x.posts)  BY <2>1 DEF Follows
    <2>2. CASE id \in DOMAIN x.posts
      <3>1. id \in Ids(x.stack) \/ x.posts[id].gone \/ x.posts[id].lost  BY <1>6, <2>2 DEF Follows
      <3>2. CASE id \in Ids(x.stack)  BY <3>2 DEF Follows
      <3>3. CASE id \notin Ids(x.stack)
        <4>1. y.posts[id] = x.posts[id]  BY <2>2, <3>3 DEF Follows
        <4> QED  BY <3>1, <3>3, <4>1
      <3> QED  BY <3>2, <3>3
    <2> QED  BY <1>2, <2>1, <2>2
  <1>7. \A s \in Slots : w.stack.message[s].off => y.stack.message[s].off  BY DEF Follows
  <1>8. Len(w.posts) <= Len(y.posts)  BY <1>2, <1>3
  <1> QED  BY <1>1, <1>4, <1>5, <1>6, <1>7, <1>8 DEF Follows

-----------------------------------------------------------------------------
(* The calls of Telegram *)

\* A post is made for a message that has none.
LEMMA PutNew ==
    ASSUME NEW w, Sound(w), NEW slot \in Slots, NEW x, NEW n, NEW p \in PostRecord,
           Puts(w, x, slot, n, Append(w.posts, p)),
           w.stack.message[slot].id = 0, n.id = Len(w.posts) + 1, w.stack.message[slot].off => n.off,
           p.slot = slot, ~p.gone, p.text = n.text, p.markup = n.markup
    PROVE  SlotMoves(w, x, slot) /\ x.stack.message[slot] = n
  <1>1. w.posts \in Seq(PostRecord) /\ Len(w.posts) \in Nat /\ DOMAIN w.posts = 1..Len(w.posts)  BY IdsAre
  <1>2. x.posts = Append(w.posts, p)  BY DEF Puts
  <1>3. /\ Len(x.posts) = Len(w.posts) + 1 /\ x.posts[Len(w.posts) + 1] = p
        /\ \A id \in 1..Len(w.posts) : x.posts[id] = w.posts[id]
        /\ DOMAIN x.posts = 1..(Len(w.posts) + 1)
    BY <1>1, <1>2
  <1>4. w.stack.message \in [Slots -> MessageRecord]  BY DEF Sound, WorldRecord, StackRecord
  <1>5. x.stack.message[slot] = n /\ \A s \in Slots \ {slot} : x.stack.message[s] = w.stack.message[s]
    BY <1>4 DEF Puts
  <1>6. Shown(n, slot, x.posts)  BY <1>1, <1>3 DEF Shown
  <1>7. \A id \in DOMAIN x.posts : id > Len(w.posts) => id = n.id  BY <1>1, <1>3
  <1>8. \A id \in DOMAIN x.posts : id # 0  BY <1>1, <1>3
  <1>9. Len(w.posts) <= Len(x.posts) /\ n.id > Len(w.posts)  BY <1>1, <1>3
  <1> QED  BY <1>1, <1>3, <1>5, <1>6, <1>7, <1>8, <1>9 DEF SlotMoves, Puts

\* A post is made, but the message is not told of it.
LEMMA PutLost ==
    ASSUME NEW w, Sound(w), NEW slot \in Slots, NEW x, NEW n, NEW p \in PostRecord,
           Puts(w, x, slot, n, Append(w.posts, p)),
           n.id = w.stack.message[slot].id, n.off, p.lost
    PROVE  SlotMoves(w, x, slot) /\ x.stack.message[slot] = n
  <1>1. w.posts \in Seq(PostRecord) /\ Len(w.posts) \in Nat /\ DOMAIN w.posts = 1..Len(w.posts)  BY IdsAre
  <1>2. x.posts = Append(w.posts, p)  BY DEF Puts
  <1>3. /\ Len(x.posts) = Len(w.posts) + 1 /\ x.posts[Len(w.posts) + 1] = p
        /\ \A id \in 1..Len(w.posts) : x.posts[id] = w.posts[id]
        /\ DOMAIN x.posts = 1..(Len(w.posts) + 1)
    BY <1>1, <1>2
  <1>4. w.stack.message \in [Slots -> MessageRecord]  BY DEF Sound, WorldRecord, StackRecord
  <1>5. x.stack.message[slot] = n /\ \A s \in Slots \ {slot} : x.stack.message[s] = w.stack.message[s]
    BY <1>4 DEF Puts
  <1>6. Shown(n, slot, x.posts)
    <2>1. Shown(w.stack.message[slot], slot, w.posts)  BY DEF Sound, Known
    <2>2. n.id # 0 => n.id \in DOMAIN w.posts /\ w.posts[n.id].slot = slot /\ ~w.posts[n.id].gone  BY <2>1 DEF Shown
    <2>3. \A id \in DOMAIN w.posts : id \in DOMAIN x.posts /\ x.posts[id] = w.posts[id]  BY <1>1, <1>3
    <2> QED  BY <2>2, <2>3 DEF Shown
  <1>7. \A id \in DOMAIN x.posts : id > Len(w.posts) => x.posts[id].lost  BY <1>1, <1>3
  <1>8. Len(w.posts) <= Len(x.posts)  BY <1>1, <1>3
  <1> QED  BY <1>1, <1>3, <1>5, <1>6, <1>7, <1>8 DEF SlotMoves, Puts

\* The chat stays as it is and the message is switched off.
LEMMA PutSame ==
    ASSUME NEW w, Sound(w), NEW slot \in Slots, NEW x, NEW n,
           Puts(w, x, slot, n, w.posts),
           n.id = w.stack.message[slot].id, n.off
    PROVE  SlotMoves(w, x, slot) /\ x.stack.message[slot] = n
  <1>1. w.posts \in Seq(PostRecord) /\ Len(w.posts) \in Nat /\ DOMAIN w.posts = 1..Len(w.posts)  BY IdsAre
  <1>2. x.posts = w.posts  BY DEF Puts
  <1>4. w.stack.message \in [Slots -> MessageRecord]  BY DEF Sound, WorldRecord, StackRecord
  <1>5. x.stack.message[slot] = n /\ \A s \in Slots \ {slot} : x.stack.message[s] = w.stack.message[s]
    BY <1>4 DEF Puts
  <1>6. Shown(n, slot, x.posts)
    <2>1. Shown(w.stack.message[slot], slot, w.posts)  BY DEF Sound, Known
    <2> QED  BY <1>2, <2>1 DEF Shown
  <1>7. \A id \in DOMAIN x.posts : ~(id > Len(w.posts))  BY <1>1, <1>2
  <1>8. Len(w.posts) <= Len(x.posts)  BY <1>1, <1>2
  <1> QED  BY <1>2, <1>5, <1>6, <1>7, <1>8 DEF SlotMoves, Puts

\* The post of a message is edited.
LEMMA PutEdited ==
    ASSUME NEW w, Sound(w), NEW slot \in Slots, NEW x, NEW n, NEW text \in Texts, NEW markup \in BOOLEAN,
           w.stack.message[slot].id # 0, NEW P, Puts(w, x, slot, n, P),
           P = Rewritten(w.posts, w.stack.message[slot].id, text, markup),
           n.id = w.stack.message[slot].id, w.stack.message[slot].off => n.off,
           ~n.off => n.text = text /\ n.markup = markup
    PROVE  SlotMoves(w, x, slot) /\ x.stack.message[slot] = n
  <1>1. w.posts \in Seq(PostRecord) /\ Len(w.posts) \in Nat /\ DOMAIN w.posts = 1..Len(w.posts)  BY IdsAre
  <1>2. x.posts = [w.posts EXCEPT ![n.id] = [@ EXCEPT !.text = text, !.markup = markup]]  BY DEF Puts, Rewritten
  <1>3. n.id \in DOMAIN w.posts /\ w.posts[n.id].slot = slot /\ ~w.posts[n.id].gone  BY DEF Sound, Known, Shown
  <1>4. DOMAIN x.posts = DOMAIN w.posts /\ \A id \in DOMAIN w.posts : id # n.id => x.posts[id] = w.posts[id]
    BY <1>1, <1>2
  <1>5. x.posts[n.id] = [w.posts[n.id] EXCEPT !.text = text, !.markup = markup]  BY <1>2, <1>3
  <1>6. w.posts[n.id] \in PostRecord  BY <1>1, <1>3, ElementOfSeq
  <1>7. x.posts[n.id].slot = slot /\ ~x.posts[n.id].gone /\ x.posts[n.id].text = text /\ x.posts[n.id].markup = markup
    BY <1>3, <1>5, <1>6 DEF PostRecord
  <1>8. Shown(n, slot, x.posts)  BY <1>3, <1>4, <1>7 DEF Shown
  <1>9. w.stack.message \in [Slots -> MessageRecord]  BY DEF Sound, WorldRecord, StackRecord
  <1>10. x.stack.message[slot] = n /\ \A s \in Slots \ {slot} : x.stack.message[s] = w.stack.message[s]
    BY <1>9 DEF Puts
  <1>11. x \in WorldRecord /\ Len(x.posts) \in Nat /\ DOMAIN x.posts = 1..Len(x.posts)
    BY LenProperties DEF Puts, WorldRecord
  <1>12. Len(w.posts) = Len(x.posts)  BY <1>1, <1>4, <1>11
  <1>13. \A id \in DOMAIN x.posts : ~(id > Len(w.posts))  BY <1>1, <1>4
  <1>14. SameFlags(w.stack, x.stack)  BY DEF Puts
  <1> QED  BY <1>1, <1>4, <1>8, <1>10, <1>11, <1>12, <1>13, <1>14 DEF SlotMoves

\* A post is made and the older one of the message is removed, or cannot be.
LEMMA PutMoved ==
    ASSUME NEW w, Sound(w), NEW slot \in Slots, NEW v, NEW x, NEW n, NEW p \in PostRecord, NEW q \in PostRecord,
           Puts(w, v, slot, n, Append(w.posts, p)), w.stack.message[slot].id # 0, n.id = Len(w.posts) + 1, w.stack.message[slot].off => n.off,
           p.slot = slot, ~p.gone, p.text = n.text, p.markup = n.markup,
           x \in WorldRecord, x.stack = v.stack, q.gone \/ q.lost,
           x.posts = Replaced(v.posts, w.stack.message[slot].id, q)
    PROVE  SlotMoves(w, x, slot) /\ x.stack.message[slot] = n
  <1> DEFINE i == w.stack.message[slot].id
  <1>1. w.posts \in Seq(PostRecord) /\ Len(w.posts) \in Nat /\ DOMAIN w.posts = 1..Len(w.posts)  BY IdsAre
  <1>2. v.posts = Append(w.posts, p)  BY DEF Puts
  <1>3. /\ Len(v.posts) = Len(w.posts) + 1 /\ v.posts[Len(w.posts) + 1] = p
        /\ \A id \in 1..Len(w.posts) : v.posts[id] = w.posts[id]
        /\ DOMAIN v.posts = 1..(Len(w.posts) + 1)
    BY <1>1, <1>2
  <1>4. i \in 1..Len(w.posts)  BY <1>1 DEF Sound, Known, Shown
  <1>5. /\ DOMAIN x.posts = 1..(Len(w.posts) + 1) /\ x.posts[i] = q
        /\ \A id \in 1..(Len(w.posts) + 1) : id # i => x.posts[id] = v.posts[id]
    BY <1>1, <1>3, <1>4 DEF Replaced
  <1>6. Len(x.posts) \in Nat /\ DOMAIN x.posts = 1..Len(x.posts)  BY LenProperties DEF WorldRecord
  <1>7. Len(x.posts) = Len(w.posts) + 1  BY <1>1, <1>5, <1>6
  <1>8. w.stack.message \in [Slots -> MessageRecord]  BY DEF Sound, WorldRecord, StackRecord
  <1>9. x.stack.message[slot] = n /\ \A s \in Slots \ {slot} : x.stack.message[s] = w.stack.message[s]
    BY <1>8 DEF Puts
  <1>10. n.id \in DOMAIN x.posts /\ n.id # i /\ x.posts[n.id] = p  BY <1>1, <1>3, <1>4, <1>5
  <1>11. Shown(n, slot, x.posts)  BY <1>10 DEF Shown
  <1>12. \A id \in DOMAIN w.posts : id # i => x.posts[id] = w.posts[id]  BY <1>1, <1>3, <1>5
  <1>13. \A id \in DOMAIN x.posts : id > Len(w.posts) => id = n.id  BY <1>1, <1>5
  <1>14. Len(w.posts) <= Len(x.posts) /\ n.id > Len(w.posts)  BY <1>1, <1>7
  <1>15. SameFlags(w.stack, x.stack)  BY DEF Puts
  <1> QED  BY <1>5, <1>9, <1>11, <1>12, <1>13, <1>14, <1>15 DEF SlotMoves

LEMMA PutsOver ==
    ASSUME NEW w \in WorldRecord, NEW slot \in Slots, NEW v, NEW k, NEW x, NEW n, NEW P,
           Puts(w, v, slot, k, w.posts), Puts(v, x, slot, n, P)
    PROVE  Puts(w, x, slot, n, P)
  <1>1. w.stack.message \in [Slots -> MessageRecord]  BY DEF WorldRecord, StackRecord
  <1>2. v.stack.message = [w.stack.message EXCEPT ![slot] = k]  BY DEF Puts
  <1>3. x.stack.message = [v.stack.message EXCEPT ![slot] = n]  BY DEF Puts
  <1>4. x.stack.message = [w.stack.message EXCEPT ![slot] = n]  BY <1>1, <1>2, <1>3
  <1>5. SameFlags(w.stack, x.stack) /\ x.stack.atBottom = w.stack.atBottom  BY DEF Puts, SameFlags
  <1> QED  BY <1>4, <1>5 DEF Puts

\* What becomes of a message that is shown.
Retold(w, x, slot, text, markup) ==
    LET m == w.stack.message[slot]
        n == x.stack.message[slot]
    IN  ~n.off => n.text = text /\ n.markup = markup /\ n.id = IF m.id = 0 THEN Len(w.posts) + 1 ELSE m.id

LEMMA UpdatedMoves ==
    ASSUME NEW w, Sound(w), NEW slot \in Slots, NEW text \in Texts, NEW markup \in BOOLEAN,
           NEW x \in Updated(w, slot, text, markup)
    PROVE  /\ SlotMoves(w, x, slot) /\ x.stack.atBottom = w.stack.atBottom
           /\ Retold(w, x, slot, text, markup)
  <1> DEFINE m == w.stack.message[slot]
             v == [w EXCEPT !.stack.message[slot].markup = markup]
             k == [m EXCEPT !.markup = markup]
  <1>1. w \in WorldRecord /\ m \in MessageRecord  BY IdsAre DEF Sound
  <1>2. k \in MessageRecord /\ k.id = m.id /\ k.off = m.off /\ k.markup = markup  BY <1>1 DEF MessageRecord
  <1>3. Puts(w, v, slot, k, w.posts)
    BY <1>1, <1>2 DEF Puts, WorldRecord, StackRecord, SameFlags
  <1>4. v \in WorldRecord /\ v.posts = w.posts /\ v.stack.message[slot] = k
    BY <1>1, <1>3 DEF Puts, WorldRecord, StackRecord
  <1>5. CASE m.off
    <2>1. x = w  BY <1>5 DEF Updated
    <2>2. Puts(w, w, slot, m, w.posts)  BY <1>1 DEF Puts, SameFlags, WorldRecord, StackRecord
    <2>3. SlotMoves(w, w, slot)  BY <1>5, <2>2, PutSame
    <2> QED  BY <1>5, <2>1, <2>3 DEF Retold
  <1>6. CASE ~m.off /\ m.id = 0
    <2> HIDE DEF v
    <2>1. x \in SentMessage(v, slot, text, markup)  BY <1>6 DEF Updated, v
    <2>2. Sent(v, x, slot, text, markup)  BY <1>4, <2>1, SentIs
    <2> DEFINE n == [k EXCEPT !.id = Len(w.posts) + 1, !.text = text]
               l == [k EXCEPT !.off = TRUE]
               p == StatusPost(slot, text, markup, FALSE)
               q == StatusPost(slot, text, markup, TRUE)
    <2>3. \/ Puts(w, x, slot, n, Append(w.posts, p))
          \/ Puts(w, x, slot, l, Append(w.posts, q))
          \/ Puts(w, x, slot, l, w.posts)
      <3>1. \/ Puts(v, x, slot, n, Append(w.posts, p))
            \/ Puts(v, x, slot, l, Append(w.posts, q))
            \/ Puts(v, x, slot, l, w.posts)
        BY <1>4, <2>2 DEF Sent
      <3> HIDE DEF n, l, p, q
      <3> QED  BY <1>1, <1>3, <3>1, PutsOver
    <2>4. n.id = Len(w.posts) + 1 /\ n.text = text /\ n.markup = markup /\ n.off = m.off
      BY <1>2 DEF MessageRecord
    <2>5. l.off /\ l.id = m.id  BY <1>2 DEF MessageRecord
    <2>6. /\ p \in PostRecord /\ p.slot = slot /\ ~p.gone /\ p.text = text /\ p.markup = markup
          /\ q \in PostRecord /\ q.lost
      BY DEF StatusPost, PostRecord
    <2> HIDE DEF n, l, p, q
    <2>7. CASE Puts(w, x, slot, n, Append(w.posts, p))
      <3>1. SlotMoves(w, x, slot) /\ x.stack.message[slot] = n  BY <1>6, <2>4, <2>6, <2>7, PutNew
      <3> QED  BY <1>6, <2>4, <2>7, <3>1 DEF Retold, Puts
    <2>8. CASE Puts(w, x, slot, l, Append(w.posts, q))
      <3>1. SlotMoves(w, x, slot) /\ x.stack.message[slot] = l  BY <2>5, <2>6, <2>8, PutLost
      <3> QED  BY <2>5, <2>8, <3>1 DEF Retold, Puts
    <2>9. CASE Puts(w, x, slot, l, w.posts)
      <3>1. SlotMoves(w, x, slot) /\ x.stack.message[slot] = l  BY <2>5, <2>9, PutSame
      <3> QED  BY <2>5, <2>9, <3>1 DEF Retold, Puts
    <2> QED  BY <2>3, <2>7, <2>8, <2>9
  <1>7. CASE ~m.off /\ m.id # 0
    <2> HIDE DEF v
    <2>1. x \in EditedMessage(v, slot, text, markup)  BY <1>7 DEF Updated, v
    <2>2. m.id \in DOMAIN w.posts  BY <1>7 DEF Sound, Known, Shown
    <2>3. Edited(v, x, slot, text, markup)
      <3>1. v.stack.message[slot].id \in DOMAIN v.posts  BY <1>2, <1>4, <2>2
      <3>2. v \in WorldRecord  BY <1>4
      <3> HIDE DEF m, k
      <3> QED  BY <2>1, <3>1, <3>2, EditedIs
    <2> DEFINE n == [k EXCEPT !.text = text]
               l == [k EXCEPT !.off = TRUE]
               P == Rewritten(w.posts, m.id, text, markup)
    <2>4. \/ Puts(w, x, slot, n, P) \/ Puts(w, x, slot, l, P) \/ Puts(w, x, slot, l, w.posts)
      BY <1>1, <1>2, <1>3, <1>4, <2>3, PutsOver DEF Edited
    <2>5. n.id = m.id /\ n.text = text /\ n.markup = markup /\ n.off = m.off  BY <1>2 DEF MessageRecord
    <2>6. l.off /\ l.id = m.id  BY <1>2 DEF MessageRecord
    <2> HIDE DEF n, l
    <2>10. P = Rewritten(w.posts, w.stack.message[slot].id, text, markup)
      OBVIOUS
    <2> HIDE DEF P
    <2>7. CASE Puts(w, x, slot, n, P)
      <3>1. SlotMoves(w, x, slot) /\ x.stack.message[slot] = n  BY <1>7, <2>5, <2>7, <2>10, PutEdited
      <3> QED  BY <1>7, <2>5, <2>7, <3>1 DEF Retold, Puts
    <2>8. CASE Puts(w, x, slot, l, P)
      <3>1. SlotMoves(w, x, slot) /\ x.stack.message[slot] = l  BY <1>7, <2>6, <2>8, <2>10, PutEdited
      <3> QED  BY <2>6, <2>8, <3>1 DEF Retold, Puts
    <2>9. CASE Puts(w, x, slot, l, w.posts)
      <3>1. SlotMoves(w, x, slot) /\ x.stack.message[slot] = l  BY <2>6, <2>9, PutSame
      <3> QED  BY <2>6, <2>9, <3>1 DEF Retold, Puts
    <2> QED  BY <2>4, <2>7, <2>8, <2>9
  <1> QED  BY <1>5, <1>6, <1>7

\* A message that is moved to the end of the chat, as far as there is one.
Reshown(w, x, slot) ==
    LET m == w.stack.message[slot]
        n == x.stack.message[slot]
    IN  ~n.off => n.text = m.text /\ n.markup = m.markup /\ n.id = IF m.id = 0 THEN 0 ELSE Len(w.posts) + 1

LEMMA Stays ==
    ASSUME NEW w, Sound(w), NEW slot \in Slots
    PROVE  SlotMoves(w, w, slot)
  <1>1. Shown(w.stack.message[slot], slot, w.posts)  BY DEF Sound, Known
  <1>2. \A id \in DOMAIN w.posts : ~(id > Len(w.posts))  BY IdsAre
  <1>3. Len(w.posts) <= Len(w.posts)  BY IdsAre
  <1> QED  BY <1>1, <1>2, <1>3 DEF SlotMoves, SameFlags, Sound

LEMMA RepostedMoves ==
    ASSUME NEW w, Sound(w), NEW slot \in Slots, NEW x \in Reposted(w, slot)
    PROVE  SlotMoves(w, x, slot) /\ x.stack.atBottom = w.stack.atBottom /\ Reshown(w, x, slot)
  <1> DEFINE m == w.stack.message[slot]
  <1>1. w \in WorldRecord /\ m \in MessageRecord  BY IdsAre DEF Sound
  <1>2. m.text \in Texts /\ m.markup \in BOOLEAN /\ m.id \in Nat /\ m.off \in BOOLEAN  BY <1>1 DEF MessageRecord
  <1>3. CASE m.off \/ m.id = 0
    <2>1. x = w  BY <1>3 DEF Reposted
    <2> QED  BY <1>3, <2>1, Stays DEF Reshown
  <1>4. CASE ~m.off /\ m.id # 0
    <2>1. PICK v \in SentMessage(w, slot, m.text, m.markup) :
              x \in IF v.stack.message[slot].off THEN {v} ELSE NewPlace(v, slot, m.id)
      BY <1>4 DEF Reposted, Then
    <2> DEFINE n == [m EXCEPT !.id = Len(w.posts) + 1, !.text = m.text]
               l == [m EXCEPT !.off = TRUE]
               p == StatusPost(slot, m.text, m.markup, FALSE)
               q == StatusPost(slot, m.text, m.markup, TRUE)
    <2>2. Sent(w, v, slot, m.text, m.markup)  BY <1>1, <1>2, <2>1, SentIs
    <2>3. \/ Puts(w, v, slot, n, Append(w.posts, p))
          \/ Puts(w, v, slot, l, Append(w.posts, q))
          \/ Puts(w, v, slot, l, w.posts)
      BY <2>2 DEF Sent
    <2>4. n.id = Len(w.posts) + 1 /\ n.text = m.text /\ n.markup = m.markup /\ n.off = m.off
      BY <1>1 DEF MessageRecord
    <2>5. l.off /\ l.id = m.id  BY <1>1 DEF MessageRecord
    <2>6. /\ p \in PostRecord /\ p.slot = slot /\ ~p.gone /\ p.text = m.text /\ p.markup = m.markup
          /\ q \in PostRecord /\ q.lost
      BY <1>2 DEF StatusPost, PostRecord
    <2> HIDE DEF n, l, p, q, m
    <2>7. CASE Puts(w, v, slot, n, Append(w.posts, p))
      <3>1. v.stack.message[slot] = n /\ v \in WorldRecord  BY <1>1, <2>7 DEF Puts, WorldRecord, StackRecord
      <3>2. x \in Deleted(v, m.id)  BY <1>4, <2>1, <2>4, <3>1 DEF NewPlace
      <3>3. w.posts \in Seq(PostRecord) /\ Len(w.posts) \in Nat /\ DOMAIN w.posts = 1..Len(w.posts)  BY IdsAre
      <3>4. m.id \in DOMAIN w.posts  BY <1>4 DEF m, Sound, Known, Shown
      <3>5. v.posts = Append(w.posts, p)  BY <2>7 DEF Puts
      <3>6. m.id \in DOMAIN v.posts  BY <3>3, <3>4, <3>5
      <3>7. PICK d \in PostRecord : /\ x \in WorldRecord /\ x.stack = v.stack
                                    /\ (d.gone \/ d.lost) /\ x.posts = Replaced(v.posts, m.id, d)
        BY <3>1, <3>2, <3>6, DeletedIs
      <3>8. SlotMoves(w, x, slot) /\ x.stack.message[slot] = n
        <4>1. m = w.stack.message[slot]  BY DEF m
        <4>2. /\ w.stack.message[slot].id # 0 /\ n.id = Len(w.posts) + 1 /\ (w.stack.message[slot].off => n.off)
              /\ p.slot = slot /\ ~p.gone /\ p.text = n.text /\ p.markup = n.markup
          BY <1>4, <2>4, <2>6, <4>1
        <4>3. x.posts = Replaced(v.posts, w.stack.message[slot].id, d)  BY <3>7, <4>1
        <4> QED  BY <2>6, <2>7, <3>7, <4>2, <4>3, PutMoved
      <3> QED  BY <1>4, <2>4, <2>7, <3>7, <3>8 DEF Reshown, Puts, m
    <2>8. CASE Puts(w, v, slot, l, Append(w.posts, q))
      <3>1. SlotMoves(w, v, slot) /\ v.stack.message[slot] = l  BY <2>5, <2>6, <2>8, PutLost DEF m
      <3>2. x = v  BY <2>1, <2>5, <3>1
      <3> QED  BY <2>5, <2>8, <3>1, <3>2 DEF Reshown, Puts
    <2>9. CASE Puts(w, v, slot, l, w.posts)
      <3>1. SlotMoves(w, v, slot) /\ v.stack.message[slot] = l  BY <2>5, <2>9, PutSame DEF m
      <3>2. x = v  BY <2>1, <2>5, <3>1
      <3> QED  BY <2>5, <2>9, <3>1, <3>2 DEF Reshown, Puts
    <2> QED  BY <2>3, <2>7, <2>8, <2>9
  <1> QED  BY <1>2, <1>3, <1>4

\* A message that keeps its place and its text.
Reread(w, x, slot) ==
    LET m == w.stack.message[slot]
        n == x.stack.message[slot]
    IN  ~n.off => n.text = m.text /\ n.markup = m.markup /\ n.id = m.id

LEMMA RefreshedMoves ==
    ASSUME NEW w, Sound(w), NEW slot \in Slots, NEW x \in Refreshed(w, slot)
    PROVE  SlotMoves(w, x, slot) /\ x.stack.atBottom = w.stack.atBottom /\ Reread(w, x, slot)
  <1> DEFINE m == w.stack.message[slot]
  <1>1. w \in WorldRecord /\ m \in MessageRecord  BY IdsAre DEF Sound
  <1>2. m.text \in Texts /\ m.markup \in BOOLEAN /\ m.id \in Nat /\ m.off \in BOOLEAN  BY <1>1 DEF MessageRecord
  <1>3. CASE m.off \/ m.id = 0
    <2>1. x = w  BY <1>3 DEF Refreshed
    <2> QED  BY <1>3, <2>1, Stays DEF Reread
  <1>4. CASE ~m.off /\ m.id # 0
    <2>1. x \in EditedMessage(w, slot, m.text, m.markup)  BY <1>4 DEF Refreshed
    <2>2. m.id \in DOMAIN w.posts  BY <1>4 DEF Sound, Known, Shown
    <2>3. Edited(w, x, slot, m.text, m.markup)  BY <1>1, <1>2, <2>1, <2>2, EditedIs
    <2> DEFINE n == [m EXCEPT !.text = m.text]
               l == [m EXCEPT !.off = TRUE]
               P == Rewritten(w.posts, m.id, m.text, m.markup)
    <2>4. Puts(w, x, slot, n, P) \/ Puts(w, x, slot, l, P) \/ Puts(w, x, slot, l, w.posts)  BY <2>3 DEF Edited
    <2>5. n.id = m.id /\ n.text = m.text /\ n.markup = m.markup /\ n.off = m.off  BY <1>1 DEF MessageRecord
    <2>6. l.off /\ l.id = m.id  BY <1>1 DEF MessageRecord
    <2> HIDE DEF n, l
    <2>11. PICK text \in Texts, markup \in BOOLEAN : text = m.text /\ markup = m.markup  BY <1>2
    <2>10. /\ P = Rewritten(w.posts, w.stack.message[slot].id, text, markup)
           /\ w.stack.message[slot].id # 0 /\ ~w.stack.message[slot].off
           /\ n.id = w.stack.message[slot].id /\ l.id = w.stack.message[slot].id /\ n.text = text /\ n.markup = markup
      BY <1>4, <2>5, <2>6, <2>11
    <2> HIDE DEF P, m
    <2>7. CASE Puts(w, x, slot, n, P)
      <3>1. SlotMoves(w, x, slot) /\ x.stack.message[slot] = n  BY <2>7, <2>10, PutEdited
      <3> QED  BY <2>5, <2>7, <3>1 DEF Reread, Puts, m
    <2>8. CASE Puts(w, x, slot, l, P)
      <3>1. SlotMoves(w, x, slot) /\ x.stack.message[slot] = l  BY <2>6, <2>8, <2>10, PutEdited
      <3> QED  BY <2>6, <2>8, <3>1 DEF Reread, Puts
    <2>9. CASE Puts(w, x, slot, l, w.posts)
      <3>1. SlotMoves(w, x, slot) /\ x.stack.message[slot] = l  BY <2>6, <2>9, <2>10, PutSame
      <3> QED  BY <2>6, <2>9, <3>1 DEF Reread, Puts
    <2> QED  BY <2>4, <2>7, <2>8, <2>9
  <1> QED  BY <1>2, <1>3, <1>4

LEMMA ClosedMoves ==
    ASSUME NEW w, Sound(w), NEW slot \in Slots, NEW x \in ClosedMessage(w, slot)
    PROVE  SlotMoves(w, x, slot) /\ x.stack.atBottom = w.stack.atBottom /\ x.stack.message[slot].id = 0
  <1> DEFINE m == w.stack.message[slot]
             n == [NoMessage EXCEPT !.off = m.off]
             v == [w EXCEPT !.stack.message[slot] = n]
  <1>1. w \in WorldRecord /\ m \in MessageRecord  BY IdsAre DEF Sound
  <1>2. CASE m.id = 0
    <2>1. x = w  BY <1>2 DEF ClosedMessage
    <2> QED  BY <1>2, <2>1, Stays
  <1>3. CASE m.id # 0
    <2>1. n \in MessageRecord /\ n.id = 0 /\ n.off = m.off
      BY <1>1 DEF NoMessage, MessageRecord, Texts
    <2> HIDE DEF n
    <2>2. Puts(w, v, slot, n, w.posts)
      BY <1>1, <2>1 DEF Puts, WorldRecord, StackRecord, SameFlags
    <2>3. x \in Deleted(v, m.id)  BY <1>3 DEF ClosedMessage, n
    <2> HIDE DEF v
    <2>4. m.id \in DOMAIN w.posts  BY <1>3 DEF Sound, Known, Shown
    <2>5. v \in WorldRecord /\ v.posts = w.posts  BY <2>2 DEF Puts
    <2>6. PICK d \in PostRecord : /\ x \in WorldRecord /\ x.stack = v.stack
                                  /\ (d.gone \/ d.lost) /\ x.posts = Replaced(w.posts, m.id, d)
      <3>1. m.id \in DOMAIN v.posts  BY <2>4, <2>5
      <3>2. /\ x \in WorldRecord /\ x.stack = v.stack
            /\ \E d \in PostRecord : (d.gone \/ d.lost) /\ x.posts = Replaced(v.posts, m.id, d)
        BY <2>3, <2>5, <3>1, DeletedIs
      <3> QED  BY <2>5, <3>2
    <2>7. w.posts \in Seq(PostRecord) /\ Len(w.posts) \in Nat /\ DOMAIN w.posts = 1..Len(w.posts)  BY IdsAre
    <2>8. /\ DOMAIN x.posts = DOMAIN w.posts /\ x.posts[m.id] = d
          /\ \A id \in DOMAIN w.posts : id # m.id => x.posts[id] = w.posts[id]
      BY <2>4, <2>6, <2>7 DEF Replaced
    <2>9. Len(x.posts) \in Nat /\ DOMAIN x.posts = 1..Len(x.posts)  BY <2>6, LenProperties DEF WorldRecord
    <2>10. Len(x.posts) = Len(w.posts)  BY <2>7, <2>8, <2>9
    <2>11. w.stack.message \in [Slots -> MessageRecord]  BY <1>1 DEF WorldRecord, StackRecord
    <2>12. /\ x.stack.message[slot] = n /\ \A s \in Slots \ {slot} : x.stack.message[s] = w.stack.message[s]
           /\ SameFlags(w.stack, x.stack) /\ x.stack.atBottom = w.stack.atBottom
      BY <2>2, <2>6, <2>11 DEF Puts
    <2>13. Shown(n, slot, x.posts)  BY <2>1 DEF Shown
    <2>14. \A id \in DOMAIN x.posts : ~(id > Len(w.posts))  BY <2>7, <2>8
    <2>15. Len(w.posts) <= Len(x.posts)  BY <2>7, <2>10
    <2>16. SlotMoves(w, x, slot)
      BY <2>1, <2>6, <2>8, <2>12, <2>13, <2>14, <2>15 DEF SlotMoves
    <2> QED  BY <2>1, <2>12, <2>16
  <1> QED  BY <1>2, <1>3

-----------------------------------------------------------------------------
(* The operations of a stack *)

EnsuredSlot(x, slot) ==
    IF ~Visible(x.stack, slot) THEN ClosedMessage(x, slot)
    ELSE IF x.stack.message[slot].id # 0 THEN {x} ELSE Show(x, slot)

LEMMA EnsuredIs ==
    ASSUME NEW w, NEW y \in Ensured(w)
    PROVE  \E a \in EnsuredSlot(w, "reasoning") : \E b \in EnsuredSlot(a, "tool") : y \in EnsuredSlot(b, "environment")
  BY DEF Ensured, SlotBySlot, Then, EnsuredSlot

LEMMA RepostedIs ==
    ASSUME NEW w, NEW y \in SlotBySlot(w, Reposted)
    PROVE  \E a \in Reposted(w, "reasoning") : \E b \in Reposted(a, "tool") : y \in Reposted(b, "environment")
  BY DEF SlotBySlot, Then

LEMMA RefreshedIs ==
    ASSUME NEW w, NEW y \in SlotBySlot(w, Refreshed)
    PROVE  \E a \in Refreshed(w, "reasoning") : \E b \in Refreshed(a, "tool") : y \in Refreshed(b, "environment")
  BY DEF SlotBySlot, Then

ShutSlot(x, slot, kept) == IF slot \in kept THEN {x} ELSE ClosedMessage(x, slot)

LEMMA ShutIs ==
    ASSUME NEW w, NEW kept, NEW y \in Shut(w, kept)
    PROVE  \E a \in ShutSlot(w, "reasoning", kept) : \E b \in ShutSlot(a, "tool", kept) :
               y \in ShutSlot(b, "environment", kept)
  BY DEF Shut, SlotBySlot, Then, ShutSlot

\* One slot after the other.
InTurn(w, a, b, y) ==
    Sound(w) /\ SlotMoves(w, a, "reasoning") /\ SlotMoves(a, b, "tool") /\ SlotMoves(b, y, "environment")

LEMMA InTurnFollows ==
    ASSUME NEW w, NEW a, NEW b, NEW y, InTurn(w, a, b, y)
    PROVE  /\ Sound(a) /\ Sound(b) /\ Follows(w, y)
           /\ SameFlags(w.stack, a.stack) /\ SameFlags(w.stack, b.stack) /\ SameFlags(w.stack, y.stack)
           /\ a.stack.message["reasoning"] = y.stack.message["reasoning"]
           /\ a.stack.message["tool"] = w.stack.message["tool"]
           /\ b.stack.message["tool"] = y.stack.message["tool"]
           /\ b.stack.message["environment"] = w.stack.message["environment"]
           /\ \A s \in Slots : /\ w.stack.message[s].id \in 0..Len(w.posts) /\ a.stack.message[s].id \in 0..Len(a.posts)
                               /\ b.stack.message[s].id \in 0..Len(b.posts)
           /\ Len(w.posts) \in Nat /\ Len(a.posts) \in Nat /\ Len(b.posts) \in Nat
  <1>1. Follows(w, a) /\ Sound(a)  BY SlotFollows DEF InTurn, Slots, Follows
  <1>2. Follows(a, b) /\ Sound(b)  BY <1>1, SlotFollows DEF InTurn, Slots, Follows
  <1>3. Follows(b, y) /\ Sound(y)  BY <1>2, SlotFollows DEF InTurn, Slots, Follows
  <1>4. Follows(w, y)  BY <1>1, <1>2, <1>3, FollowsOn DEF InTurn
  <1>5. SameFlags(w.stack, a.stack) /\ SameFlags(w.stack, b.stack) /\ SameFlags(w.stack, y.stack)
    BY DEF InTurn, SlotMoves, SameFlags
  <1>6. \A s \in Slots \ {"reasoning"} : a.stack.message[s] = w.stack.message[s]  BY DEF InTurn, SlotMoves
  <1>7. \A s \in Slots \ {"tool"} : b.stack.message[s] = a.stack.message[s]  BY DEF InTurn, SlotMoves
  <1>8. \A s \in Slots \ {"environment"} : y.stack.message[s] = b.stack.message[s]  BY DEF InTurn, SlotMoves
  <1>9. Sound(w)  BY DEF InTurn
  <1> QED  BY <1>1, <1>2, <1>4, <1>5, <1>6, <1>7, <1>8, <1>9, IdsAre DEF Slots

LEMMA HealthWas ==
    ASSUME NEW w, NEW y, Follows(w, y), ~Disabled(y.stack)
    PROVE  ~Disabled(w.stack)
  BY DEF Follows, Disabled

LEMMA StackTyped ==
    ASSUME NEW w, Sound(w), NEW slot \in Slots
    PROVE  /\ w.stack \in StackRecord
           /\ w.stack.tool \in BOOLEAN /\ w.stack.environment \in BOOLEAN /\ w.stack.approval \in BOOLEAN
           /\ Rendered(w.stack, slot) \in Texts /\ Marked(w.stack, slot) \in BOOLEAN
           /\ w.stack.approval => Rendered(w.stack, "environment") = "prompt" /\ Marked(w.stack, "environment")
  BY DEF Sound, WorldRecord, StackRecord, Rendered, Marked, Texts

\* What an operation makes of a stack: the block stays in order, and a question stays asked.
Good(w, y) ==
    /\ Follows(w, y) /\ SameFlags(w.stack, y.stack) /\ InBlock(y.stack)
    /\ Asks(w.stack) => Asks(y.stack)

LEMMA GoodOn ==
    ASSUME NEW w, Sound(w), NEW x, Good(w, x), NEW y, Good(x, y)
    PROVE  Good(w, y) /\ Sound(x) /\ Sound(y)
  <1>1. Follows(w, y)  BY FollowsOn DEF Good
  <1> QED  BY <1>1 DEF Good, SameFlags, Follows

LEMMA GoodStays ==
    ASSUME NEW w, Sound(w), InBlock(w.stack)
    PROVE  Good(w, w)
  <1>1. Follows(w, w)  BY Stays, SlotFollows DEF Slots
  <1> QED  BY <1>1 DEF Good, SameFlags

\* A slot that is shown when it must be, and closed when it must not.
Ensures(w, x, slot) ==
    LET m == w.stack.message[slot]
        n == x.stack.message[slot]
    IN  ~n.off => IF ~Visible(w.stack, slot) THEN n.id = 0
                  ELSE IF m.id # 0 THEN n = m
                  ELSE n.id = Len(w.posts) + 1 /\ n.text = Rendered(w.stack, slot) /\ n.markup = Marked(w.stack, slot)

LEMMA EnsuredMoves ==
    ASSUME NEW w, Sound(w), NEW slot \in Slots, NEW x \in EnsuredSlot(w, slot)
    PROVE  SlotMoves(w, x, slot) /\ x.stack.atBottom = w.stack.atBottom /\ Ensures(w, x, slot)
  <1>1. CASE ~Visible(w.stack, slot)  BY <1>1, ClosedMoves DEF EnsuredSlot, Ensures
  <1>2. CASE Visible(w.stack, slot) /\ w.stack.message[slot].id # 0
    <2>1. x = w  BY <1>2 DEF EnsuredSlot
    <2> QED  BY <1>2, <2>1, Stays DEF Ensures
  <1>3. CASE Visible(w.stack, slot) /\ w.stack.message[slot].id = 0
    <2>1. x \in Updated(w, slot, Rendered(w.stack, slot), Marked(w.stack, slot))  BY <1>3 DEF EnsuredSlot, Show
    <2> QED  BY <1>3, <2>1, StackTyped, UpdatedMoves DEF Ensures, Retold
  <1> QED  BY <1>1, <1>2, <1>3

LEMMA EnsuredGood ==
    ASSUME NEW w, Sound(w), InBlock(w.stack), NEW y \in Ensured(w)
    PROVE  Good(w, y) /\ Filled(y.stack) /\ y.stack.atBottom = w.stack.atBottom
  <1>a. PICK a \in EnsuredSlot(w, "reasoning") : \E b \in EnsuredSlot(a, "tool") : y \in EnsuredSlot(b, "environment")
    BY EnsuredIs
  <1>1. PICK b \in EnsuredSlot(a, "tool") : y \in EnsuredSlot(b, "environment")  BY <1>a
  <1>2. SlotMoves(w, a, "reasoning") /\ a.stack.atBottom = w.stack.atBottom /\ Ensures(w, a, "reasoning")
    BY EnsuredMoves DEF Slots
  <1>3. Sound(a)  BY <1>2, SlotFollows DEF Slots, Follows
  <1>4. SlotMoves(a, b, "tool") /\ b.stack.atBottom = a.stack.atBottom /\ Ensures(a, b, "tool")
    BY <1>3, EnsuredMoves DEF Slots
  <1>5. Sound(b)  BY <1>3, <1>4, SlotFollows DEF Slots, Follows
  <1>6. SlotMoves(b, y, "environment") /\ y.stack.atBottom = b.stack.atBottom /\ Ensures(b, y, "environment")
    BY <1>1, <1>5, EnsuredMoves DEF Slots
  <1>7. InTurn(w, a, b, y)  BY <1>2, <1>4, <1>6 DEF InTurn
  <1>8. Follows(w, y) /\ SameFlags(w.stack, y.stack)  BY <1>7, InTurnFollows
  <1>9. ASSUME ~Disabled(y.stack)
        PROVE  /\ InPlace(y.stack) /\ \A slot \in Slots : Visible(y.stack, slot) => y.stack.message[slot].id # 0
               /\ Visible(y.stack, "environment") =>
                    \/ y.stack.message["environment"] = w.stack.message["environment"]
                    \/ /\ y.stack.message["environment"].text = Rendered(y.stack, "environment")
                       /\ y.stack.message["environment"].markup = Marked(y.stack, "environment")
    <2>1. InPlace(w.stack) /\ (w.stack.environment \/ w.stack.approval => w.stack.tool)
      BY <1>8, <1>9, HealthWas DEF InBlock
    <2>2. ~y.stack.message["reasoning"].off /\ ~y.stack.message["tool"].off /\ ~y.stack.message["environment"].off
      BY <1>9 DEF Disabled, Slots
    <2> DEFINE r == w.stack.message["reasoning"].id
               t == w.stack.message["tool"].id
               e == w.stack.message["environment"].id
               R == y.stack.message["reasoning"].id
               T == y.stack.message["tool"].id
               E == y.stack.message["environment"].id
    <2>3. /\ r \in 0..Len(w.posts) /\ R \in 0..Len(a.posts) /\ T \in 0..Len(b.posts)
          /\ Len(w.posts) \in Nat /\ Len(a.posts) \in Nat /\ Len(b.posts) \in Nat
          /\ t \in Nat /\ e \in Nat
      BY <1>7, InTurnFollows DEF Slots
    <2>4. IF r # 0 THEN R = r ELSE R = Len(w.posts) + 1
      <3>1. a.stack.message["reasoning"] = y.stack.message["reasoning"]  BY <1>7, InTurnFollows
      <3>2. Visible(w.stack, "reasoning")  BY DEF Visible
      <3> QED  BY <1>2, <2>2, <3>1, <3>2 DEF Ensures
    <2>5. IF ~w.stack.tool THEN T = 0 ELSE IF t # 0 THEN T = t ELSE T = Len(a.posts) + 1
      <3>1. b.stack.message["tool"] = y.stack.message["tool"] /\ a.stack.message["tool"] = w.stack.message["tool"]
        BY <1>7, InTurnFollows
      <3>2. Visible(a.stack, "tool") <=> w.stack.tool  BY <1>7, InTurnFollows DEF Visible, SameFlags
      <3> QED  BY <1>4, <2>2, <3>1, <3>2 DEF Ensures
    <2>6. b.stack.message["environment"] = w.stack.message["environment"]  BY <1>7, InTurnFollows
    <2>7. /\ b.stack.approval = w.stack.approval /\ b.stack.environment = w.stack.environment
          /\ y.stack.approval = w.stack.approval /\ y.stack.environment = w.stack.environment
          /\ y.stack.tool = w.stack.tool
      BY <1>7, InTurnFollows DEF SameFlags
    <2>8. IF ~(w.stack.approval \/ w.stack.environment) THEN E = 0 ELSE IF e # 0 THEN E = e ELSE E = Len(b.posts) + 1
      <3>1. Visible(b.stack, "environment") <=> (w.stack.approval \/ w.stack.environment)  BY <2>7 DEF Visible
      <3> QED  BY <1>6, <2>2, <2>6, <3>1 DEF Ensures
    <2>9. /\ t # 0 => w.stack.tool /\ r # 0 /\ r < t
          /\ e # 0 => t # 0 /\ t < e
      BY <2>1 DEF InPlace
    <2>10. R # 0 /\ (w.stack.tool => T # 0)  BY <2>3, <2>4, <2>5
    <2>11. T # 0 => w.stack.tool /\ R # 0 /\ R < T  BY <2>3, <2>4, <2>5, <2>9
    <2>12. E # 0 => T # 0 /\ T < E
      <3>1. CASE e # 0  BY <2>3, <2>5, <2>8, <2>9, <3>1
      <3>2. CASE e = 0  BY <2>1, <2>3, <2>8, <2>10, <3>2
      <3> QED  BY <3>1, <3>2
    <2>13. InPlace(y.stack)  BY <2>7, <2>11, <2>12 DEF InPlace
    <2>14. Visible(y.stack, "environment") => E # 0  BY <2>3, <2>7, <2>8 DEF Visible
    <2>15. Visible(y.stack, "tool") => T # 0  BY <2>7, <2>10 DEF Visible
    <2>16. ASSUME Visible(y.stack, "environment")
           PROVE  \/ y.stack.message["environment"] = w.stack.message["environment"]
                  \/ /\ y.stack.message["environment"].text = Rendered(y.stack, "environment")
                     /\ y.stack.message["environment"].markup = Marked(y.stack, "environment")
      <3>1. Visible(b.stack, "environment")  BY <2>7, <2>16 DEF Visible
      <3>2. Rendered(b.stack, "environment") = Rendered(y.stack, "environment")
        BY <2>7 DEF Rendered
      <3>3. Marked(b.stack, "environment") = Marked(y.stack, "environment")  BY <2>7 DEF Marked
      <3> QED  BY <1>6, <2>2, <2>6, <3>1, <3>2, <3>3 DEF Ensures
    <2> QED  BY <2>10, <2>13, <2>14, <2>15, <2>16 DEF Slots
  <1>10. InBlock(y.stack)  BY <1>8, <1>9 DEF InBlock, SameFlags
  <1>11. ASSUME Asks(w.stack) PROVE Asks(y.stack)
    <2>1. y.stack.approval  BY <1>8, <1>11 DEF Asks, SameFlags
    <2> SUFFICES ASSUME ~Disabled(y.stack)
                 PROVE  LET m == y.stack.message["environment"] IN m.id # 0 /\ m.text = "prompt" /\ m.markup
      BY <2>1 DEF Asks
    <2>2. ~Disabled(w.stack)  BY <1>8, HealthWas
    <2>3. Visible(y.stack, "environment")  BY <2>1 DEF Visible
    <2>4. y.stack.message["environment"].id # 0  BY <1>9, <2>3 DEF Slots
    <2>5. Rendered(y.stack, "environment") = "prompt" /\ Marked(y.stack, "environment")  BY <2>1 DEF Rendered, Marked
    <2> QED  BY <1>9, <1>11, <2>2, <2>3, <2>4, <2>5 DEF Asks
  <1>12. Filled(y.stack)  BY <1>9 DEF Filled
  <1>13. y.stack.atBottom = w.stack.atBottom  BY <1>2, <1>4, <1>6
  <1> QED  BY <1>8, <1>10, <1>11, <1>12, <1>13 DEF Good

\* A stack that was moved is at the bottom.
LEMMA AtBottom ==
    ASSUME NEW w, Sound(w), NEW x, Follows(w, x)
    PROVE  LET y == [x EXCEPT !.stack.atBottom = TRUE]
           IN  Follows(w, y) /\ y.stack.message = x.stack.message /\ SameFlags(x.stack, y.stack)
  <1> DEFINE y == [x EXCEPT !.stack.atBottom = TRUE]
  <1>1. x \in WorldRecord /\ Known(x.stack, x.posts)  BY DEF Follows, Sound
  <1>2. y \in WorldRecord /\ y.posts = x.posts /\ y.stack.message = x.stack.message /\ SameFlags(x.stack, y.stack)
    BY <1>1 DEF WorldRecord, StackRecord, SameFlags
  <1> HIDE DEF y
  <1>3. Sound(y)  BY <1>1, <1>2 DEF Sound, Known
  <1>4. Ids(y.stack) = Ids(x.stack)  BY <1>2 DEF Ids
  <1>5. Follows(w, y)  BY <1>2, <1>3, <1>4 DEF Follows
  <1> QED  BY <1>2, <1>5 DEF y

LEMMA RepostedGood ==
    ASSUME NEW w, Sound(w), InBlock(w.stack), Filled(w.stack), NEW y \in RepostedAll(w)
    PROVE  Good(w, y) /\ Filled(y.stack)
  <1>1. PICK x \in SlotBySlot(w, Reposted) : y = [x EXCEPT !.stack.atBottom = TRUE]  BY DEF RepostedAll
  <1>2. PICK a \in Reposted(w, "reasoning") : \E b \in Reposted(a, "tool") : x \in Reposted(b, "environment")
    BY RepostedIs
  <1>3. PICK b \in Reposted(a, "tool") : x \in Reposted(b, "environment")  BY <1>2
  <1>4. SlotMoves(w, a, "reasoning") /\ Reshown(w, a, "reasoning")  BY RepostedMoves DEF Slots
  <1>5. Sound(a)  BY <1>4, SlotFollows DEF Slots, Follows
  <1>6. SlotMoves(a, b, "tool") /\ Reshown(a, b, "tool")  BY <1>5, RepostedMoves DEF Slots
  <1>7. Sound(b)  BY <1>5, <1>6, SlotFollows DEF Slots, Follows
  <1>8. SlotMoves(b, x, "environment") /\ Reshown(b, x, "environment")  BY <1>3, <1>7, RepostedMoves DEF Slots
  <1>9. InTurn(w, a, b, x)  BY <1>4, <1>6, <1>8 DEF InTurn
  <1>10. Follows(w, x) /\ SameFlags(w.stack, x.stack)  BY <1>9, InTurnFollows
  <1>11. Follows(w, y) /\ y.stack.message = x.stack.message /\ SameFlags(x.stack, y.stack)  BY <1>1, <1>10, AtBottom
  <1>12. SameFlags(w.stack, y.stack)  BY <1>10, <1>11 DEF SameFlags
  <1>13. ASSUME ~Disabled(y.stack)
         PROVE  /\ InPlace(y.stack)
                /\ \A slot \in Slots : w.stack.message[slot].id # 0 => y.stack.message[slot].id # 0
                /\ y.stack.message["environment"].text = w.stack.message["environment"].text
                /\ y.stack.message["environment"].markup = w.stack.message["environment"].markup
    <2>1. InPlace(w.stack)  BY <1>11, <1>13, HealthWas DEF InBlock
    <2>2. ~x.stack.message["reasoning"].off /\ ~x.stack.message["tool"].off /\ ~x.stack.message["environment"].off
      BY <1>11, <1>13 DEF Disabled, Slots
    <2> DEFINE r == w.stack.message["reasoning"].id
               t == w.stack.message["tool"].id
               e == w.stack.message["environment"].id
               R == y.stack.message["reasoning"].id
               T == y.stack.message["tool"].id
               E == y.stack.message["environment"].id
    <2>3. /\ R \in 0..Len(a.posts) /\ T \in 0..Len(b.posts)
          /\ Len(w.posts) \in Nat /\ Len(a.posts) \in Nat /\ Len(b.posts) \in Nat
      BY <1>9, <1>11, InTurnFollows DEF Slots
    <2>4. R = IF r = 0 THEN 0 ELSE Len(w.posts) + 1
      <3>1. a.stack.message["reasoning"] = x.stack.message["reasoning"]  BY <1>9, InTurnFollows
      <3> QED  BY <1>4, <1>11, <2>2, <3>1 DEF Reshown
    <2>5. T = IF t = 0 THEN 0 ELSE Len(a.posts) + 1
      <3>1. b.stack.message["tool"] = x.stack.message["tool"] /\ a.stack.message["tool"] = w.stack.message["tool"]
        BY <1>9, InTurnFollows
      <3> QED  BY <1>6, <1>11, <2>2, <3>1 DEF Reshown
    <2>6. b.stack.message["environment"] = w.stack.message["environment"]  BY <1>9, InTurnFollows
    <2>7. /\ E = IF e = 0 THEN 0 ELSE Len(b.posts) + 1
          /\ y.stack.message["environment"].text = w.stack.message["environment"].text
          /\ y.stack.message["environment"].markup = w.stack.message["environment"].markup
      BY <1>8, <1>11, <2>2, <2>6 DEF Reshown
    <2>8. (t # 0 => w.stack.tool /\ r # 0) /\ (e # 0 => t # 0)  BY <2>1 DEF InPlace
    <2>9. T # 0 => y.stack.tool /\ R # 0 /\ R < T  BY <1>12, <2>3, <2>4, <2>5, <2>8 DEF SameFlags
    <2>10. E # 0 => T # 0 /\ T < E  BY <2>3, <2>5, <2>7, <2>8
    <2>11. InPlace(y.stack)  BY <2>9, <2>10 DEF InPlace
    <2>12. (r # 0 => R # 0) /\ (t # 0 => T # 0) /\ (e # 0 => E # 0)  BY <2>3, <2>4, <2>5, <2>7
    <2> QED  BY <2>7, <2>11, <2>12 DEF Slots
  <1>14. InBlock(y.stack)  BY <1>12, <1>13 DEF InBlock, SameFlags
  <1>15. Filled(y.stack)
    <2> SUFFICES ASSUME ~Disabled(y.stack), NEW slot \in Slots, Visible(y.stack, slot)
                 PROVE  y.stack.message[slot].id # 0
      BY DEF Filled
    <2>1. ~Disabled(w.stack)  BY <1>11, HealthWas
    <2>2. Visible(w.stack, slot)  BY <1>12 DEF Visible, SameFlags
    <2> QED  BY <1>13, <2>1, <2>2 DEF Filled
  <1>16. ASSUME Asks(w.stack) PROVE Asks(y.stack)
    <2>1. ~Disabled(y.stack) => ~Disabled(w.stack)  BY <1>11, HealthWas
    <2> QED  BY <1>12, <1>13, <1>16, <2>1 DEF Asks, SameFlags, Slots
  <1> QED  BY <1>11, <1>12, <1>14, <1>15, <1>16 DEF Good

LEMMA RefreshedGood ==
    ASSUME NEW w, Sound(w), InBlock(w.stack), NEW y \in SlotBySlot(w, Refreshed)
    PROVE  Good(w, y)
  <1>2. PICK a \in Refreshed(w, "reasoning") : \E b \in Refreshed(a, "tool") : y \in Refreshed(b, "environment")
    BY RefreshedIs
  <1>3. PICK b \in Refreshed(a, "tool") : y \in Refreshed(b, "environment")  BY <1>2
  <1>4. SlotMoves(w, a, "reasoning") /\ Reread(w, a, "reasoning")  BY RefreshedMoves DEF Slots
  <1>5. Sound(a)  BY <1>4, SlotFollows DEF Slots, Follows
  <1>6. SlotMoves(a, b, "tool") /\ Reread(a, b, "tool")  BY <1>5, RefreshedMoves DEF Slots
  <1>7. Sound(b)  BY <1>5, <1>6, SlotFollows DEF Slots, Follows
  <1>8. SlotMoves(b, y, "environment") /\ Reread(b, y, "environment")  BY <1>3, <1>7, RefreshedMoves DEF Slots
  <1>9. InTurn(w, a, b, y)  BY <1>4, <1>6, <1>8 DEF InTurn
  <1>10. Follows(w, y) /\ SameFlags(w.stack, y.stack)  BY <1>9, InTurnFollows
  <1>13. ASSUME ~Disabled(y.stack)
         PROVE  /\ \A slot \in Slots : y.stack.message[slot].id = w.stack.message[slot].id
                /\ y.stack.message["environment"].text = w.stack.message["environment"].text
                /\ y.stack.message["environment"].markup = w.stack.message["environment"].markup
    <2>1. ~y.stack.message["reasoning"].off /\ ~y.stack.message["tool"].off /\ ~y.stack.message["environment"].off
      BY <1>13 DEF Disabled, Slots
    <2>2. y.stack.message["reasoning"].id = w.stack.message["reasoning"].id
      BY <1>4, <1>9, <2>1, InTurnFollows DEF Reread
    <2>3. y.stack.message["tool"].id = w.stack.message["tool"].id
      <3>1. b.stack.message["tool"] = y.stack.message["tool"] /\ a.stack.message["tool"] = w.stack.message["tool"]
        BY <1>9, InTurnFollows
      <3>2. ~b.stack.message["tool"].off  BY <2>1, <3>1
      <3>3. b.stack.message["tool"].id = a.stack.message["tool"].id  BY <1>6, <3>2 DEF Reread
      <3> QED  BY <3>1, <3>3
    <2>4. b.stack.message["environment"] = w.stack.message["environment"]  BY <1>9, InTurnFollows
    <2>5. /\ y.stack.message["environment"].id = w.stack.message["environment"].id
          /\ y.stack.message["environment"].text = w.stack.message["environment"].text
          /\ y.stack.message["environment"].markup = w.stack.message["environment"].markup
      BY <1>8, <2>1, <2>4 DEF Reread
    <2> QED  BY <2>2, <2>3, <2>5 DEF Slots
  <1>14. InBlock(y.stack)
    <2>1. ASSUME ~Disabled(y.stack) PROVE InPlace(y.stack)
      <3>1. InPlace(w.stack)  BY <1>10, <2>1, HealthWas DEF InBlock
      <3> QED  BY <1>10, <1>13, <2>1, <3>1 DEF InPlace, SameFlags, Slots
    <2> QED  BY <1>10, <2>1 DEF InBlock, SameFlags
  <1>16. ASSUME Asks(w.stack) PROVE Asks(y.stack)
    <2>1. ~Disabled(y.stack) => ~Disabled(w.stack)  BY <1>10, HealthWas
    <2> QED  BY <1>10, <1>13, <1>16, <2>1 DEF Asks, SameFlags, Slots
  <1> QED  BY <1>10, <1>14, <1>16 DEF Good

LEMMA ShowsGood ==
    ASSUME NEW w, Sound(w), InBlock(w.stack), Filled(w.stack), NEW slot \in Slots, NEW y \in Shows(w, slot)
    PROVE  Good(w, y) /\ Filled(y.stack) /\ (slot = "environment" /\ w.stack.approval => Asks(y.stack))
  <1>1. CASE ~Visible(w.stack, slot)
    <2>1. y = w  BY <1>1 DEF Shows
    <2>2. ~(slot = "environment" /\ w.stack.approval)  BY <1>1 DEF Visible
    <2> QED  BY <2>1, <2>2, GoodStays
  <1>2. CASE Visible(w.stack, slot)
    <2>1. y \in Updated(w, slot, Rendered(w.stack, slot), Marked(w.stack, slot))  BY <1>2 DEF Shows, Show
    <2>2. SlotMoves(w, y, slot) /\ Retold(w, y, slot, Rendered(w.stack, slot), Marked(w.stack, slot))
      BY <2>1, StackTyped, UpdatedMoves
    <2>3. Follows(w, y)  BY <2>2, SlotFollows
    <2>4. /\ SameFlags(w.stack, y.stack)
          /\ \A s \in Slots \ {slot} : y.stack.message[s] = w.stack.message[s]
      BY <2>2 DEF SlotMoves
    <2>5. ASSUME ~Disabled(y.stack)
          PROVE  /\ \A s \in Slots : y.stack.message[s].id = w.stack.message[s].id
                 /\ y.stack.message[slot].text = Rendered(w.stack, slot)
                 /\ y.stack.message[slot].markup = Marked(w.stack, slot)
                 /\ y.stack.message[slot].id # 0
      <3>1. w.stack.message[slot].id # 0  BY <1>2, <2>3, <2>5, HealthWas DEF Filled
      <3>2. ~y.stack.message[slot].off  BY <2>5 DEF Disabled
      <3> QED  BY <2>2, <2>4, <3>1, <3>2 DEF Retold
    <2>6. ~Disabled(y.stack) => ~Disabled(w.stack)  BY <2>3, HealthWas
    <2>7. InBlock(y.stack)
      <3>1. ASSUME ~Disabled(y.stack) PROVE InPlace(y.stack)
        <4>1. InPlace(w.stack)  BY <2>6, <3>1 DEF InBlock
        <4> QED  BY <2>4, <2>5, <3>1, <4>1 DEF InPlace, SameFlags, Slots
      <3> QED  BY <2>4, <3>1 DEF InBlock, SameFlags
    <2>8. Filled(y.stack)
      <3> SUFFICES ASSUME ~Disabled(y.stack), NEW s \in Slots, Visible(y.stack, s)
                   PROVE  y.stack.message[s].id # 0
        BY DEF Filled
      <3>1. Visible(w.stack, s)  BY <2>4 DEF Visible, SameFlags
      <3> QED  BY <2>5, <2>6, <3>1 DEF Filled
    <2>9. ASSUME slot = "environment", w.stack.approval PROVE Asks(y.stack)
      <3>1. Rendered(w.stack, slot) = "prompt" /\ Marked(w.stack, slot)  BY <2>9 DEF Rendered, Marked
      <3> QED  BY <2>4, <2>5, <2>9, <3>1 DEF Asks, SameFlags
    <2>10. ASSUME Asks(w.stack) PROVE Asks(y.stack)
      <3>1. w.stack.approval  BY <2>10 DEF Asks
      <3>2. CASE slot = "environment"  BY <2>9, <3>1, <3>2
      <3>3. CASE slot # "environment"
        <4>1. y.stack.message["environment"] = w.stack.message["environment"]  BY <2>4, <3>3 DEF Slots
        <4> QED  BY <2>4, <2>6, <2>10, <4>1 DEF Asks, SameFlags
      <3> QED  BY <3>2, <3>3
    <2> QED  BY <2>3, <2>4, <2>7, <2>8, <2>9, <2>10 DEF Good
  <1> QED  BY <1>1, <1>2

LEMMA SlotSetGood ==
    ASSUME NEW w, Sound(w), InBlock(w.stack), NEW slot \in Slots, NEW y \in SlotSet(w, slot)
    PROVE  Good(w, y) /\ (slot = "environment" /\ w.stack.approval => Asks(y.stack))
  <1>1. PICK a \in Ensured(w) : \E b \in (IF a.stack.atBottom THEN {a} ELSE RepostedAll(a)) : y \in Shows(b, slot)
    BY DEF SlotSet, Then
  <1>2. PICK b \in (IF a.stack.atBottom THEN {a} ELSE RepostedAll(a)) : y \in Shows(b, slot)  BY <1>1
  <1>3. Good(w, a) /\ Filled(a.stack)  BY EnsuredGood
  <1>4. Sound(a) /\ InBlock(a.stack)  BY <1>3 DEF Good, Follows
  <1>5. Good(a, b) /\ Filled(b.stack)
    <2>1. CASE b = a  BY <1>3, <1>4, <2>1, GoodStays
    <2>2. CASE b \in RepostedAll(a)  BY <1>3, <1>4, <2>2, RepostedGood
    <2> QED  BY <2>1, <2>2
  <1>6. Sound(b) /\ InBlock(b.stack)  BY <1>5 DEF Good, Follows
  <1>7. Good(b, y) /\ (slot = "environment" /\ b.stack.approval => Asks(y.stack))  BY <1>2, <1>5, <1>6, ShowsGood
  <1>8. Good(w, b)  BY <1>3, <1>5, GoodOn
  <1>9. Good(w, y)  BY <1>7, <1>8, GoodOn
  <1>10. b.stack.approval = w.stack.approval  BY <1>8 DEF Good, SameFlags
  <1> QED  BY <1>7, <1>9, <1>10

LEMMA BroughtGood ==
    ASSUME NEW w, Sound(w), InBlock(w.stack), NEW y \in Brought(w)
    PROVE  Good(w, y)
  <1>1. PICK a \in Ensured(w) : y \in IF a.stack.atBottom THEN SlotBySlot(a, Refreshed) ELSE RepostedAll(a)
    BY DEF Brought, Then
  <1>2. Good(w, a) /\ Filled(a.stack)  BY EnsuredGood
  <1>3. Sound(a) /\ InBlock(a.stack)  BY <1>2 DEF Good, Follows
  <1>4. Good(a, y)
    <2>1. CASE y \in SlotBySlot(a, Refreshed)  BY <1>3, <2>1, RefreshedGood
    <2>2. CASE y \in RepostedAll(a)  BY <1>2, <1>3, <2>2, RepostedGood
    <2> QED  BY <1>1, <2>1, <2>2
  <1> QED  BY <1>2, <1>4, GoodOn

\* What changes the messages may change the flags as well, as long as nothing is left of an environment without a tool.
Fits(w, y) == Follows(w, y) /\ InBlock(y.stack)

LEMMA ShutFits ==
    ASSUME NEW w, Sound(w), InBlock(w.stack), NEW kept \in {{}, {"reasoning"}}, NEW y \in Shut(w, kept)
    PROVE  Fits(w, y) /\ Ended(y.stack)
  <1>1. PICK a \in ShutSlot(w, "reasoning", kept) : \E b \in ShutSlot(a, "tool", kept) :
             y \in ShutSlot(b, "environment", kept)
    BY ShutIs
  <1>2. PICK b \in ShutSlot(a, "tool", kept) : y \in ShutSlot(b, "environment", kept)  BY <1>1
  <1>3. SlotMoves(w, a, "reasoning")
    <2>1. CASE a = w  BY <2>1, Stays DEF Slots
    <2>2. CASE a \in ClosedMessage(w, "reasoning")  BY <2>2, ClosedMoves DEF Slots
    <2> QED  BY <2>1, <2>2 DEF ShutSlot
  <1>4. Sound(a)  BY <1>3, SlotFollows DEF Slots, Follows
  <1>5. b \in ClosedMessage(a, "tool") /\ y \in ClosedMessage(b, "environment")  BY <1>2 DEF ShutSlot
  <1>6. SlotMoves(a, b, "tool") /\ b.stack.message["tool"].id = 0  BY <1>4, <1>5, ClosedMoves DEF Slots
  <1>7. Sound(b)  BY <1>4, <1>6, SlotFollows DEF Slots, Follows
  <1>8. SlotMoves(b, y, "environment") /\ y.stack.message["environment"].id = 0
    BY <1>5, <1>7, ClosedMoves DEF Slots
  <1>9. InTurn(w, a, b, y)  BY <1>3, <1>6, <1>8 DEF InTurn
  <1>10. Follows(w, y) /\ SameFlags(w.stack, y.stack) /\ y.stack.message["tool"].id = 0
    BY <1>6, <1>9, InTurnFollows
  <1>11. InBlock(y.stack)  BY <1>8, <1>10 DEF InBlock, InPlace, SameFlags
  <1> QED  BY <1>8, <1>10, <1>11 DEF Fits, Ended

\* A flag of a stack is set.
Flagged(w, x) == x \in WorldRecord /\ x.posts = w.posts /\ x.stack.message = w.stack.message

LEMMA FlagFits ==
    ASSUME NEW w, Sound(w), NEW x, Flagged(w, x)
    PROVE  Sound(x) /\ \A y : Follows(x, y) => Follows(w, y)
  <1>1. Sound(x)  BY DEF Flagged, Sound, Known
  <1>2. Ids(x.stack) = Ids(w.stack)  BY DEF Flagged, Ids
  <1>3. ASSUME NEW y, Follows(x, y) PROVE Follows(w, y)  BY <1>2, <1>3 DEF Flagged, Follows
  <1> QED  BY <1>1, <1>3

LEMMA ToolSet ==
    ASSUME NEW w, Sound(w), InBlock(w.stack)
    PROVE  LET x == [w EXCEPT !.stack.tool = TRUE]
           IN  Flagged(w, x) /\ InBlock(x.stack) /\ x.stack.tool
  <1> DEFINE x == [w EXCEPT !.stack.tool = TRUE]
  <1>1. w \in WorldRecord /\ w.stack \in StackRecord  BY StackTyped DEF Sound, Slots
  <1>2. Flagged(w, x) /\ x.stack.tool  BY <1>1 DEF Flagged, WorldRecord, StackRecord
  <1> HIDE DEF x
  <1>3. InBlock(x.stack)  BY <1>2 DEF Flagged, InBlock, InPlace, Disabled
  <1> QED  BY <1>2, <1>3 DEF x

LEMMA EnvironmentSet ==
    ASSUME NEW w, Sound(w), InBlock(w.stack), w.stack.tool
    PROVE  LET x == [w EXCEPT !.stack.environment = TRUE]
           IN  /\ Flagged(w, x) /\ InBlock(x.stack) /\ x.stack.tool
               /\ Asks(w.stack) => Asks(x.stack)
  <1> DEFINE x == [w EXCEPT !.stack.environment = TRUE]
  <1>1. w \in WorldRecord /\ w.stack \in StackRecord  BY StackTyped DEF Sound, Slots
  <1>2. Flagged(w, x) /\ x.stack.tool /\ x.stack.approval = w.stack.approval
    BY <1>1 DEF Flagged, WorldRecord, StackRecord
  <1> HIDE DEF x
  <1>3. InBlock(x.stack)  BY <1>2 DEF Flagged, InBlock, InPlace, Disabled
  <1>4. Asks(w.stack) => Asks(x.stack)  BY <1>2 DEF Flagged, Asks, Disabled
  <1> QED  BY <1>2, <1>3, <1>4 DEF x

LEMMA ApprovalSet ==
    ASSUME NEW w, Sound(w), InBlock(w.stack), NEW b \in BOOLEAN, b => w.stack.tool
    PROVE  LET x == [w EXCEPT !.stack.approval = b]
           IN  Flagged(w, x) /\ InBlock(x.stack) /\ x.stack.approval = b
  <1> DEFINE x == [w EXCEPT !.stack.approval = b]
  <1>1. w \in WorldRecord /\ w.stack \in StackRecord  BY StackTyped DEF Sound, Slots
  <1>2. /\ Flagged(w, x) /\ x.stack.tool = w.stack.tool /\ x.stack.approval = b
        /\ x.stack.environment = w.stack.environment
    BY <1>1 DEF Flagged, WorldRecord, StackRecord
  <1> HIDE DEF x
  <1>3. InBlock(x.stack)  BY <1>2 DEF Flagged, InBlock, InPlace, Disabled
  <1> QED  BY <1>2, <1>3 DEF x

LEMMA BottomSet ==
    ASSUME NEW w, Sound(w), InBlock(w.stack)
    PROVE  LET x == [w EXCEPT !.stack.atBottom = FALSE]
           IN  Flagged(w, x) /\ InBlock(x.stack) /\ (Asks(w.stack) => Asks(x.stack))
  <1> DEFINE x == [w EXCEPT !.stack.atBottom = FALSE]
  <1>1. w \in WorldRecord /\ w.stack \in StackRecord  BY StackTyped DEF Sound, Slots
  <1>2. /\ Flagged(w, x) /\ x.stack.tool = w.stack.tool /\ x.stack.approval = w.stack.approval
        /\ x.stack.environment = w.stack.environment
    BY <1>1 DEF Flagged, WorldRecord, StackRecord
  <1> HIDE DEF x
  <1>3. InBlock(x.stack)  BY <1>2 DEF Flagged, InBlock, InPlace, Disabled
  <1>4. Asks(w.stack) => Asks(x.stack)  BY <1>2 DEF Flagged, Asks, Disabled
  <1> QED  BY <1>2, <1>3, <1>4 DEF x

LEMMA ClearedFits ==
    ASSUME NEW w, Sound(w), InBlock(w.stack), NEW y \in ApprovalCleared(w)
    PROVE  Fits(w, y)
  <1> DEFINE x == [w EXCEPT !.stack.approval = FALSE]
  <1>1. Flagged(w, x) /\ InBlock(x.stack)  BY ApprovalSet
  <1>2. PICK a \in Ensured(x) : y \in Shows(a, "environment")  BY DEF ApprovalCleared, Then
  <1> HIDE DEF x
  <1>3. Sound(x)  BY <1>1, FlagFits
  <1>4. Good(x, a) /\ Filled(a.stack)  BY <1>1, <1>2, <1>3, EnsuredGood
  <1>5. Sound(a) /\ InBlock(a.stack)  BY <1>4 DEF Good, Follows
  <1>6. Good(a, y)  BY <1>2, <1>4, <1>5, ShowsGood DEF Slots
  <1>7. Good(x, y)  BY <1>3, <1>4, <1>6, GoodOn
  <1>8. Follows(w, y) /\ InBlock(y.stack)  BY <1>1, <1>7, FlagFits DEF Good
  <1> QED  BY <1>8 DEF Fits

LEMMA FitsOn ==
    ASSUME NEW w, Sound(w), NEW x, Fits(w, x), NEW y, Fits(x, y)
    PROVE  Fits(w, y)
  BY FollowsOn DEF Fits

\* The messages of a tool that begins, and of its terminal or browser.
LEMMA StartedFits ==
    ASSUME NEW w, Sound(w), InBlock(w.stack), NEW x, x = [w EXCEPT !.stack.tool = TRUE],
           NEW y, \/ y \in SlotSet(x, "tool")
                  \/ y \in Then(SlotSet(x, "tool"), LAMBDA z : SlotSet([z EXCEPT !.stack.environment = TRUE], "environment"))
    PROVE  Fits(w, y)
  <1>1. Flagged(w, x) /\ InBlock(x.stack) /\ x.stack.tool  BY ToolSet
  <1>2. Sound(x)  BY <1>1, FlagFits
  <1>3. ASSUME NEW a \in SlotSet(x, "tool")
        PROVE  Fits(w, a) /\ Sound(a) /\ InBlock(a.stack) /\ a.stack.tool
    <2>1. Good(x, a)  BY <1>1, <1>2, SlotSetGood DEF Slots
    <2>2. Follows(x, a) /\ InBlock(a.stack) /\ a.stack.tool = x.stack.tool  BY <2>1 DEF Good, SameFlags
    <2>3. Follows(w, a)  BY <1>1, <2>2, FlagFits
    <2>4. Sound(a)  BY <2>3 DEF Follows
    <2> QED  BY <1>1, <2>2, <2>3, <2>4 DEF Fits
  <1>4. CASE y \in SlotSet(x, "tool")  BY <1>3, <1>4
  <1>5. CASE y \in Then(SlotSet(x, "tool"), LAMBDA z : SlotSet([z EXCEPT !.stack.environment = TRUE], "environment"))
    <2>1. PICK a \in SlotSet(x, "tool") : y \in SlotSet([a EXCEPT !.stack.environment = TRUE], "environment")
      BY <1>5 DEF Then
    <2> DEFINE v == [a EXCEPT !.stack.environment = TRUE]
    <2>2. Fits(w, a) /\ Sound(a) /\ InBlock(a.stack) /\ a.stack.tool  BY <1>3
    <2>3. Flagged(a, v) /\ InBlock(v.stack)  BY <2>2, EnvironmentSet
    <2> HIDE DEF v
    <2>4. Sound(v)  BY <2>2, <2>3, FlagFits
    <2>5. Good(v, y)  BY <2>1, <2>3, <2>4, SlotSetGood DEF Slots, v
    <2>6. Fits(a, y)  BY <2>2, <2>3, <2>5, FlagFits DEF Good, Fits
    <2> QED  BY <2>2, <2>6, FitsOn
  <1> QED  BY <1>4, <1>5

\* Those of a tool that ends.
LEMMA FinishedFits ==
    ASSUME NEW w, Sound(w), InBlock(w.stack), w.stack.tool,
           NEW y, \/ y \in Brought(w)
                  \/ y \in Then(SlotSet([w EXCEPT !.stack.environment = TRUE], "environment"), Brought)
    PROVE  Fits(w, y) /\ (Asks(w.stack) => Asks(y.stack))
  <1>1. CASE y \in Brought(w)  BY <1>1, BroughtGood DEF Good, Fits
  <1>2. CASE y \in Then(SlotSet([w EXCEPT !.stack.environment = TRUE], "environment"), Brought)
    <2> DEFINE x == [w EXCEPT !.stack.environment = TRUE]
    <2>1. PICK a \in SlotSet(x, "environment") : y \in Brought(a)  BY <1>2 DEF Then
    <2>2. Flagged(w, x) /\ InBlock(x.stack) /\ (Asks(w.stack) => Asks(x.stack))  BY EnvironmentSet
    <2> HIDE DEF x
    <2>3. Sound(x)  BY <2>2, FlagFits
    <2>4. Good(x, a)  BY <2>1, <2>2, <2>3, SlotSetGood DEF Slots
    <2>5. Sound(a) /\ InBlock(a.stack)  BY <2>4 DEF Good, Follows
    <2>6. Good(a, y)  BY <2>1, <2>5, BroughtGood
    <2>7. Good(x, y)  BY <2>3, <2>4, <2>6, GoodOn
    <2> QED  BY <2>2, <2>7, FlagFits DEF Good, Fits
  <1> QED  BY <1>1, <1>2

\* Those of the summary of a turn.
LEMMA SummedFits ==
    ASSUME NEW w, Sound(w), InBlock(w.stack),
           NEW y \in Then(Shut(w, {"reasoning"}), LAMBDA x : SlotSet(x, "reasoning"))
    PROVE  Fits(w, y)
  <1>1. PICK x \in Shut(w, {"reasoning"}) : y \in SlotSet(x, "reasoning")  BY DEF Then
  <1>2. Fits(w, x)  BY <1>1, ShutFits
  <1>3. Sound(x) /\ InBlock(x.stack)  BY <1>2 DEF Fits, Follows
  <1>4. Fits(x, y)  BY <1>1, <1>3, SlotSetGood DEF Slots, Good, Fits
  <1> QED  BY <1>2, <1>4, FitsOn

\* A question is asked.
LEMMA AskedFits ==
    ASSUME NEW w, Sound(w), InBlock(w.stack), w.stack.tool,
           NEW y \in SlotSet([w EXCEPT !.stack.approval = TRUE], "environment")
    PROVE  Fits(w, y) /\ Asks(y.stack)
  <1> DEFINE x == [w EXCEPT !.stack.approval = TRUE]
  <1>1. Flagged(w, x) /\ InBlock(x.stack) /\ x.stack.approval  BY ApprovalSet
  <1>2. y \in SlotSet(x, "environment")  OBVIOUS
  <1> HIDE DEF x
  <1>3. Sound(x)  BY <1>1, FlagFits
  <1>4. Good(x, y) /\ Asks(y.stack)  BY <1>1, <1>2, <1>3, SlotSetGood DEF Slots
  <1> QED  BY <1>1, <1>4, FlagFits DEF Good, Fits

\* A turn has its answer.
LEMMA CompletedFits ==
    ASSUME NEW w, Sound(w), InBlock(w.stack),
           NEW y, y \in ApprovalCleared(w) \/ y \in Then(ApprovalCleared(w), Brought)
    PROVE  Fits(w, y)
  <1>1. CASE y \in ApprovalCleared(w)  BY <1>1, ClearedFits
  <1>2. CASE y \in Then(ApprovalCleared(w), Brought)
    <2>1. PICK x \in ApprovalCleared(w) : y \in Brought(x)  BY <1>2 DEF Then
    <2>2. Fits(w, x)  BY ClearedFits
    <2>3. Sound(x) /\ InBlock(x.stack)  BY <2>2 DEF Fits, Follows
    <2>4. Fits(x, y)  BY <2>1, <2>3, BroughtGood DEF Good, Fits
    <2> QED  BY <2>2, <2>4, FitsOn
  <1> QED  BY <1>1, <1>2

-----------------------------------------------------------------------------
(* All stacks *)

LEMMA StackIds ==
    ASSUME NEW S, NEW P, Held(S, P), NEW k \in DOMAIN S, NEW id \in Ids(S[k])
    PROVE  id \in DOMAIN P /\ S[k].message[P[id].slot].id = id /\ P[id].slot \in Slots
  <1>1. PICK slot \in Slots : id = S[k].message[slot].id /\ id # 0  BY DEF Ids
  <1>2. Shown(S[k].message[slot], slot, P)  BY DEF Held, Known
  <1> QED  BY <1>1, <1>2 DEF Shown

LEMMA HeldSeqs ==
    ASSUME NEW S, NEW P, Held(S, P)
    PROVE  /\ Len(S) \in Nat /\ DOMAIN S = 1..Len(S) /\ Len(P) \in Nat /\ DOMAIN P = 1..Len(P)
           /\ \A k \in DOMAIN S : S[k] \in StackRecord
  BY LenProperties, ElementOfSeq DEF Held

LEMMA HeldWorld ==
    ASSUME NEW S, NEW P, Held(S, P), NEW k \in DOMAIN S, NEW w, w.stack = S[k], w.posts = P,
           w = [stack |-> w.stack, posts |-> w.posts, faults |-> w.faults], w.faults \in Nat
    PROVE  Sound(w) /\ InBlock(w.stack)
  <1>1. w.stack \in StackRecord /\ w.posts \in Seq(PostRecord)  BY HeldSeqs DEF Held
  <1>2. w \in WorldRecord  BY <1>1 DEF WorldRecord
  <1> QED  BY <1>2 DEF Held, Sound

\* One stack goes on, and all stay as they should be.
LEMMA Becoming ==
    ASSUME NEW S, NEW P, Held(S, P), NEW k \in DOMAIN S, NEW w, w.stack = S[k], w.posts = P, NEW y, Fits(w, y)
    PROVE  Held([S EXCEPT ![k] = y.stack], y.posts)
  <1> DEFINE T == [S EXCEPT ![k] = y.stack]
  <1>1. /\ Len(S) \in Nat /\ DOMAIN S = 1..Len(S) /\ Len(P) \in Nat /\ DOMAIN P = 1..Len(P)
        /\ S \in Seq(StackRecord) /\ P \in Seq(PostRecord)
    BY HeldSeqs DEF Held
  <1>2. y.stack \in StackRecord /\ y.posts \in Seq(PostRecord) /\ Known(y.stack, y.posts) /\ InBlock(y.stack)
    BY DEF Fits, Follows, Sound, WorldRecord
  <1>3. T \in Seq(StackRecord) /\ DOMAIN T = DOMAIN S /\ T[k] = y.stack /\ \A l \in DOMAIN S : l # k => T[l] = S[l]
    BY <1>1, <1>2, ExceptSeq
  <1>4. Len(y.posts) \in Nat /\ DOMAIN y.posts = 1..Len(y.posts) /\ Len(P) <= Len(y.posts)
    BY <1>2, LenProperties DEF Fits, Follows
  <1> HIDE DEF T
  <1>5. ASSUME NEW l \in DOMAIN S, l # k, NEW id \in Ids(S[l])
        PROVE  id \in DOMAIN P /\ id \in DOMAIN y.posts /\ y.posts[id] = P[id] /\ id \notin Ids(y.stack)
    <2>1. id \in DOMAIN P  BY StackIds
    <2>2. id \notin Ids(S[k])  BY <1>5 DEF Held
    <2>3. y.posts[id] = P[id]  BY <2>1, <2>2 DEF Fits, Follows
    <2>4. id \notin Ids(y.stack)
      <3>1. ~(id > Len(P))  BY <1>1, <2>1
      <3> QED  BY <2>2, <3>1 DEF Fits, Follows
    <2> QED  BY <1>1, <1>4, <2>1, <2>3, <2>4
  <1>6. ASSUME NEW l \in DOMAIN S PROVE Known(T[l], y.posts) /\ InBlock(T[l])
    <2>1. CASE l = k  BY <1>2, <1>3, <2>1
    <2>2. CASE l # k
      <3>1. Known(S[l], P) /\ InBlock(S[l])  BY DEF Held
      <3>2. ASSUME NEW slot \in Slots PROVE Shown(S[l].message[slot], slot, y.posts)
        <4>1. Shown(S[l].message[slot], slot, P)  BY <3>1 DEF Known
        <4>2. S[l].message[slot].id # 0 => S[l].message[slot].id \in Ids(S[l])  BY DEF Ids
        <4> QED  BY <1>5, <2>2, <4>1, <4>2 DEF Shown
      <3> QED  BY <1>3, <2>2, <3>1, <3>2 DEF Known
    <2> QED  BY <2>1, <2>2
  <1>7. ASSUME NEW l \in DOMAIN S, NEW m \in DOMAIN S, Ids(T[l]) \cap Ids(T[m]) # {} PROVE l = m
    <2> SUFFICES ASSUME l # m PROVE FALSE
      OBVIOUS
    <2>1. PICK id : id \in Ids(T[l]) /\ id \in Ids(T[m])  BY <1>7
    <2>2. CASE l = k  BY <1>3, <1>5, <2>1, <2>2
    <2>3. CASE m = k  BY <1>3, <1>5, <2>1, <2>3
    <2>4. CASE l # k /\ m # k  BY <1>3, <2>1, <2>4 DEF Held
    <2> QED  BY <2>2, <2>3, <2>4
  <1>8. ASSUME NEW id \in DOMAIN y.posts
        PROVE  y.posts[id].gone \/ y.posts[id].lost \/ \E l \in DOMAIN S : id \in Ids(T[l])
    <2>1. CASE id \in Ids(S[k]) \/ id > Len(P)
      <3>1. id \in Ids(y.stack) \/ y.posts[id].gone \/ y.posts[id].lost  BY <2>1 DEF Fits, Follows
      <3> QED  BY <1>3, <3>1
    <2>2. CASE id \notin Ids(S[k]) /\ ~(id > Len(P))
      <3>1. id \in DOMAIN P  BY <1>1, <1>4, <2>2
      <3>2. y.posts[id] = P[id]  BY <2>2, <3>1 DEF Fits, Follows
      <3>3. P[id].gone \/ P[id].lost \/ \E l \in DOMAIN S : id \in Ids(S[l])  BY <3>1 DEF Held
      <3> QED  BY <1>3, <2>2, <3>2, <3>3
    <2> QED  BY <2>1, <2>2
  <1>9. Held(T, y.posts)  BY <1>2, <1>3, <1>6, <1>7, <1>8 DEF Held
  <1> QED  BY <1>9 DEF T

LEMMA NewStackIs == NewStack \in StackRecord /\ Ids(NewStack) = {} /\ InBlock(NewStack) /\ Ended(NewStack)
  BY DEF NewStack, NoMessage, StackRecord, MessageRecord, Texts, Slots, Ids, InBlock, InPlace, Disabled, Ended

LEMMA Appearing ==
    ASSUME NEW S, NEW P, Held(S, P)
    PROVE  Held(Append(S, NewStack), P)
  <1> DEFINE T == Append(S, NewStack)
  <1>1. Len(S) \in Nat /\ DOMAIN S = 1..Len(S) /\ S \in Seq(StackRecord) /\ P \in Seq(PostRecord)
    BY HeldSeqs DEF Held
  <1>2. /\ T \in Seq(StackRecord) /\ DOMAIN T = 1..(Len(S) + 1) /\ T[Len(S) + 1] = NewStack
        /\ \A l \in DOMAIN S : T[l] = S[l]
    BY <1>1, NewStackIs
  <1> HIDE DEF T
  <1>3. Known(NewStack, P)  BY DEF Known, Shown, NewStack, NoMessage
  <1>4. \A l \in DOMAIN T : l \in DOMAIN S \/ l = Len(S) + 1  BY <1>1, <1>2
  <1>5. DOMAIN S \subseteq DOMAIN T  BY <1>1, <1>2
  <1>6. \A l \in DOMAIN T : Known(T[l], P) /\ InBlock(T[l])  BY <1>2, <1>3, <1>4, NewStackIs DEF Held
  <1>7. \A l, m \in DOMAIN T : Ids(T[l]) \cap Ids(T[m]) # {} => l = m  BY <1>2, <1>4, NewStackIs DEF Held
  <1>8. \A id \in DOMAIN P : P[id].gone \/ P[id].lost \/ \E l \in DOMAIN T : id \in Ids(T[l])
    BY <1>2, <1>5 DEF Held
  <1>9. Held(T, P)  BY <1>1, <1>2, <1>6, <1>7, <1>8 DEF Held
  <1> QED  BY <1>9 DEF T

-----------------------------------------------------------------------------
(* The steps *)

LEMMA StacksAre ==
    ASSUME StatusInv
    PROVE  /\ Len(stacks) \in Nat /\ DOMAIN stacks = 1..Len(stacks) /\ faults \in Nat
           /\ \A k \in DOMAIN stacks : /\ Sound(World(k)) /\ InBlock(World(k).stack)
                                       /\ World(k).stack = stacks[k] /\ World(k).posts = posts
  <1>1. Held(stacks, posts) /\ faults \in Nat  BY DEF StatusInv, TurnsHeld
  <1>2. Len(stacks) \in Nat /\ DOMAIN stacks = 1..Len(stacks)  BY <1>1, HeldSeqs
  <1>3. ASSUME NEW k \in DOMAIN stacks
        PROVE  /\ Sound(World(k)) /\ InBlock(World(k).stack)
               /\ World(k).stack = stacks[k] /\ World(k).posts = posts
    <2> DEFINE w == World(k)
    <2>1. w.stack = stacks[k] /\ w.posts = posts /\ w.faults = faults
          /\ w = [stack |-> w.stack, posts |-> w.posts, faults |-> w.faults]
      BY DEF World
    <2> HIDE DEF w
    <2>2. Sound(w) /\ InBlock(w.stack)  BY <1>1, <2>1, HeldWorld
    <2> QED  BY <2>1, <2>2 DEF w
  <1> QED  BY <1>1, <1>2, <1>3

\* What remains when one stack went on.
OneWent(k, y) ==
    /\ Held(stacks', posts') /\ faults' \in Nat
    /\ Len(stacks') = Len(stacks) /\ DOMAIN stacks' = DOMAIN stacks
    /\ stacks'[k] = y.stack /\ \A l \in DOMAIN stacks : l # k => stacks'[l] = stacks[l]

LEMMA OneGoes ==
    ASSUME StatusInv, NEW k \in DOMAIN stacks, NEW y, Fits(World(k), y),
           stacks' = [stacks EXCEPT ![k] = y.stack], posts' = y.posts, faults' = y.faults
    PROVE  OneWent(k, y)
  <1>1. World(k).stack = stacks[k] /\ World(k).posts = posts  BY StacksAre
  <1>2. Held(stacks, posts)  BY DEF StatusInv
  <1>3. Held(stacks', posts')  BY <1>1, <1>2, Becoming
  <1>4. y.faults \in Nat  BY DEF Fits, Follows, Sound, WorldRecord
  <1>5. Len(stacks) \in Nat /\ DOMAIN stacks = 1..Len(stacks)  BY StacksAre
  <1>6. Len(stacks') \in Nat /\ DOMAIN stacks' = 1..Len(stacks')  BY <1>3, HeldSeqs
  <1>7. DOMAIN stacks' = DOMAIN stacks /\ stacks'[k] = y.stack /\ \A l \in DOMAIN stacks : l # k => stacks'[l] = stacks[l]
    OBVIOUS
  <1>8. Len(stacks') = Len(stacks)  BY <1>5, <1>6, <1>7
  <1> QED  BY <1>3, <1>4, <1>7, <1>8 DEF OneWent

\* A stack in use goes on and nothing else changes.
LEMMA StackGoes ==
    ASSUME StatusInv, NEW k \in DOMAIN stacks, InUse(k), NEW y, Fits(World(k), y),
           prompt.stack = 0 \/ (Asks(stacks[k]) => Asks(y.stack)),
           stacks' = [stacks EXCEPT ![k] = y.stack], posts' = y.posts, faults' = y.faults,
           UNCHANGED <<current, controller, chatTurn, refresh, prompt, revived>>
    PROVE  StatusInv'
  <1>1. OneWent(k, y)  BY OneGoes
  <1>2. TurnsHeld'  BY <1>1 DEF StatusInv, TurnsHeld, OneWent
  <1>3. Asked'
    <2> SUFFICES ASSUME prompt.stack # 0 PROVE Asked'
      BY DEF Asked
    <2>1. PICK t \in Turns : chatTurn[t].at = "engine" /\ chatTurn[t].stack = prompt.stack  BY DEF StatusInv, Asked
    <2>2. prompt.stack \in DOMAIN stacks  BY <2>1 DEF StatusInv, TurnsHeld
    <2>3. prompt.disturbed \/ Asks(stacks[prompt.stack])  BY DEF StatusInv, Asked
    <2>4. prompt.disturbed \/ Asks(stacks'[prompt.stack])
      <3>1. CASE prompt.stack = k  BY <1>1, <2>3, <3>1 DEF OneWent
      <3>2. CASE prompt.stack # k
        <4>1. stacks'[prompt.stack] = stacks[prompt.stack]  BY <1>1, <2>2, <3>2 DEF OneWent
        <4> QED  BY <2>3, <4>1
      <3> QED  BY <3>1, <3>2
    <2> QED  BY <2>1, <2>4 DEF Asked
  <1>4. Unused'
    <2> SUFFICES ASSUME NEW l \in DOMAIN stacks' PROVE InUse(l)' \/ l \in revived' \/ Ended(stacks'[l])
      BY DEF Unused
    <2>1. l \in DOMAIN stacks  BY <1>1 DEF OneWent
    <2>2. CASE l = k  BY <2>2 DEF InUse
    <2>3. CASE l # k
      <3>1. stacks'[l] = stacks[l]  BY <1>1, <2>1, <2>3 DEF OneWent
      <3>2. InUse(l) \/ l \in revived \/ Ended(stacks[l])  BY <2>1 DEF StatusInv, Unused
      <3> QED  BY <3>1, <3>2 DEF InUse
    <2> QED  BY <2>2, <2>3
  <1> QED  BY <1>1, <1>2, <1>3, <1>4 DEF StatusInv, OneWent

LEMMA EngineStack ==
    ASSUME StatusInv, NEW t \in Turns, chatTurn[t].at \in {"engine", "answer", "deliver"}
    PROVE  /\ StackOf(t) \in DOMAIN stacks /\ InUse(StackOf(t))
           /\ Sound(World(StackOf(t))) /\ InBlock(World(StackOf(t)).stack)
           /\ World(StackOf(t)).stack = stacks[StackOf(t)] /\ World(StackOf(t)).posts = posts
  <1>1. StackOf(t) \in DOMAIN stacks  BY DEF StatusInv, TurnsHeld, StackOf
  <1>2. InUse(StackOf(t))  BY DEF InUse, StackOf
  <1> QED  BY <1>1, <1>2, StacksAre

LEMMA ReasoningStep == ASSUME StatusInv, NEW t \in Turns, ReasoningShown(t) PROVE StatusInv'
  <1> DEFINE k == StackOf(t)
  <1>1. chatTurn[t].at = "engine" /\ Becomes(k, SlotSet(World(k), "reasoning"))
        /\ UNCHANGED <<current, controller, chatTurn, refresh, prompt, revived>>
    BY DEF ReasoningShown, InEngine, Same
  <1>2. k \in DOMAIN stacks /\ InUse(k) /\ Sound(World(k)) /\ InBlock(World(k).stack) /\ World(k).stack = stacks[k]
    BY <1>1, EngineStack
  <1> HIDE DEF k
  <1>3. PICK y \in SlotSet(World(k), "reasoning") :
            stacks' = [stacks EXCEPT ![k] = y.stack] /\ posts' = y.posts /\ faults' = y.faults
    BY <1>1 DEF Becomes
  <1>4. Good(World(k), y)  BY <1>2, SlotSetGood DEF Slots
  <1>5. Fits(World(k), y) /\ (Asks(stacks[k]) => Asks(y.stack))  BY <1>2, <1>4 DEF Good, Fits
  <1> QED  BY <1>1, <1>2, <1>3, <1>5, StackGoes

LEMMA StartedStep == ASSUME StatusInv, NEW t \in Turns, ToolStarted(t) PROVE StatusInv'
  <1> DEFINE k == StackOf(t)
             x == [World(k) EXCEPT !.stack.tool = TRUE]
  <1>1. /\ chatTurn[t].at = "engine" /\ prompt.stack = 0
        /\ UNCHANGED <<current, controller, chatTurn, refresh, prompt, revived>>
    BY DEF ToolStarted, InEngine, Same
  <1>2. k \in DOMAIN stacks /\ InUse(k) /\ Sound(World(k)) /\ InBlock(World(k).stack)
    BY <1>1, EngineStack
  <1>3. PICK environment \in BOOLEAN :
            Becomes(k, IF environment
                       THEN Then(SlotSet(x, "tool"), LAMBDA z : SlotSet([z EXCEPT !.stack.environment = TRUE], "environment"))
                       ELSE SlotSet(x, "tool"))
    BY DEF ToolStarted
  <1>4. \E y : /\ \/ y \in SlotSet(x, "tool")
                  \/ y \in Then(SlotSet(x, "tool"), LAMBDA z : SlotSet([z EXCEPT !.stack.environment = TRUE], "environment"))
               /\ stacks' = [stacks EXCEPT ![k] = y.stack] /\ posts' = y.posts /\ faults' = y.faults
    BY <1>3 DEF Becomes
  <1>5. PICK y : /\ \/ y \in SlotSet(x, "tool")
                    \/ y \in Then(SlotSet(x, "tool"), LAMBDA z : SlotSet([z EXCEPT !.stack.environment = TRUE], "environment"))
                 /\ stacks' = [stacks EXCEPT ![k] = y.stack] /\ posts' = y.posts /\ faults' = y.faults
    BY <1>4
  <1>6. Fits(World(k), y)  BY <1>2, <1>5, StartedFits
  <1> HIDE DEF k, x
  <1> QED  BY <1>1, <1>2, <1>5, <1>6, StackGoes

LEMMA FinishedStep == ASSUME StatusInv, NEW t \in Turns, ToolFinished(t) PROVE StatusInv'
  <1> DEFINE k == StackOf(t)
  <1>1. /\ chatTurn[t].at = "engine" /\ World(k).stack.tool
        /\ UNCHANGED <<current, controller, chatTurn, refresh, prompt, revived>>
    BY DEF ToolFinished, InEngine, Same
  <1>2. k \in DOMAIN stacks /\ InUse(k) /\ Sound(World(k)) /\ InBlock(World(k).stack) /\ World(k).stack = stacks[k]
    BY <1>1, EngineStack
  <1>3. PICK browser \in BOOLEAN :
            Becomes(k, IF browser
                       THEN Then(SlotSet([World(k) EXCEPT !.stack.environment = TRUE], "environment"), Brought)
                       ELSE Brought(World(k)))
    BY DEF ToolFinished
  <1>5. PICK y : /\ \/ y \in Brought(World(k))
                    \/ y \in Then(SlotSet([World(k) EXCEPT !.stack.environment = TRUE], "environment"), Brought)
                 /\ stacks' = [stacks EXCEPT ![k] = y.stack] /\ posts' = y.posts /\ faults' = y.faults
    BY <1>3 DEF Becomes
  <1>6. Fits(World(k), y) /\ (Asks(stacks[k]) => Asks(y.stack))  BY <1>1, <1>2, <1>5, FinishedFits
  <1> HIDE DEF k
  <1> QED  BY <1>1, <1>2, <1>5, <1>6, StackGoes

LEMMA UnusedOn ==
    ASSUME StatusInv, NEW k \in DOMAIN stacks, NEW y, OneWent(k, y),
           InUse(k)' \/ k \in revived' \/ Ended(y.stack),
           \A l \in DOMAIN stacks : l # k /\ (InUse(l) \/ l \in revived) => InUse(l)' \/ l \in revived'
    PROVE  Unused'
  <1> SUFFICES ASSUME NEW l \in DOMAIN stacks' PROVE InUse(l)' \/ l \in revived' \/ Ended(stacks'[l])
    BY DEF Unused
  <1>1. l \in DOMAIN stacks  BY DEF OneWent
  <1>2. CASE l = k  BY <1>2 DEF OneWent
  <1>3. CASE l # k
    <2>1. stacks'[l] = stacks[l]  BY <1>1, <1>3 DEF OneWent
    <2>2. InUse(l) \/ l \in revived \/ Ended(stacks[l])  BY <1>1 DEF StatusInv, Unused
    <2> QED  BY <1>1, <1>3, <2>1, <2>2
  <1> QED  BY <1>2, <1>3

LEMMA SummedStep == ASSUME StatusInv, NEW t \in Turns, TurnSummed(t) PROVE StatusInv'
  <1> DEFINE k == StackOf(t)
  <1>1. /\ chatTurn[t].at = "engine" /\ prompt.stack = 0 /\ chatTurn' = [chatTurn EXCEPT ![t].summed = TRUE]
        /\ UNCHANGED <<current, controller, refresh, prompt, revived>>
    BY DEF TurnSummed, InEngine
  <1>2. k \in DOMAIN stacks /\ InUse(k) /\ Sound(World(k)) /\ InBlock(World(k).stack)
    BY <1>1, EngineStack
  <1>3. PICK y \in Then(Shut(World(k), {"reasoning"}), LAMBDA x : SlotSet(x, "reasoning")) :
            stacks' = [stacks EXCEPT ![k] = y.stack] /\ posts' = y.posts /\ faults' = y.faults
    BY DEF TurnSummed, Becomes
  <1>4. Fits(World(k), y)  BY <1>2, <1>3, SummedFits
  <1> HIDE DEF k
  <1>5. OneWent(k, y)  BY <1>2, <1>3, <1>4, OneGoes
  <1>6. chatTurn \in [Turns -> TurnRecord]  BY DEF StatusInv, TurnsHeld
  <1>7. /\ chatTurn' \in [Turns -> TurnRecord]
        /\ \A u \in Turns : chatTurn'[u].at = chatTurn[u].at /\ chatTurn'[u].stack = chatTurn[u].stack
    BY <1>1, <1>6 DEF TurnRecord
  <1>8. TurnsHeld'  BY <1>1, <1>5, <1>7 DEF StatusInv, TurnsHeld, OneWent
  <1>9. Asked'  BY <1>1 DEF Asked
  <1>10. \A l \in DOMAIN stacks : InUse(l) => InUse(l)'  BY <1>1, <1>7 DEF InUse
  <1>11. Unused'  BY <1>1, <1>2, <1>5, <1>10, UnusedOn
  <1> QED  BY <1>5, <1>8, <1>9, <1>11 DEF StatusInv, OneWent

LEMMA QuestionStep == ASSUME StatusInv, NEW t \in Turns, ApprovalAsked(t) PROVE StatusInv'
  <1> DEFINE k == controller
  <1>1. /\ chatTurn[t].at = "engine" /\ prompt.stack = 0 /\ stacks[StackOf(t)].tool /\ controller # 0
        /\ UNCHANGED <<current, controller, chatTurn, refresh, revived>>
    BY DEF ApprovalAsked, InEngine
  <1>2. k = StackOf(t)  BY <1>1 DEF StatusInv, TurnsHeld, StackOf
  <1>3. k \in DOMAIN stacks /\ InUse(k) /\ Sound(World(k)) /\ InBlock(World(k).stack) /\ World(k).stack = stacks[k]
    BY <1>1, <1>2, EngineStack
  <1>4. PICK y \in SlotSet([World(k) EXCEPT !.stack.approval = TRUE], "environment") :
            /\ stacks' = [stacks EXCEPT ![k] = y.stack] /\ posts' = y.posts /\ faults' = y.faults
            /\ prompt' = IF Disabled(y.stack) THEN prompt ELSE [stack |-> k, disturbed |-> FALSE]
    BY DEF ApprovalAsked
  <1>5. Fits(World(k), y) /\ Asks(y.stack)  BY <1>1, <1>2, <1>3, <1>4, AskedFits
  <1>6. OneWent(k, y)
    <2> HIDE DEF k
    <2> QED  BY <1>3, <1>4, <1>5, OneGoes
  <1>7. k \in Nat  BY DEF StatusInv, TurnsHeld
  <1>8. TurnsHeld'  BY <1>1, <1>4, <1>6, <1>7 DEF StatusInv, TurnsHeld, OneWent
  <1>9. Asked'
    <2>1. chatTurn'[t].at = "engine" /\ chatTurn'[t].stack = k  BY <1>1, <1>2 DEF StackOf
    <2>2. Asks(stacks'[k])  BY <1>5, <1>6 DEF OneWent
    <2>3. prompt'.stack = 0 \/ prompt'.stack = k  BY <1>1, <1>4
    <2> QED  BY <2>1, <2>2, <2>3 DEF Asked
  <1>10. \A l \in DOMAIN stacks : InUse(l) => InUse(l)'  BY <1>1 DEF InUse
  <1>11. Unused'  BY <1>1, <1>3, <1>6, <1>10, UnusedOn
  <1> QED  BY <1>6, <1>8, <1>9, <1>11 DEF StatusInv, OneWent

LEMMA OverStep == ASSUME StatusInv, ApprovalOver PROVE StatusInv'
  <1> DEFINE k == prompt.stack
  <1>1. /\ prompt.stack # 0 /\ prompt' = [stack |-> 0, disturbed |-> FALSE]
        /\ UNCHANGED <<current, controller, chatTurn, refresh, revived>>
    BY DEF ApprovalOver
  <1>2. PICK t \in Turns : chatTurn[t].at = "engine" /\ chatTurn[t].stack = k  BY <1>1 DEF StatusInv, Asked
  <1>3. k \in DOMAIN stacks /\ InUse(k) /\ Sound(World(k)) /\ InBlock(World(k).stack)
    BY <1>2, EngineStack DEF StackOf
  <1>4. PICK y \in ApprovalCleared(World(k)) :
            stacks' = [stacks EXCEPT ![k] = y.stack] /\ posts' = y.posts /\ faults' = y.faults
    BY DEF ApprovalOver, Becomes
  <1>5. Fits(World(k), y)  BY <1>3, <1>4, ClearedFits
  <1>6. OneWent(k, y)
    <2> HIDE DEF k
    <2> QED  BY <1>3, <1>4, <1>5, OneGoes
  <1>8. TurnsHeld'  BY <1>1, <1>6 DEF StatusInv, TurnsHeld, OneWent
  <1>9. Asked'  BY <1>1 DEF Asked
  <1>10. \A l \in DOMAIN stacks : InUse(l) => InUse(l)'  BY <1>1 DEF InUse
  <1>11. Unused'
    <2> HIDE DEF k
    <2> QED  BY <1>1, <1>3, <1>6, <1>10, UnusedOn
  <1> QED  BY <1>6, <1>8, <1>9, <1>11 DEF StatusInv, OneWent

LEMMA EndsStep == ASSUME StatusInv, NEW t \in Turns, EngineEnds(t) PROVE StatusInv'
  <1>1. /\ chatTurn[t].at = "engine" /\ prompt.stack = 0 /\ chatTurn' = [chatTurn EXCEPT ![t].at = "answer"]
        /\ controller' = (IF controller = StackOf(t) THEN 0 ELSE controller)
        /\ UNCHANGED <<stacks, posts, faults, current, refresh, prompt, revived>>
    BY DEF EngineEnds
  <1>2. chatTurn \in [Turns -> TurnRecord] /\ Len(stacks) \in Nat /\ controller \in 0..Len(stacks)
    BY StacksAre DEF StatusInv, TurnsHeld
  <1>3. /\ chatTurn' \in [Turns -> TurnRecord] /\ chatTurn'[t].at = "answer" /\ chatTurn'[t].stack = chatTurn[t].stack
        /\ \A u \in Turns : u # t => chatTurn'[u] = chatTurn[u]
    BY <1>1, <1>2 DEF TurnRecord
  <1>4. controller' \in 0..Len(stacks)  BY <1>1, <1>2
  <1>5. \A u \in Turns : chatTurn'[u].at # "engine"  BY <1>1, <1>3 DEF StatusInv, TurnsHeld
  <1>6. \A u \in Turns : chatTurn'[u].at # "none" => chatTurn'[u].stack \in DOMAIN stacks
    BY <1>1, <1>3 DEF StatusInv, TurnsHeld
  <1>7. TurnsHeld'  BY <1>1, <1>3, <1>4, <1>5, <1>6 DEF StatusInv, TurnsHeld
  <1>8. Asked'  BY <1>1 DEF Asked
  <1>9. \A l : InUse(l) => InUse(l)'
    <2> SUFFICES ASSUME NEW l, InUse(l) PROVE InUse(l)'
      OBVIOUS
    <2>1. CASE l = current  BY <1>1, <2>1 DEF InUse
    <2>2. CASE l # current
      <3>1. PICK u \in Turns : chatTurn[u].stack = l /\ chatTurn[u].at \in {"engine", "answer", "deliver"}
        BY <2>2 DEF InUse
      <3>2. chatTurn'[u].stack = l /\ chatTurn'[u].at \in {"engine", "answer", "deliver"}  BY <1>3, <3>1
      <3> QED  BY <3>2 DEF InUse
    <2> QED  BY <2>1, <2>2
  <1>10. Unused'  BY <1>1, <1>9 DEF StatusInv, Unused
  <1> QED  BY <1>1, <1>7, <1>8, <1>10 DEF StatusInv

\* What a turn does to a question of the next one in the stack that it ends: it is said to be disturbed.
LEMMA AskedUnless ==
    ASSUME StatusInv, NEW t \in Turns, NEW k \in DOMAIN stacks, k = StackOf(t), NEW y, OneWent(k, y),
           prompt' = Disturbed(t), \A u \in Turns : chatTurn[u].at = "engine" => chatTurn'[u] = chatTurn[u]
    PROVE  Asked' /\ prompt' \in [stack : Nat, disturbed : BOOLEAN]
  <1>1. prompt \in [stack : Nat, disturbed : BOOLEAN]  BY DEF StatusInv, TurnsHeld
  <1>2. /\ prompt'.stack = prompt.stack /\ prompt' \in [stack : Nat, disturbed : BOOLEAN]
        /\ prompt'.disturbed <=> (prompt.disturbed \/ prompt.stack = k)
    BY <1>1 DEF Disturbed
  <1>3. ASSUME prompt.stack # 0 PROVE Asked'
    <2>1. PICK u \in Turns : chatTurn[u].at = "engine" /\ chatTurn[u].stack = prompt.stack
      BY <1>3 DEF StatusInv, Asked
    <2>2. prompt.stack \in DOMAIN stacks  BY <2>1 DEF StatusInv, TurnsHeld
    <2>3. prompt.disturbed \/ Asks(stacks[prompt.stack])  BY <1>3 DEF StatusInv, Asked
    <2>4. prompt'.disturbed \/ Asks(stacks'[prompt'.stack])
      <3>1. CASE prompt.stack = k  BY <1>2, <3>1
      <3>2. CASE prompt.stack # k
        <4>1. stacks'[prompt.stack] = stacks[prompt.stack]  BY <2>2, <3>2 DEF OneWent
        <4> QED  BY <1>2, <2>3, <4>1
      <3> QED  BY <3>1, <3>2
    <2>5. chatTurn'[u].at = "engine" /\ chatTurn'[u].stack = prompt'.stack  BY <1>2, <2>1
    <2> QED  BY <2>4, <2>5 DEF Asked
  <1>4. CASE prompt.stack = 0  BY <1>2, <1>4 DEF Asked
  <1> QED  BY <1>2, <1>3, <1>4

LEMMA CompletedStep == ASSUME StatusInv, NEW t \in Turns, StatusCompleted(t) PROVE StatusInv'
  <1> DEFINE k == StackOf(t)
  <1>1. chatTurn[t].at = "answer" /\ prompt' = Disturbed(t) /\ UNCHANGED <<current, controller, refresh, revived>>
    BY DEF StatusCompleted
  <1>2. k \in DOMAIN stacks /\ InUse(k) /\ Sound(World(k)) /\ InBlock(World(k).stack)
    BY <1>1, EngineStack
  <1>3. PICK silent \in BOOLEAN :
          /\ Becomes(k, IF silent THEN ApprovalCleared(World(k)) ELSE Then(ApprovalCleared(World(k)), Brought))
          /\ chatTurn' = [chatTurn EXCEPT ![t] = [@ EXCEPT !.at = "deliver", !.summed = chatTurn[t].summed /\ ~silent]]
    BY DEF StatusCompleted
  <1>4. PICK y : /\ y \in ApprovalCleared(World(k)) \/ y \in Then(ApprovalCleared(World(k)), Brought)
                 /\ stacks' = [stacks EXCEPT ![k] = y.stack] /\ posts' = y.posts /\ faults' = y.faults
    BY <1>3 DEF Becomes
  <1>5. Fits(World(k), y)  BY <1>2, <1>4, CompletedFits
  <1>k. k = StackOf(t)  OBVIOUS
  <1> HIDE DEF k
  <1>6. OneWent(k, y)  BY <1>2, <1>4, <1>5, OneGoes
  <1>7. chatTurn \in [Turns -> TurnRecord]  BY DEF StatusInv, TurnsHeld
  <1>8. /\ chatTurn' \in [Turns -> TurnRecord] /\ chatTurn'[t].at = "deliver" /\ chatTurn'[t].stack = chatTurn[t].stack
        /\ \A u \in Turns : u # t => chatTurn'[u] = chatTurn[u]
    <2> DEFINE b == chatTurn[t].summed /\ ~silent
    <2>1. b \in BOOLEAN  OBVIOUS
    <2>2. chatTurn' = [chatTurn EXCEPT ![t] = [@ EXCEPT !.at = "deliver", !.summed = b]]  BY <1>3
    <2> HIDE DEF b
    <2> QED  BY <1>7, <2>1, <2>2 DEF TurnRecord
  <1>9. \A u \in Turns : chatTurn[u].at = "engine" => chatTurn'[u] = chatTurn[u]  BY <1>1, <1>8
  <1>10. Asked' /\ prompt' \in [stack : Nat, disturbed : BOOLEAN]  BY <1>1, <1>2, <1>6, <1>9, <1>k, AskedUnless
  <1>11. \A u \in Turns : /\ chatTurn'[u].at = "engine" <=> chatTurn[u].at = "engine"
                          /\ chatTurn'[u].at # "none" => chatTurn[u].at # "none"
                          /\ chatTurn'[u].stack = chatTurn[u].stack
                          /\ chatTurn[u].at \in {"engine", "answer", "deliver"} =>
                               chatTurn'[u].at \in {"engine", "answer", "deliver"}
    BY <1>1, <1>8
  <1>12. TurnsHeld'  BY <1>1, <1>6, <1>8, <1>10, <1>11 DEF StatusInv, TurnsHeld, OneWent
  <1>13. \A l \in DOMAIN stacks : InUse(l) => InUse(l)'  BY <1>1, <1>11 DEF InUse
  <1>14. Unused'  BY <1>1, <1>2, <1>6, <1>13, UnusedOn
  <1> QED  BY <1>6, <1>10, <1>12, <1>14 DEF StatusInv, OneWent

LEMMA ClosedStep == ASSUME StatusInv, NEW t \in Turns, StatusClosed(t) PROVE StatusInv'
  <1> DEFINE k == StackOf(t)
             kept == IF chatTurn[t].summed THEN {"reasoning"} ELSE {}
  <1>1. /\ chatTurn[t].at = "deliver" /\ chatTurn' = [chatTurn EXCEPT ![t].at = "done"]
        /\ UNCHANGED <<controller, refresh>>
    BY DEF StatusClosed
  <1>2. /\ k \in DOMAIN stacks /\ InUse(k) /\ Sound(World(k)) /\ InBlock(World(k).stack)
        /\ World(k).stack = stacks[k] /\ World(k).posts = posts
    BY <1>1, EngineStack
  <1>3. chatTurn \in [Turns -> TurnRecord] /\ Len(stacks) \in Nat /\ current \in 0..Len(stacks)
    BY StacksAre DEF StatusInv, TurnsHeld
  <1>4. /\ chatTurn' \in [Turns -> TurnRecord] /\ chatTurn'[t].at = "done" /\ chatTurn'[t].stack = chatTurn[t].stack
        /\ \A u \in Turns : u # t => chatTurn'[u] = chatTurn[u]
    BY <1>1, <1>3 DEF TurnRecord
  <1>5. \A u \in Turns : /\ chatTurn[u].at = "engine" => chatTurn'[u] = chatTurn[u]
                         /\ chatTurn'[u].at = "engine" <=> chatTurn[u].at = "engine"
                         /\ chatTurn'[u].at # "none" => chatTurn[u].at # "none"
                         /\ chatTurn'[u].stack = chatTurn[u].stack
    BY <1>1, <1>4
  <1>6. ASSUME NEW l, l # k, InUse(l), current' = current \/ current = k PROVE InUse(l)'
    <2>1. CASE l = current  BY <1>6, <2>1 DEF InUse
    <2>2. CASE l # current
      <3>1. PICK u \in Turns : chatTurn[u].stack = l /\ chatTurn[u].at \in {"engine", "answer", "deliver"}
        BY <1>6, <2>2 DEF InUse
      <3>2. u # t  BY <1>6, <3>1 DEF StackOf
      <3> QED  BY <1>4, <3>1, <3>2 DEF InUse
    <2> QED  BY <2>1, <2>2
  <1>7. CASE /\ Becomes(k, Shut(World(k), kept))
             /\ current' = (IF current = k THEN 0 ELSE current) /\ prompt' = Disturbed(t) /\ UNCHANGED revived
    <2>1. PICK y \in Shut(World(k), kept) :
              stacks' = [stacks EXCEPT ![k] = y.stack] /\ posts' = y.posts /\ faults' = y.faults
      BY <1>7 DEF Becomes
    <2>2. kept \in {{}, {"reasoning"}}  OBVIOUS
    <2>k. k = StackOf(t)  OBVIOUS
    <2> HIDE DEF k, kept
    <2>3. Fits(World(k), y) /\ Ended(y.stack)  BY <1>2, <2>1, <2>2, ShutFits
    <2>4. OneWent(k, y)  BY <1>2, <2>1, <2>3, OneGoes
    <2>5. Asked' /\ prompt' \in [stack : Nat, disturbed : BOOLEAN]
      BY <1>2, <1>5, <1>7, <2>4, <2>k, AskedUnless
    <2>6. current' \in 0..Len(stacks)  BY <1>3, <1>7
    <2>7. TurnsHeld'  BY <1>1, <1>4, <1>5, <1>7, <2>4, <2>5, <2>6 DEF StatusInv, TurnsHeld, OneWent
    <2>8. \A l \in DOMAIN stacks : l # k /\ (InUse(l) \/ l \in revived) => InUse(l)' \/ l \in revived'
      BY <1>6, <1>7
    <2>9. Unused'  BY <1>2, <2>3, <2>4, <2>8, UnusedOn
    <2> QED  BY <2>4, <2>5, <2>7, <2>9 DEF StatusInv, OneWent
  <1>8. CASE /\ revived' = (IF current = k THEN revived ELSE revived \cup {k})
             /\ UNCHANGED <<stacks, posts, faults, current, prompt>>
    <2>1. Held(stacks', posts')  BY <1>8 DEF StatusInv
    <2>2. revived' \subseteq DOMAIN stacks  BY <1>2, <1>8 DEF StatusInv, TurnsHeld
    <2>3. TurnsHeld'  BY <1>1, <1>4, <1>5, <1>8, <2>2 DEF StatusInv, TurnsHeld
    <2>4. Asked'
      <3> SUFFICES ASSUME prompt.stack # 0 PROVE Asked'
        BY <1>8 DEF Asked
      <3>1. PICK u \in Turns : chatTurn[u].at = "engine" /\ chatTurn[u].stack = prompt.stack
        BY DEF StatusInv, Asked
      <3>2. prompt.disturbed \/ Asks(stacks[prompt.stack])  BY DEF StatusInv, Asked
      <3>3. chatTurn'[u].at = "engine" /\ chatTurn'[u].stack = prompt.stack  BY <1>5, <3>1
      <3> QED  BY <1>8, <3>2, <3>3 DEF Asked
    <2>5. Unused'
      <3> SUFFICES ASSUME NEW l \in DOMAIN stacks PROVE InUse(l)' \/ l \in revived' \/ Ended(stacks[l])
        BY <1>8 DEF Unused
      <3>1. InUse(l) \/ l \in revived \/ Ended(stacks[l])  BY DEF StatusInv, Unused
      <3>2. CASE l = k
        <4>1. current' = current  BY <1>8
        <4> QED  BY <1>8, <3>2, <4>1 DEF InUse
      <3>3. CASE l # k  BY <1>6, <1>8, <3>1, <3>3
      <3> QED  BY <3>2, <3>3
    <2> QED  BY <2>1, <2>3, <2>4, <2>5 DEF StatusInv
  <1> QED  BY <1>7, <1>8 DEF StatusClosed

LEMMA FindsStep == ASSUME StatusInv, RefreshFinds PROVE StatusInv'
  <1>1. /\ current # 0 /\ refresh' = [at |-> "found", stack |-> current, seen |-> refresh.seen + 1]
        /\ UNCHANGED <<stacks, posts, faults, current, controller, chatTurn, prompt, revived>>
    BY DEF RefreshFinds
  <1>2. /\ Len(stacks) \in Nat /\ DOMAIN stacks = 1..Len(stacks) /\ current \in 0..Len(stacks)
        /\ refresh \in [at : {"none", "found", "noted"}, stack : Nat, seen : Nat]
    BY StacksAre DEF StatusInv, TurnsHeld
  <1>3. current \in DOMAIN stacks /\ refresh' \in [at : {"none", "found", "noted"}, stack : Nat, seen : Nat]
    BY <1>1, <1>2
  <1>4. refresh'.stack \in DOMAIN stacks  BY <1>1, <1>3
  <1>5. TurnsHeld'  BY <1>1, <1>3, <1>4 DEF StatusInv, TurnsHeld
  <1>6. Held(stacks', posts') /\ Asked' /\ Unused'  BY <1>1 DEF StatusInv, Asked, Unused, InUse
  <1> QED  BY <1>5, <1>6 DEF StatusInv

\* A question is untouched by what is done to a stack that asks on.
LEMMA AskedOn ==
    ASSUME StatusInv, NEW k \in DOMAIN stacks, NEW y, OneWent(k, y), Asks(stacks[k]) => Asks(y.stack),
           UNCHANGED <<chatTurn, prompt>>
    PROVE  Asked'
  <1> SUFFICES ASSUME prompt.stack # 0 PROVE Asked'
    BY DEF Asked
  <1>1. PICK t \in Turns : chatTurn[t].at = "engine" /\ chatTurn[t].stack = prompt.stack  BY DEF StatusInv, Asked
  <1>2. prompt.stack \in DOMAIN stacks  BY <1>1 DEF StatusInv, TurnsHeld
  <1>3. prompt.disturbed \/ Asks(stacks[prompt.stack])  BY DEF StatusInv, Asked
  <1>4. prompt.disturbed \/ Asks(stacks'[prompt.stack])
    <2>1. CASE prompt.stack = k  BY <1>3, <2>1 DEF OneWent
    <2>2. CASE prompt.stack # k
      <3>1. stacks'[prompt.stack] = stacks[prompt.stack]  BY <1>2, <2>2 DEF OneWent
      <3> QED  BY <1>3, <3>1
    <2> QED  BY <2>1, <2>2
  <1> QED  BY <1>1, <1>4 DEF Asked

LEMMA NotesStep == ASSUME StatusInv, RefreshNotes PROVE StatusInv'
  <1> DEFINE k == refresh.stack
  <1>1. /\ refresh.at = "found" /\ refresh' = [refresh EXCEPT !.at = "noted"]
        /\ stacks' = [stacks EXCEPT ![k].atBottom = FALSE] \/ stacks' = stacks
        /\ UNCHANGED <<posts, faults, current, controller, chatTurn, prompt, revived>>
    BY DEF RefreshNotes
  <1>2. /\ k \in DOMAIN stacks
        /\ refresh \in [at : {"none", "found", "noted"}, stack : Nat, seen : Nat]
    BY <1>1 DEF StatusInv, TurnsHeld
  <1>3. refresh' \in [at : {"none", "found", "noted"}, stack : Nat, seen : Nat] /\ refresh'.stack = k
    BY <1>1, <1>2
  <1>4. CASE stacks' = stacks
    <2>1. TurnsHeld'  BY <1>1, <1>2, <1>3, <1>4 DEF StatusInv, TurnsHeld
    <2>2. Held(stacks', posts') /\ Asked' /\ Unused'  BY <1>1, <1>4 DEF StatusInv, Asked, Unused, InUse
    <2> QED  BY <2>1, <2>2 DEF StatusInv
  <1>5. CASE stacks' = [stacks EXCEPT ![k].atBottom = FALSE]
    <2> HIDE DEF k
    <2> DEFINE w == World(k)
               y == [w EXCEPT !.stack.atBottom = FALSE]
    <2>1. Sound(w) /\ InBlock(w.stack) /\ w.stack = stacks[k] /\ w.posts = posts  BY <1>2, StacksAre
    <2>2. Flagged(w, y) /\ InBlock(y.stack) /\ (Asks(w.stack) => Asks(y.stack))
      <3> HIDE DEF w
      <3> QED  BY <2>1, BottomSet
    <2>3. y.stack = [stacks[k] EXCEPT !.atBottom = FALSE] /\ y.posts = posts /\ y.faults = faults  BY DEF World
    <2> HIDE DEF w, y
    <2>4. Sound(y)  BY <2>1, <2>2, FlagFits
    <2>5. Follows(y, y)  BY <2>4, Stays, SlotFollows DEF Slots
    <2>6. Fits(w, y)  BY <2>1, <2>2, <2>5, FlagFits DEF Fits
    <2>7. stacks' = [stacks EXCEPT ![k] = y.stack]  BY <1>5, <2>3
    <2>8. OneWent(k, y)  BY <1>1, <1>2, <2>3, <2>6, <2>7, OneGoes DEF w
    <2>9. TurnsHeld'  BY <1>1, <1>2, <1>3, <2>8 DEF StatusInv, TurnsHeld, OneWent
    <2>10. Asked'  BY <1>1, <1>2, <2>1, <2>2, <2>8, AskedOn
    <2>11. \A l \in DOMAIN stacks : InUse(l) => InUse(l)'  BY <1>1 DEF InUse
    <2>12. Unused'
      <3> SUFFICES ASSUME NEW l \in DOMAIN stacks' PROVE InUse(l)' \/ l \in revived' \/ Ended(stacks'[l])
        BY DEF Unused
      <3>1. l \in DOMAIN stacks  BY <2>8 DEF OneWent
      <3>2. InUse(l) \/ l \in revived \/ Ended(stacks[l])  BY <3>1 DEF StatusInv, Unused
      <3>3. stacks'[l].message = stacks[l].message
        <4>1. CASE l = k  BY <2>1, <2>2, <2>8, <4>1 DEF OneWent, Flagged
        <4>2. CASE l # k  BY <2>8, <3>1, <4>2 DEF OneWent
        <4> QED  BY <4>1, <4>2
      <3> QED  BY <1>1, <2>11, <3>1, <3>2, <3>3 DEF Ended
    <2> QED  BY <2>8, <2>9, <2>10, <2>12 DEF StatusInv, OneWent
  <1> QED  BY <1>1, <1>4, <1>5

LEMMA BringsStep == ASSUME StatusInv, RefreshBrings PROVE StatusInv'
  <1>k. PICK k : k = refresh.stack  OBVIOUS
  <1>1. /\ refresh.at = "noted" /\ refresh' = [refresh EXCEPT !.at = "none"]
        /\ revived' = (IF k = current THEN revived ELSE revived \cup {k})
        /\ UNCHANGED <<current, controller, chatTurn, prompt>>
    BY <1>k DEF RefreshBrings
  <1>2. /\ k \in DOMAIN stacks
        /\ refresh \in [at : {"none", "found", "noted"}, stack : Nat, seen : Nat]
        /\ revived \subseteq DOMAIN stacks
    BY <1>k, <1>1 DEF StatusInv, TurnsHeld
  <1>3. refresh' \in [at : {"none", "found", "noted"}, stack : Nat, seen : Nat] /\ refresh'.at = "none"
    BY <1>1, <1>2
  <1>4. PICK y \in Brought(World(k)) :
            stacks' = [stacks EXCEPT ![k] = y.stack] /\ posts' = y.posts /\ faults' = y.faults
    BY <1>k DEF RefreshBrings, Becomes
  <1>5. Sound(World(k)) /\ InBlock(World(k).stack) /\ World(k).stack = stacks[k]  BY <1>2, StacksAre
  <1>6. Fits(World(k), y) /\ (Asks(stacks[k]) => Asks(y.stack))  BY <1>4, <1>5, BroughtGood DEF Good, Fits
  <1>7. OneWent(k, y)  BY <1>2, <1>4, <1>6, OneGoes
  <1>8. revived' \subseteq DOMAIN stacks  BY <1>1, <1>2
  <1>9. TurnsHeld'  BY <1>1, <1>3, <1>7, <1>8 DEF StatusInv, TurnsHeld, OneWent
  <1>10. Asked'  BY <1>1, <1>2, <1>6, <1>7, AskedOn
  <1>11. \A l \in DOMAIN stacks : InUse(l) => InUse(l)'  BY <1>1 DEF InUse
  <1>12. InUse(k)' \/ k \in revived'  BY <1>1 DEF InUse
  <1>13. revived \subseteq revived'  BY <1>1
  <1>14. Unused'  BY <1>2, <1>7, <1>11, <1>12, <1>13, UnusedOn
  <1> QED  BY <1>7, <1>9, <1>10, <1>14 DEF StatusInv, OneWent

\* A turn begins with the stack k: of what there was, S, the stack k is filled, and the one it replaces has ended.
Begun(k, S, v, x) ==
    /\ Held(S, v.posts) /\ k \in DOMAIN S /\ DOMAIN S = DOMAIN stacks \cup {k}
    /\ v.stack = S[k] /\ Sound(v) /\ InBlock(v.stack)
    /\ x \in Ensured(v) /\ stacks' = [S EXCEPT ![k] = x.stack]
    /\ \A l \in DOMAIN stacks : l # k => IF l = current THEN Ended(S[l]) ELSE S[l] = stacks[l]

LEMMA BegunAnew ==
    ASSUME StatusInv, NEW S, NEW P, NEW f \in Nat, NEW v, NEW x, Held(S, P), DOMAIN S = DOMAIN stacks,
           v = [stack |-> NewStack, posts |-> P, faults |-> f], x \in Ensured(v), stacks' = Append(S, x.stack),
           \A l \in DOMAIN stacks : IF l = current THEN Ended(S[l]) ELSE S[l] = stacks[l]
    PROVE  Begun(Len(stacks) + 1, Append(S, NewStack), v, x)
  <1> DEFINE T == Append(S, NewStack)
             k == Len(stacks) + 1
  <1>1. /\ S \in Seq(StackRecord) /\ Len(S) \in Nat /\ DOMAIN S = 1..Len(S)
        /\ Len(stacks) \in Nat /\ DOMAIN stacks = 1..Len(stacks)
    BY HeldSeqs, StacksAre DEF Held
  <1>2. Len(S) = Len(stacks)
    <2>1. \A m, n \in Nat : 1..m = 1..n => m = n  OBVIOUS
    <2>2. 1..Len(S) = 1..Len(stacks)  BY <1>1
    <2> HIDE DEF T, k
    <2> QED  BY <1>1, <2>1, <2>2
  <1>3. /\ T \in Seq(StackRecord) /\ DOMAIN T = 1..k /\ T[k] = NewStack
        /\ \A l \in DOMAIN stacks : T[l] = S[l]
    BY <1>1, <1>2, NewStackIs
  <1>4. Held(T, P)  BY Appearing
  <1>5. v.stack = NewStack /\ v.posts = P /\ v.faults = f /\ v = [stack |-> v.stack, posts |-> v.posts, faults |-> v.faults]
    OBVIOUS
  <1>6. k \in DOMAIN T /\ DOMAIN T = DOMAIN stacks \cup {k}  BY <1>1, <1>3
  <1> HIDE DEF T
  <1>7. Sound(v) /\ InBlock(v.stack)
    <2> HIDE DEF k
    <2> QED  BY <1>3, <1>4, <1>5, <1>6, HeldWorld
  <1>8. x.stack \in StackRecord  BY <1>7, EnsuredGood DEF Good, Follows, Sound, WorldRecord
  <1>9. stacks' = [T EXCEPT ![k] = x.stack]
    <2> DEFINE e == x.stack
               U == Append(S, e)
    <2>1. stacks' = U  OBVIOUS
    <2>2. e \in StackRecord  BY <1>8
    <2> HIDE DEF e
    <2>3. U \in Seq(StackRecord) /\ DOMAIN U = 1..k /\ U[k] = e /\ \A l \in DOMAIN stacks : U[l] = S[l]
      BY <1>1, <1>2, <2>2
    <2>4. U = [l \in 1..k |-> U[l]] /\ T = [l \in 1..k |-> T[l]]
      <3> HIDE DEF U
      <3>1. U \in [1..Len(U) -> StackRecord] /\ T \in [1..Len(T) -> StackRecord]  BY <1>3, <2>3
      <3> QED  BY <1>3, <2>3, <3>1
    <2> HIDE DEF U
    <2>5. \A l \in 1..k : l # k => l \in DOMAIN stacks
      <3>1. \A m \in Nat : \A l \in 1..(m + 1) : l # m + 1 => l \in 1..m  OBVIOUS
      <3> QED  BY <1>1, <3>1
    <2>6. \A l \in 1..k : IF l = k THEN U[l] = e ELSE U[l] = T[l]
      <3> HIDE DEF k
      <3> QED  BY <1>3, <2>3, <2>5
    <2>7. U = [T EXCEPT ![k] = e]
      <3> HIDE DEF k
      <3> QED  BY <1>3, <2>3, <2>4, <2>6
    <2> QED  BY <2>1, <2>7 DEF e
  <1>10. \A l \in DOMAIN stacks : IF l = current THEN Ended(T[l]) ELSE T[l] = stacks[l]  BY <1>3
  <1>11. v.stack = T[k] /\ Held(T, v.posts)  BY <1>3, <1>4, <1>5
  <1> HIDE DEF k
  <1>12. Begun(k, T, v, x)  BY <1>6, <1>7, <1>9, <1>10, <1>11 DEF Begun
  <1> QED  BY <1>12 DEF k, T

LEMMA BeginsWith ==
    ASSUME StatusInv, NEW t \in Turns, TurnBegins(t)
    PROVE  /\ controller' = current' /\ chatTurn' = [chatTurn EXCEPT ![t] = [@ EXCEPT !.at = "engine", !.stack = current']]
           /\ \E S, v, x : Begun(current', S, v, x) /\ posts' = x.posts /\ faults' = x.faults
  <1> DEFINE retires == current # 0 /\ Disabled(stacks[current])
             k == IF current = 0 \/ retires THEN Len(stacks) + 1 ELSE current
             before == IF retires THEN Shut(World(current), {}) ELSE {[stack |-> NewStack, posts |-> posts, faults |-> faults]}
  <1>1. /\ current' = k /\ controller' = k
        /\ chatTurn' = [chatTurn EXCEPT ![t] = [@ EXCEPT !.at = "engine", !.stack = k]]
    BY DEF TurnBegins
  <1>2. PICK w \in before : \E x \in Ensured([w EXCEPT !.stack = IF k = current THEN stacks[k] ELSE NewStack]) :
            /\ stacks' = IF retires THEN Append([stacks EXCEPT ![current] = w.stack], x.stack)
                         ELSE IF current = 0 THEN Append(stacks, x.stack) ELSE [stacks EXCEPT ![k] = x.stack]
            /\ posts' = x.posts /\ faults' = x.faults
    BY DEF TurnBegins
  <1>3. PICK x \in Ensured([w EXCEPT !.stack = IF k = current THEN stacks[k] ELSE NewStack]) :
            /\ stacks' = IF retires THEN Append([stacks EXCEPT ![current] = w.stack], x.stack)
                         ELSE IF current = 0 THEN Append(stacks, x.stack) ELSE [stacks EXCEPT ![k] = x.stack]
            /\ posts' = x.posts /\ faults' = x.faults
    BY <1>2
  <1>4. /\ Len(stacks) \in Nat /\ DOMAIN stacks = 1..Len(stacks) /\ faults \in Nat /\ current \in 0..Len(stacks)
        /\ Held(stacks, posts)
    BY StacksAre DEF StatusInv, TurnsHeld
  <1>5. CASE current = 0
    <2>1. w = [stack |-> NewStack, posts |-> posts, faults |-> faults]  BY <1>5
    <2>2. k = Len(stacks) + 1 /\ k # current /\ stacks' = Append(stacks, x.stack)  BY <1>3, <1>4, <1>5
    <2>3. PICK v : v = [stack |-> NewStack, posts |-> posts, faults |-> faults]  OBVIOUS
    <2>4. x \in Ensured(v)  BY <1>3, <2>1, <2>2, <2>3
    <2>5. \A l \in DOMAIN stacks : l # current  BY <1>4, <1>5
    <2> HIDE DEF k, retires, before
    <2>6. Begun(k, Append(stacks, NewStack), v, x)  BY <1>4, <2>2, <2>3, <2>4, <2>5, BegunAnew
    <2> QED  BY <1>1, <1>3, <2>6
  <1>6. CASE retires
    <2>1. w \in Shut(World(current), {})  BY <1>6
    <2>2. current \in DOMAIN stacks  BY <1>4, <1>6
    <2>3. Sound(World(current)) /\ InBlock(World(current).stack) /\ World(current).stack = stacks[current] /\ World(current).posts = posts
      BY <2>2, StacksAre
    <2>4. Fits(World(current), w) /\ Ended(w.stack)  BY <2>1, <2>3, ShutFits
    <2>5. PICK S : S = [stacks EXCEPT ![current] = w.stack]  OBVIOUS
    <2>6. Held(S, w.posts)  BY <1>4, <2>2, <2>3, <2>4, <2>5, Becoming
    <2>7. k = Len(stacks) + 1 /\ k # current /\ stacks' = Append(S, x.stack)  BY <1>3, <1>4, <1>6, <2>5
    <2>8. w \in WorldRecord  BY <2>4 DEF Fits, Follows, Sound
    <2>9. PICK v : v = [stack |-> NewStack, posts |-> w.posts, faults |-> w.faults]  OBVIOUS
    <2>10. [w EXCEPT !.stack = NewStack] = v /\ w.faults \in Nat  BY <2>8, <2>9 DEF WorldRecord
    <2>11. x \in Ensured(v)  BY <1>3, <2>7, <2>10
    <2>12. DOMAIN S = DOMAIN stacks /\ S[current] = w.stack /\ \A l \in DOMAIN stacks : l # current => S[l] = stacks[l]
      BY <2>2, <2>5
    <2> HIDE DEF k, retires, before
    <2>13. Begun(k, Append(S, NewStack), v, x)  BY <2>4, <2>6, <2>7, <2>9, <2>10, <2>11, <2>12, BegunAnew
    <2> QED  BY <1>1, <1>3, <2>13
  <1>7. CASE current # 0 /\ ~retires
    <2>1. w = [stack |-> NewStack, posts |-> posts, faults |-> faults] /\ k = current  BY <1>7
    <2>2. k \in DOMAIN stacks  BY <1>4, <1>7, <2>1
    <2>3. [w EXCEPT !.stack = stacks[k]] = World(k)  BY <2>1 DEF World
    <2>4. x \in Ensured(World(k))  BY <1>3, <2>1, <2>3
    <2>5. stacks' = [stacks EXCEPT ![k] = x.stack]  BY <1>3, <1>7
    <2>6. Sound(World(k)) /\ InBlock(World(k).stack) /\ World(k).stack = stacks[k] /\ World(k).posts = posts
      BY <2>2, StacksAre
    <2> HIDE DEF k, retires, before
    <2>7. Begun(k, stacks, World(k), x)  BY <1>4, <2>1, <2>2, <2>4, <2>5, <2>6 DEF Begun
    <2> QED  BY <1>1, <1>3, <2>7
  <1> HIDE DEF k, before
  <1> QED  BY <1>1, <1>5, <1>6, <1>7

LEMMA TurnBeginsStep == ASSUME StatusInv, NEW t \in Turns, TurnBegins(t) PROVE StatusInv'
  <1>1. PICK k : k = current'  OBVIOUS
  <1>2. /\ chatTurn[t].at = "none" /\ \A u \in Turns : chatTurn[u].at # "engine"
        /\ current' = k /\ controller' = k
        /\ chatTurn' = [chatTurn EXCEPT ![t] = [@ EXCEPT !.at = "engine", !.stack = k]]
        /\ UNCHANGED <<refresh, prompt, revived>>
    BY <1>1, BeginsWith DEF TurnBegins
  <1>3. PICK S, v, x : Begun(k, S, v, x) /\ posts' = x.posts /\ faults' = x.faults  BY <1>1, BeginsWith
  <1>4. /\ Len(stacks) \in Nat /\ DOMAIN stacks = 1..Len(stacks) /\ current \in 0..Len(stacks)
        /\ chatTurn \in [Turns -> TurnRecord] /\ prompt.stack = 0
    BY <1>2, StacksAre DEF StatusInv, TurnsHeld, Asked
  <1>5. Fits(v, x)  BY <1>3, EnsuredGood DEF Begun, Good, Fits
  <1>6. Held(stacks', posts')  BY <1>3, <1>5, Becoming DEF Begun
  <1>7. DOMAIN stacks' = DOMAIN stacks \cup {k}  BY <1>3 DEF Begun
  <1>8. Len(stacks') \in Nat /\ DOMAIN stacks' = 1..Len(stacks')  BY <1>6, HeldSeqs
  <1>9. k \in Nat /\ k \in 0..Len(stacks')  BY <1>7, <1>8
  <1>10. faults' \in Nat  BY <1>3, <1>5 DEF Fits, Follows, Sound, WorldRecord
  <1>11. chatTurn' \in [Turns -> TurnRecord] /\ chatTurn'[t].at = "engine" /\ chatTurn'[t].stack = k
         /\ \A u \in Turns : u # t => chatTurn'[u] = chatTurn[u]
    BY <1>2, <1>4, <1>9 DEF TurnRecord
  <1>12. TurnsHeld'
    <2>1. refresh'.at # "none" => refresh'.stack \in DOMAIN stacks'  BY <1>2, <1>7 DEF StatusInv, TurnsHeld
    <2>2. \A u \in Turns : chatTurn'[u].at # "none" => chatTurn'[u].stack \in DOMAIN stacks'
      BY <1>7, <1>11 DEF StatusInv, TurnsHeld
    <2>3. \A u \in Turns : chatTurn'[u].at = "engine" => u = t  BY <1>2, <1>11
    <2>4. revived' \subseteq DOMAIN stacks'  BY <1>2, <1>7 DEF StatusInv, TurnsHeld
    <2>5. refresh' \in [at : {"none", "found", "noted"}, stack : Nat, seen : Nat] /\ prompt' \in [stack : Nat, disturbed : BOOLEAN]
      BY <1>2 DEF StatusInv, TurnsHeld
    <2> QED  BY <1>2, <1>9, <1>10, <1>11, <2>1, <2>2, <2>3, <2>4, <2>5 DEF TurnsHeld
  <1>13. Asked'  BY <1>2, <1>4 DEF Asked
  <1>14. InUse(k)'  BY <1>2 DEF InUse
  <1>15. ASSUME NEW l \in DOMAIN stacks, l # k, InUse(l) PROVE InUse(l)' \/ l = current
    <2> SUFFICES ASSUME NEW u \in Turns, chatTurn[u].stack = l, chatTurn[u].at \in {"engine", "answer", "deliver"}
                 PROVE  InUse(l)'
      BY <1>15 DEF InUse
    <2>1. u # t  BY <1>2
    <2> QED  BY <1>11, <2>1 DEF InUse
  <1>16. Unused'
    <2> SUFFICES ASSUME NEW l \in DOMAIN stacks' PROVE InUse(l)' \/ l \in revived' \/ Ended(stacks'[l])
      BY DEF Unused
    <2>1. CASE l = k  BY <1>14, <2>1
    <2>2. CASE l # k
      <3>1. l \in DOMAIN stacks  BY <1>7, <2>2
      <3>2. stacks'[l] = S[l] /\ IF l = current THEN Ended(S[l]) ELSE S[l] = stacks[l]
        BY <1>3, <1>7, <2>2, <3>1 DEF Begun
      <3>3. InUse(l) \/ l \in revived \/ Ended(stacks[l])  BY <3>1 DEF StatusInv, Unused
      <3> QED  BY <1>2, <1>15, <2>2, <3>1, <3>2, <3>3
    <2> QED  BY <2>1, <2>2
  <1> QED  BY <1>6, <1>12, <1>13, <1>16 DEF StatusInv

-----------------------------------------------------------------------------
(* The inductive invariant and the properties *)

LEMMA StatusInitHolds == StatusInit => StatusInv
  <1> SUFFICES ASSUME StatusInit PROVE StatusInv
    OBVIOUS
  <1>1. /\ stacks = <<>> /\ posts = <<>> /\ faults = 0 /\ current = 0 /\ controller = 0 /\ revived = {}
        /\ chatTurn = [t \in Turns |-> [at |-> "none", stack |-> 0, summed |-> FALSE]]
        /\ refresh = [at |-> "none", stack |-> 0, seen |-> 0]
        /\ prompt = [stack |-> 0, disturbed |-> FALSE]
    BY DEF StatusInit
  <1>2. Len(stacks) = 0 /\ DOMAIN stacks = {} /\ DOMAIN posts = {}  BY <1>1
  <1>3. stacks \in Seq(StackRecord) /\ posts \in Seq(PostRecord)  BY <1>1
  <1>4. Held(stacks, posts)  BY <1>2, <1>3 DEF Held
  <1>5. chatTurn \in [Turns -> TurnRecord] /\ \A t \in Turns : chatTurn[t].at = "none"  BY <1>1 DEF TurnRecord
  <1>6. TurnsHeld  BY <1>1, <1>2, <1>5 DEF TurnsHeld
  <1>7. Asked /\ Unused  BY <1>1, <1>2 DEF Asked, Unused
  <1> QED  BY <1>4, <1>6, <1>7 DEF StatusInv

LEMMA StatusNextHolds == StatusInv /\ [StatusNext]_statusVars => StatusInv'
  <1> SUFFICES ASSUME StatusInv, [StatusNext]_statusVars PROVE StatusInv'
    OBVIOUS
  <1>1. ASSUME NEW t \in Turns, TurnBegins(t) PROVE StatusInv'  BY <1>1, TurnBeginsStep
  <1>2. ASSUME NEW t \in Turns, ReasoningShown(t) PROVE StatusInv'  BY <1>2, ReasoningStep
  <1>3. ASSUME NEW t \in Turns, ToolStarted(t) PROVE StatusInv'  BY <1>3, StartedStep
  <1>4. ASSUME NEW t \in Turns, ToolFinished(t) PROVE StatusInv'  BY <1>4, FinishedStep
  <1>5. ASSUME NEW t \in Turns, TurnSummed(t) PROVE StatusInv'  BY <1>5, SummedStep
  <1>6. ASSUME NEW t \in Turns, ApprovalAsked(t) PROVE StatusInv'  BY <1>6, QuestionStep
  <1>7. ASSUME NEW t \in Turns, EngineEnds(t) PROVE StatusInv'  BY <1>7, EndsStep
  <1>8. ASSUME NEW t \in Turns, StatusCompleted(t) PROVE StatusInv'  BY <1>8, CompletedStep
  <1>9. ASSUME NEW t \in Turns, StatusClosed(t) PROVE StatusInv'  BY <1>9, ClosedStep
  <1>10. CASE ApprovalOver  BY <1>10, OverStep
  <1>11. CASE RefreshFinds  BY <1>11, FindsStep
  <1>12. CASE RefreshNotes  BY <1>12, NotesStep
  <1>13. CASE RefreshBrings  BY <1>13, BringsStep
  <1>14. CASE UNCHANGED statusVars
    <2>1. UNCHANGED <<stacks, posts, faults, current, controller, chatTurn, refresh, prompt, revived>>
      BY <1>14 DEF statusVars
    <2>2. Held(stacks', posts') /\ TurnsHeld' /\ Asked' /\ Unused'
      BY <2>1 DEF StatusInv, TurnsHeld, Asked, Unused, InUse
    <2> QED  BY <2>2 DEF StatusInv
  <1> QED
    BY <1>1, <1>2, <1>3, <1>4, <1>5, <1>6, <1>7, <1>8, <1>9, <1>10, <1>11, <1>12, <1>13, <1>14 DEF StatusNext

LEMMA PromptHolds == StatusInv => PromptStands
  <1> SUFFICES ASSUME StatusInv, prompt.stack # 0, ~prompt.disturbed, ~Disabled(stacks[prompt.stack])
               PROVE  LET id == stacks[prompt.stack].message["environment"].id IN
                      id # 0 /\ posts[id].text = "prompt" /\ posts[id].markup /\ ~posts[id].gone
    BY DEF PromptStands
  <1>1. PICK k : k = prompt.stack  OBVIOUS
  <1>2. PICK m : m = stacks[k].message["environment"]  OBVIOUS
  <1>3. k \in DOMAIN stacks  BY <1>1 DEF StatusInv, Asked, TurnsHeld
  <1>4. Asks(stacks[k])  BY <1>1 DEF StatusInv, Asked
  <1>5. m.id # 0 /\ m.text = "prompt" /\ m.markup  BY <1>1, <1>2, <1>4 DEF Asks
  <1>6. ~m.off  BY <1>1, <1>2 DEF Disabled, Slots
  <1>7. Shown(m, "environment", posts)  BY <1>2, <1>3 DEF StatusInv, Held, Known, Slots
  <1>8. posts[m.id].text = "prompt" /\ posts[m.id].markup /\ ~posts[m.id].gone  BY <1>5, <1>6, <1>7 DEF Shown
  <1> QED  BY <1>1, <1>2, <1>5, <1>8

LEMMA BlockHolds == StatusInv => BlockInOrder
  <1> SUFFICES ASSUME StatusInv, NEW k \in DOMAIN stacks, ~Disabled(stacks[k]), NEW i \in 1..3, NEW j \in 1..3, i < j,
                      stacks[k].message[SlotOrder[i]].id # 0, stacks[k].message[SlotOrder[j]].id # 0
               PROVE  stacks[k].message[SlotOrder[i]].id < stacks[k].message[SlotOrder[j]].id
    BY DEF BlockInOrder
  <1> DEFINE id(slot) == stacks[k].message[slot].id
  <1>1. InPlace(stacks[k])  BY DEF StatusInv, Held, InBlock
  <1>2. stacks[k] \in StackRecord  BY HeldSeqs DEF StatusInv
  <1>3. id("reasoning") \in Nat /\ id("tool") \in Nat /\ id("environment") \in Nat
    BY <1>2 DEF StackRecord, MessageRecord, Slots
  <1>4. /\ id("tool") # 0 => id("reasoning") # 0 /\ id("reasoning") < id("tool")
        /\ id("environment") # 0 => id("tool") # 0 /\ id("tool") < id("environment")
    BY <1>1 DEF InPlace
  <1>5. id("environment") # 0 => id("reasoning") < id("environment")
    <2> HIDE DEF id
    <2> QED  BY <1>3, <1>4
  <1>6. SlotOrder[1] = "reasoning" /\ SlotOrder[2] = "tool" /\ SlotOrder[3] = "environment"  BY DEF SlotOrder
  <1>7. \/ i = 1 /\ j = 2
        \/ i = 2 /\ j = 3
        \/ i = 1 /\ j = 3
    OBVIOUS
  <1>8. id(SlotOrder[j]) # 0  OBVIOUS
  <1>9. id(SlotOrder[i]) < id(SlotOrder[j])
    <2> HIDE DEF id
    <2> QED  BY <1>4, <1>5, <1>6, <1>7, <1>8
  <1> QED  BY <1>9

LEMMA NothingLeftHolds == StatusInv => NothingLeft
  <1> SUFFICES ASSUME StatusInv, NEW id \in DOMAIN posts, ~posts[id].gone, ~posts[id].lost
               PROVE  \E k \in DOMAIN stacks :
                          /\ stacks[k].message[posts[id].slot].id = id
                          /\ InUse(k) \/ k \in revived \/ posts[id].slot = "reasoning"
    BY DEF NothingLeft
  <1>1. PICK k \in DOMAIN stacks : id \in Ids(stacks[k])  BY DEF StatusInv, Held
  <1>2. stacks[k].message[posts[id].slot].id = id /\ posts[id].slot \in Slots  BY <1>1, StackIds DEF StatusInv
  <1>3. id # 0  BY <1>1 DEF Ids
  <1>4. InUse(k) \/ k \in revived \/ Ended(stacks[k])  BY DEF StatusInv, Unused
  <1>5. Ended(stacks[k]) => posts[id].slot = "reasoning"  BY <1>2, <1>3 DEF Ended, Slots
  <1> QED  BY <1>2, <1>4, <1>5

\* Whatever turns, user messages and refreshes do to the live messages of a chat, in any order, and
\* whichever calls of Telegram fail: a question that a turn waits for stays in sight unless a later
\* turn took the block or an earlier one ended it; a healthy block reads from top to bottom; and every
\* message is removed, lost by a failed call, or known to the stack that will remove it.
THEOREM StatusHeld == StatusSpec => []StatusSound
  <1>1. StatusInv => StatusSound  BY PromptHolds, BlockHolds, NothingLeftHolds DEF StatusSound
  <1> QED  BY <1>1, StatusInitHolds, StatusNextHolds, PTL DEF StatusSpec
=============================================================================
