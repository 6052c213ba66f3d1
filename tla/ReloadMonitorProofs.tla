------------------------ MODULE ReloadMonitorProofs ------------------------
(***************************************************************************)
(* The reload timer follows the file, whatever is done to the file and to  *)
(* its directory and however late the events are read.                     *)
(***************************************************************************)
EXTENDS ReloadMonitor, TLAPS

(* The provers a leaf is tried with, in this order, unless it names one. *)
USE SMT, Zenon, Z3T(60)

\* A file that can be read holds one of the texts, or none.
LEMMA TextType ==
  ASSUME NEW x \in Texts \cup {Empty}
  PROVE  /\ x.kind \in {"date", "daily", "bad"} /\ x.at \in Nat
         /\ x.kind = "daily" => x.at < Day
  BY MonitorAssumption DEF Empty

\* now is so many days and a part of one.
LEMMA DayOf ==
  ASSUME NEW n \in Nat
  PROVE  /\ n \div Day \in Nat /\ Day * (n \div Day) \in Nat
         /\ Day * (n \div Day) <= n /\ n < Day * (n \div Day) + Day
  <1>1. Day \in Nat /\ Day > 0 BY MonitorAssumption
  <1> QED BY <1>1

\* A tick later it is the same day, or the next one has begun.
LEMMA DayAfter ==
  ASSUME NEW n \in Nat
  PROVE  \/ Day * ((n + 1) \div Day) = Day * (n \div Day)
         \/ /\ Day * ((n + 1) \div Day) = n + 1
            /\ Day * ((n + 1) \div Day) = Day * (n \div Day) + Day
  <1> DEFINE q == n \div Day  r == (n + 1) \div Day
  <1>1. Day \in Nat /\ Day > 0 BY MonitorAssumption
  <1>2. q \in Nat /\ Day * q <= n /\ n < Day * q + Day BY DayOf
  <1>3. r \in Nat /\ Day * r <= n + 1 /\ n + 1 < Day * r + Day BY DayOf
  <1> HIDE DEF q, r
  <1>4. ASSUME NEW a \in Nat, NEW b \in Nat, a + 1 <= b PROVE Day * a + Day <= Day * b
    <2> DEFINE c == b - (a + 1)
    <2>1. c \in Nat /\ b = a + 1 + c BY <1>4
    <2> HIDE DEF c
    <2>2. Day * (a + 1 + c) = Day * a + Day + Day * c BY <1>1, <2>1
    <2>3. Day * c >= 0 BY <1>1, <2>1
    <2> QED BY <1>1, <2>1, <2>2, <2>3
  <1>5. q <= r BY <1>1, <1>2, <1>3, <1>4
  <1>6. CASE r = q BY <1>6 DEF q, r
  <1>7. CASE r = q + 1
    <2>1. Day * (q + 1) = Day * q + Day BY <1>1, <1>2
    <2> QED BY <1>1, <1>2, <1>3, <1>7, <2>1 DEF q, r
  <1>8. ~(q + 2 <= r)
    <2> SUFFICES ASSUME q + 2 <= r PROVE FALSE OBVIOUS
    <2>1. Day * q + Day <= Day * (q + 1) BY <1>2, <1>4
    <2>2. Day * (q + 1) + Day <= Day * r BY <1>2, <1>3, <1>4
    <2> QED BY <1>1, <1>2, <1>3, <2>1, <2>2
  <1> QED BY <1>2, <1>3, <1>5, <1>6, <1>7, <1>8

\* What a text names is to come, or nothing.
LEMMA ParseType ==
  ASSUME NEW x \in Texts \cup {Empty}, now \in Nat
  PROVE  parse_datetime(x) \in Nat /\ (parse_datetime(x) = 0 \/ parse_datetime(x) > now)
  <1>1. Day \in Nat /\ Day > 0 BY MonitorAssumption
  <1> QED BY <1>1, TextType, DayOf DEF parse_datetime

\* It names the same moment until that moment comes.
LEMMA ParseLater ==
  ASSUME NEW x \in Texts \cup {Empty}, now \in Nat, now' = now + 1,
         parse_datetime(x) # now + 1
  PROVE  parse_datetime(x)' = parse_datetime(x)
  <1>1. Day \in Nat /\ Day > 0 BY MonitorAssumption
  <1>2. CASE x.kind # "daily" BY <1>2, TextType DEF parse_datetime
  <1>3. CASE x.kind = "daily"
    <2> DEFINE t == Day * (now \div Day)  u == Day * ((now + 1) \div Day)
    <2>1. t \in Nat /\ t <= now /\ now < t + Day BY DayOf
    <2>2. u \in Nat /\ u <= now + 1 /\ now + 1 < u + Day BY DayOf
    <2>3. u = t \/ (u = now + 1 /\ u = t + Day) BY DayAfter
    <2>4. parse_datetime(x) = IF t + x.at > now THEN t + x.at ELSE t + x.at + Day
      BY <1>3 DEF parse_datetime
    <2>5. parse_datetime(x)' = IF u + x.at > now + 1 THEN u + x.at ELSE u + x.at + Day
      BY <1>3 DEF parse_datetime
    <2>6. x.at \in Nat /\ x.at < Day BY <1>3, TextType
    <2> HIDE DEF t, u
    <2> QED BY <1>1, <2>1, <2>2, <2>3, <2>4, <2>5, <2>6
  <1> QED BY <1>2, <1>3

-----------------------------------------------------------------------------
(* The queue.                                                              *)

\* The first event goes, the others move up.
LEMMA Popped ==
  ASSUME queue \in Seq(Notices), queue # <<>>, queue' = Tail(queue)
  PROVE  /\ queue' \in Seq(Notices) /\ Len(queue') = Len(queue) - 1
         /\ Len(queue) \in Nat \ {0} /\ Head(queue) = queue[1] /\ queue[1] \in Notices
         /\ \A i \in 1..Len(queue') : i + 1 \in 1..Len(queue) /\ queue'[i] = queue[i + 1]
  OBVIOUS

\* An event is put behind the others.
LEMMA Pushed ==
  ASSUME queue \in Seq(Notices), NEW e \in Notices, queue' = Append(queue, e)
  PROVE  /\ queue' \in Seq(Notices) /\ Len(queue') = Len(queue) + 1 /\ Len(queue) \in Nat
         /\ queue'[Len(queue) + 1] = e
         /\ \A i \in 1..Len(queue) : queue'[i] = queue[i]
  OBVIOUS

\* An event of the directory that is the last one says whether there is a file.
LastTells ==
  \A i \in 1..Len(queue) :
    Named(i) /\ (\A j \in (i + 1)..Len(queue) : ~Named(j))
      => (queue[i].what = "DELETE" <=> timefile.ino = 0)

Kinds == \A i \in 1..Len(queue) : Named(i) <=> queue[i].wd = 0

NoneGone == \A i \in 1..Len(queue) : queue[i].what # "GONE"

\* After an event of the directory has been put there, the queue is as it should be.
LEMMA PushNamed ==
  ASSUME MonitorInv, NEW w \in {"CREATE", "MOVED_TO", "DELETE", "GONE"},
         queue' = Append(queue, [what |-> w, wd |-> 0])
  PROVE  /\ queue' \in Seq(Notices) /\ Kinds' /\ ~NonePending'
         /\ NoneGone' <=> (w # "GONE" /\ NoneGone)
         /\ (w = "DELETE" <=> timefile'.ino = 0) => LastTells'
  <1> DEFINE e == [what |-> w, wd |-> 0]
  <1>1. e \in Notices BY DEF Notices
  <1>2. queue \in Seq(Notices) BY DEF MonitorInv, MonitorType
  <1>3. /\ queue' \in Seq(Notices) /\ Len(queue') = Len(queue) + 1 /\ Len(queue) \in Nat
        /\ queue'[Len(queue) + 1] = e
        /\ \A i \in 1..Len(queue) : queue'[i] = queue[i]
    BY <1>1, <1>2, Pushed
  <1>4. e.what = w /\ e.wd = 0 /\ e.what # "CLOSE_WRITE" OBVIOUS
  <1> HIDE DEF e
  <1>5. Kinds' BY <1>3, <1>4 DEF Kinds, Named, MonitorInv
  <1>6. (w = "DELETE" <=> timefile'.ino = 0) => LastTells' BY <1>3, <1>4 DEF LastTells, Named
  <1>7. ~NonePending' BY <1>3, <1>4 DEF NonePending, Named
  <1>8. NoneGone' <=> (w # "GONE" /\ NoneGone) BY <1>3, <1>4 DEF NoneGone
  <1> QED BY <1>3, <1>5, <1>6, <1>7, <1>8

\* What happens to the file behind the back of a monitor that no longer watches its
\* directory is all the same to it.
LEMMA UnseenInv ==
  ASSUME MonitorInv, ~Watching, mode' = mode, mode = "watching" => dir' # "watched",
         queue' = queue, timer' = timer, time' = time, now' = now, MonitorType',
         open' => timefile'.ino # 0, dir' = "none" => timefile'.ino = 0,
         watched' \in {0, timefile'.ino}
  PROVE  MonitorInv'
  <1>1. ~Watching' BY DEF Watching
  <1>2. mode = "watching" => dir # "watched" BY DEF Watching
  <1> QED BY <1>1, <1>2 DEF MonitorInv, Named

\* Reading the file sets the timer to what the file says.
LEMMA ReadSets ==
  ASSUME MonitorInv, read_file
  PROVE  /\ timer' = Written
         /\ time' = timer' \/ (timer' = 0 /\ time' <= now)
         /\ time' \in Nat /\ dated' \in BOOLEAN
  <1>1. Written \in Nat /\ (Written = 0 \/ Written > now)
    BY ParseType DEF MonitorInv, MonitorType, Written
  <1>2. dated' \in BOOLEAN BY Zenon DEF read_file, cancel_reload, MonitorInv, MonitorType
  <1> QED BY <1>1, <1>2 DEF MonitorInv, MonitorType, read_file, cancel_reload

\* The time that the file gives is a number.
LEMMA WrittenType ==
  ASSUME MonitorInv
  PROVE  Written \in Nat /\ (Written = 0 \/ Written > now)
  BY ParseType DEF MonitorInv, MonitorType, Written

-----------------------------------------------------------------------------
(* Every step keeps the invariant.                                         *)

\* A monitor that has just been started waits for a file.
LEMMA InitInv == InitMonitor => MonitorInv
  <1> SUFFICES ASSUME InitMonitor PROVE MonitorInv OBVIOUS
  <1>1. repeat \in BOOLEAN BY MonitorAssumption, Zenon DEF InitMonitor
  <1>2. queue \in Seq(Notices) BY DEF InitMonitor
  <1>3. timefile \in [ino : Nat, text : Texts \cup {Empty}] BY DEF InitMonitor
  <1>4. open \in BOOLEAN /\ dated \in BOOLEAN /\ hup \in BOOLEAN
    BY Zenon DEF InitMonitor
  <1>5. MonitorType
    BY <1>1, <1>2, <1>3, <1>4, MonitorAssumption DEF InitMonitor, MonitorType, Modes
  <1> QED BY <1>5 DEF InitMonitor, MonitorInv, Written

\* A file that is opened for writing is empty until it is closed; a new one is told about.
LEMMA OpenFileInv ==
  ASSUME MonitorInv, OpenFile
  PROVE  MonitorInv'
  <1>1. NewIno \in Nat \ {0} /\ left' \in 0..Changes
    BY MonitorAssumption DEF MonitorInv, MonitorType, OpenFile, Admin, NewIno
  <1>2. CASE timefile.ino = 0 /\ Watching
    <2>1. queue' = Append(queue, [what |-> "CREATE", wd |-> 0]) /\ timefile'.ino = NewIno
      BY <1>2 DEF OpenFile, TellDir, Tell, Watching
    <2>2. queue' \in Seq(Notices) /\ Kinds' /\ LastTells' /\ ~NonePending' /\ (NoneGone' <=> NoneGone)
      BY <1>1, <2>1, PushNamed
    <2>3. MonitorType'
      BY <1>1, <1>2, <2>2 DEF MonitorInv, MonitorType, OpenFile, Admin
    <2> QED BY <1>1, <1>2, <2>1, <2>2, <2>3
        DEF MonitorInv, OpenFile, Admin, Kinds, LastTells, Named, NoneGone, Watching
  <1>3. CASE timefile.ino = 0 /\ ~Watching
    <2>1. queue' = queue /\ timefile'.ino = NewIno /\ dir' = dir /\ mode' = mode
      BY <1>3 DEF OpenFile, Admin, TellDir, Tell, Watching
    <2>2. MonitorType' BY <1>1, <1>3, <2>1 DEF MonitorInv, MonitorType, OpenFile, Admin
    <2> QED BY <1>1, <1>3, <2>1, <2>2, UnseenInv DEF MonitorInv, OpenFile, Admin, Watching
  <1>4. CASE timefile.ino # 0
    <2>1. queue' = queue /\ timefile'.ino = timefile.ino /\ watched' = watched
      BY <1>4 DEF MonitorInv, MonitorType, OpenFile
    <2>2. MonitorType' BY <1>1, <1>4, <2>1 DEF MonitorInv, MonitorType, OpenFile, Admin
    <2> QED BY <1>4, <2>1, <2>2 DEF MonitorInv, OpenFile, Admin, Named, NonePending, Watching
  <1> QED BY <1>2, <1>3, <1>4 DEF MonitorInv, MonitorType

\* A file that is moved in place of the old one puts a notice of the directory in the queue.
LEMMA ReplaceInv ==
  ASSUME MonitorInv, NEW x \in Texts, Replace(x)
  PROVE  MonitorInv'
  <1>1. NewIno \in Nat \ {0} /\ left' \in 0..Changes
    BY MonitorAssumption DEF MonitorInv, MonitorType, Replace, Admin, NewIno
  <1>2. timefile'.ino = NewIno /\ watched' = 0
    BY DEF MonitorInv, Replace
  <1>3. CASE Watching
    <2>1. queue' = Append(queue, [what |-> "MOVED_TO", wd |-> 0])
      BY <1>3 DEF Replace, TellDir, Tell, Watching
    <2>2. queue' \in Seq(Notices) /\ Kinds' /\ LastTells' /\ ~NonePending' /\ (NoneGone' <=> NoneGone)
      BY <1>1, <1>2, <2>1, PushNamed
    <2>3. MonitorType'
      BY <1>1, <1>2, <2>2 DEF MonitorInv, MonitorType, Replace, Admin
    <2> QED BY <1>1, <1>2, <1>3, <2>2, <2>3
        DEF MonitorInv, Replace, Admin, Kinds, LastTells, Named, NoneGone, Watching
  <1>4. CASE ~Watching
    <2>1. queue' = queue /\ dir' = dir /\ mode' = mode
      BY <1>4 DEF Replace, Admin, TellDir, Tell, Watching
    <2>2. MonitorType' BY <1>1, <1>2, <2>1 DEF MonitorInv, MonitorType, Replace, Admin
    <2> QED BY <1>1, <1>2, <1>4, <2>1, <2>2, UnseenInv DEF MonitorInv, Replace, Admin, Watching
  <1> QED BY <1>3, <1>4

\* So does one that is removed.
LEMMA RemoveInv ==
  ASSUME MonitorInv, RemoveFile
  PROVE  MonitorInv'
  <1>1. left' \in 0..Changes
    BY MonitorAssumption DEF MonitorInv, MonitorType, RemoveFile, Admin
  <1>2. timefile'.ino = 0 /\ watched' = 0
    BY DEF MonitorInv, RemoveFile
  <1>3. CASE Watching
    <2>1. queue' = Append(queue, [what |-> "DELETE", wd |-> 0])
      BY <1>3 DEF RemoveFile, TellDir, Tell, Watching
    <2>2. queue' \in Seq(Notices) /\ Kinds' /\ LastTells' /\ ~NonePending' /\ (NoneGone' <=> NoneGone)
      BY <1>2, <2>1, PushNamed
    <2>3. MonitorType'
      BY <1>1, <1>2, <2>2 DEF MonitorInv, MonitorType, RemoveFile, Admin
    <2> QED BY <1>2, <1>3, <2>2, <2>3
        DEF MonitorInv, RemoveFile, Admin, Kinds, LastTells, Named, NoneGone, Watching
  <1>4. CASE ~Watching
    <2>1. queue' = queue /\ dir' = dir /\ mode' = mode
      BY <1>4 DEF RemoveFile, Admin, TellDir, Tell, Watching
    <2>2. MonitorType' BY <1>1, <1>2, <2>1 DEF MonitorInv, MonitorType, RemoveFile, Admin
    <2> QED BY <1>2, <1>4, <2>1, <2>2, UnseenInv DEF MonitorInv, RemoveFile, Admin, Watching
  <1> QED BY <1>3, <1>4

\* The directory goes: from then on its last event is in the queue.
LEMMA RemoveDirInv ==
  ASSUME MonitorInv, RemoveDir
  PROVE  MonitorInv'
  <1>1. left' \in 0..Changes
    BY MonitorAssumption DEF MonitorInv, MonitorType, RemoveDir, Admin
  <1>2. timefile'.ino = 0 /\ watched' = 0 /\ dir' = "none" /\ mode' = mode /\ ~open' /\ ~open
    BY DEF MonitorInv, MonitorType, RemoveDir, Admin
  <1>3. CASE Watching
    <2>1. queue' = Append(queue, [what |-> "GONE", wd |-> 0])
      BY <1>3 DEF RemoveDir, TellDir, Tell, Watching
    <2>2. queue' \in Seq(Notices) /\ Kinds' /\ ~NoneGone'
      BY <2>1, PushNamed
    <2>3. MonitorType'
      BY <1>1, <1>2, <2>2 DEF MonitorInv, MonitorType, RemoveDir, Admin
    <2> QED BY <1>2, <1>3, <2>2, <2>3
        DEF MonitorInv, RemoveDir, Admin, Kinds, Named, NoneGone, Watching
  <1>4. CASE ~Watching
    <2>1. queue' = queue BY <1>4 DEF RemoveDir, TellDir, Tell, Watching
    <2>2. MonitorType' BY <1>1, <1>2, <2>1 DEF MonitorInv, MonitorType, RemoveDir, Admin
    <2> QED BY <1>2, <1>4, <2>1, <2>2, UnseenInv DEF MonitorInv, RemoveDir, Admin
  <1> QED BY <1>3, <1>4

\* Another directory of that name is not watched.
LEMMA MakeDirInv ==
  ASSUME MonitorInv, MakeDir
  PROVE  MonitorInv'
  <1>1. left' \in 0..Changes
    BY MonitorAssumption DEF MonitorInv, MonitorType, MakeDir, Admin
  <1>2. MonitorType' BY <1>1 DEF MonitorInv, MonitorType, MakeDir, Admin
  <1>3. ~Watching /\ dir' = "other" BY DEF MakeDir, Watching
  <1> QED BY <1>2, <1>3, UnseenInv DEF MonitorInv, MakeDir, Admin

\* A file that is written and closed leaves a notice about itself, if it is watched.
LEMMA CloseFileInv ==
  ASSUME MonitorInv, NEW x \in Texts, CloseFile(x)
  PROVE  MonitorInv'
  <1>1. timefile'.ino = timefile.ino /\ timefile.ino # 0 /\ timefile.ino \in Nat
    BY DEF MonitorInv, MonitorType, CloseFile
  <1>2. CASE mode = "watching" /\ watched = timefile.ino
    <2> DEFINE e == [what |-> "CLOSE_WRITE", wd |-> watched]
    <2>1. e \in Notices BY DEF Notices, MonitorInv, MonitorType
    <2>2. queue \in Seq(Notices) /\ queue' = Append(queue, e)
      BY <1>2 DEF MonitorInv, MonitorType, CloseFile, Tell
    <2>3. /\ queue' \in Seq(Notices) /\ Len(queue') = Len(queue) + 1 /\ Len(queue) \in Nat
          /\ queue'[Len(queue) + 1] = e
          /\ \A i \in 1..Len(queue) : queue'[i] = queue[i]
      BY <2>1, <2>2, Pushed
    <2>4. e.what = "CLOSE_WRITE" /\ e.wd = timefile.ino BY <1>2
    <2> HIDE DEF e
    <2>5. MonitorType' BY Zenon, <2>3 DEF MonitorInv, MonitorType, CloseFile
    <2>6. Kinds' BY <1>1, <2>3, <2>4 DEF Kinds, Named, MonitorInv
    <2>7. Watching => LastTells'
      <3> SUFFICES ASSUME Watching, NEW i \in 1..Len(queue'), Named(i)',
                          \A j \in (i + 1)..Len(queue') : ~Named(j)'
                   PROVE  queue'[i].what = "DELETE" <=> timefile.ino = 0
        BY <1>1 DEF LastTells
      <3>1. i # Len(queue) + 1 BY <2>3, <2>4 DEF Named
      <3>2. i \in 1..Len(queue) /\ queue'[i] = queue[i] BY <2>3, <3>1
      <3>3. \A j \in (i + 1)..Len(queue) : ~Named(j) BY <2>3 DEF Named
      <3> QED BY <3>2, <3>3 DEF MonitorInv, Named
    <2>8. NonePending' => NonePending BY <2>3 DEF NonePending, Named
    <2>9. Rewritten' BY <1>1, <2>3, <2>4 DEF Rewritten, Named
    <2>10. NoneGone' <=> NoneGone BY <2>3, <2>4 DEF NoneGone
    <2>11. mode' = mode /\ dir' = dir /\ (Watching' <=> Watching) BY DEF CloseFile, Watching
    <2> QED BY <1>1, <1>2, <2>5, <2>6, <2>7, <2>8, <2>9, <2>10, <2>11
        DEF MonitorInv, CloseFile, Kinds, LastTells, Named, NoneGone
  <1>3. CASE mode # "watching"
    <2>1. queue' = queue /\ queue = <<>> BY <1>3 DEF MonitorInv, CloseFile, Tell
    <2>2. MonitorType' BY Zenon, <2>1 DEF MonitorInv, MonitorType, CloseFile
    <2> QED BY <1>1, <1>3, <2>1, <2>2 DEF MonitorInv, CloseFile, Watching
  <1>4. CASE mode = "watching" /\ watched # timefile.ino
    <2>1. queue' = queue BY <1>4 DEF CloseFile
    <2>2. MonitorType' BY Zenon, <2>1 DEF MonitorInv, MonitorType, CloseFile
    <2>3. mode' = mode /\ dir' = dir /\ (Watching' <=> Watching) BY DEF CloseFile, Watching
    <2>4. Watching => ~NonePending /\ ~NonePending'
      BY <1>4, <2>1 DEF MonitorInv, NonePending, Named
    <2> QED BY <1>1, <1>4, <2>1, <2>2, <2>3, <2>4 DEF MonitorInv, CloseFile, Named
  <1> QED BY <1>2, <1>3, <1>4 DEF MonitorInv, MonitorType

\* Time passes: what the file names stays the same until it comes.
LEMMA TickInv ==
  ASSUME MonitorInv, Tick
  PROVE  MonitorInv'
  <1>1. now \in Nat /\ now' = now + 1 BY DEF MonitorInv, MonitorType, Tick
  <1>2. MonitorType' BY <1>1 DEF MonitorInv, MonitorType, Tick, disk
  <1>3. ASSUME timer = Written, ~TimeDue' PROVE Written' = Written
    <2>1. CASE timefile.ino = 0 BY <2>1 DEF Written, Tick, disk
    <2>2. CASE timefile.ino # 0
      <3>1. timefile.text \in Texts \cup {Empty} BY DEF MonitorInv, MonitorType
      <3>2. timer = parse_datetime(timefile.text) BY <1>3, <2>2 DEF Written
      <3>3. timer # now + 1 BY <1>1, <1>3 DEF TimeDue, Tick
      <3>4. parse_datetime(timefile.text)' = parse_datetime(timefile.text)
        <4> DEFINE x == timefile.text
        <4>1. x' = x BY DEF Tick, disk
        <4> QED BY Zenon, <1>1, <3>1, <3>2, <3>3, <4>1, ParseLater DEF parse_datetime
      <3> QED BY <2>2, <3>4 DEF Written, Tick, disk
    <2> QED BY <2>1, <2>2
  <1>4. UNCHANGED <<queue, mode, dir, timefile, open, watched, wd, timer, time>> BY DEF Tick, disk
  <1>5. (NonePending' <=> NonePending) /\ (Rewritten' <=> Rewritten) /\ (Watching' <=> Watching)
    BY <1>4 DEF Named, NonePending, Rewritten, Watching
  <1>6. TimeDue => TimeDue' BY <1>1, <1>4 DEF TimeDue, MonitorInv, MonitorType
  <1> QED BY <1>1, <1>2, <1>3, <1>4, <1>5, <1>6 DEF MonitorInv, MonitorType, Named

\* reload_timer_thread() stops watching: a monitor that is off knows nothing.
LEMMA TimerInv ==
  ASSUME MonitorInv, reload_timer
  PROVE  MonitorInv'
  <1>1. queue' = <<>> /\ timer' = 0 /\ mode' = "fired" /\ dir' = dir BY DEF reload_timer
  <1>2. timefile' \in [ino : Nat, text : Texts \cup {Empty}]
    BY DEF MonitorInv, MonitorType, reload_timer
  <1>3. open' \in BOOLEAN /\ (open' => timefile'.ino # 0) BY Zenon DEF reload_timer
  <1>4. mode' \in Modes /\ hup' \in BOOLEAN BY <1>1, Zenon DEF reload_timer, Modes
  <1>5. queue' \in Seq(Notices) BY <1>1
  <1>6. MonitorType'
    BY <1>1, <1>2, <1>3, <1>4, <1>5 DEF MonitorInv, MonitorType, reload_timer
  <1>7. dir' = "none" => timefile'.ino = 0 BY <1>1 DEF MonitorInv, reload_timer
  <1>8. time' <= now' BY DEF MonitorInv, MonitorType, reload_timer, TimeDue
  <1> QED BY <1>1, <1>3, <1>6, <1>7, <1>8 DEF MonitorInv, reload_timer, Watching

\* A monitor that is stopped has nothing to do.
LEMMA OffInv ==
  ASSUME MonitorInv, mode' \in Modes \ {"watching"}, queue' = <<>>, timer' = 0, watched' = 0,
         time' \in Nat, time' <= now, dated' \in BOOLEAN, repeat' \in BOOLEAN, hup' \in BOOLEAN,
         UNCHANGED <<now, disk, wd>>
  PROVE  MonitorInv'
  <1>1. queue' \in Seq(Notices) OBVIOUS
  <1>2. UNCHANGED <<now, left, dir, timefile, open, wd>> BY DEF disk
  <1>3. MonitorType' BY <1>1, <1>2 DEF MonitorInv, MonitorType
  <1> QED BY <1>2, <1>3 DEF MonitorInv, Watching

\* start_reload_monitor() reads the file and watches it.
LEMMA StartInv ==
  ASSUME MonitorInv, NEW t \in Nat, t <= now, NEW d \in BOOLEAN, start_reload_monitor(t, d),
         repeat' \in BOOLEAN, hup' \in BOOLEAN, UNCHANGED <<now, left, timefile, open>>
  PROVE  MonitorInv'
  <1>1. CASE dir = "none"
    <2>1. UNCHANGED disk BY <1>1 DEF start_reload_monitor, disk
    <2> QED BY <1>1, <2>1, OffInv DEF start_reload_monitor, Modes
  <1>2. CASE dir # "none"
    <2>1. Written \in Nat /\ (Written = 0 \/ Written > now) BY WrittenType
    <2>2. Written' = Written BY DEF Written, parse_datetime
    <2>3. /\ queue' = <<>> /\ mode' = "watching" /\ dir' = "watched"
          /\ wd' = timefile.ino /\ watched' = timefile.ino
          /\ timer' = (IF Written # t THEN Written ELSE 0)
          /\ time' = (IF Written = 0 THEN t ELSE Written)
      BY <1>2 DEF start_reload_monitor
    <2>4. dated' \in BOOLEAN BY <1>2, Zenon DEF start_reload_monitor
    <2>5. queue' \in Seq(Notices) BY <2>3
    <2>6. now \in Nat BY DEF MonitorInv, MonitorType
    <2>7. timer' = Written /\ (time' = timer' \/ (timer' = 0 /\ time' <= now)) BY <2>1, <2>3, <2>6
    <2>8. time' \in Nat BY <2>1, <2>3
    <2>9. MonitorType'
      BY <2>1, <2>3, <2>4, <2>5, <2>7, <2>8 DEF MonitorInv, MonitorType, Modes
    <2> QED BY <2>2, <2>3, <2>7, <2>9 DEF MonitorInv
  <1> QED BY <1>1, <1>2

\* What is left of reload_time is past.
LEMMA StoppedPast ==
  ASSUME MonitorInv
  PROVE  StoppedTime \in Nat /\ StoppedTime <= now
  BY DEF MonitorInv, MonitorType, StoppedTime, IsNull

\* A reload stops the monitor, and starts it again if it is wanted.
LEMMA ReloadInv ==
  ASSUME MonitorInv, NEW r \in Repeats, NEW wanted \in BOOLEAN, Reload(r, wanted)
  PROVE  MonitorInv'
  <1>1. r \in BOOLEAN BY MonitorAssumption
  <1>2. 0 \in Nat /\ 0 <= now BY DEF MonitorInv, MonitorType
  <1>3. CASE wanted
    <2>1. start_reload_monitor(0, FALSE) /\ repeat' = r /\ ~hup' BY <1>3 DEF Reload
    <2>2. UNCHANGED <<now, left, timefile, open>> BY DEF Reload
    <2>3. hup' \in BOOLEAN /\ FALSE \in BOOLEAN BY Zenon DEF Reload
    <2> QED BY <1>1, <1>2, <2>1, <2>2, <2>3, StartInv
  <1>4. CASE ~wanted
    <2>1. /\ mode' = "unset" /\ queue' = <<>> /\ timer' = 0 /\ watched' = 0 /\ time' = 0
          /\ dated' = FALSE /\ repeat' = r /\ hup' = FALSE /\ UNCHANGED <<now, disk, wd>>
      BY <1>4 DEF Reload, disk
    <2>2. mode' \in Modes \ {"watching"} BY <2>1 DEF Modes
    <2>3. dated' \in BOOLEAN /\ hup' \in BOOLEAN BY <2>1, Zenon
    <2> QED BY <1>1, <1>2, <2>1, <2>2, <2>3, OffInv
  <1> QED BY <1>3, <1>4

\* So does one that keeps the old global_data.
LEMMA ReloadKeepsInv ==
  ASSUME MonitorInv, ReloadKeeps
  PROVE  MonitorInv'
  <1>1. dated \in BOOLEAN /\ repeat' \in BOOLEAN /\ hup' \in BOOLEAN
    BY Zenon DEF MonitorInv, MonitorType, ReloadKeeps
  <1>2. start_reload_monitor(StoppedTime, dated) /\ UNCHANGED <<now, left, timefile, open>>
    BY DEF ReloadKeeps
  <1> QED BY <1>1, <1>2, StoppedPast, StartInv

\* The parent ends.
LEMMA SigendInv ==
  ASSUME MonitorInv, Sigend
  PROVE  MonitorInv'
  <1>1. dated' \in BOOLEAN /\ repeat' \in BOOLEAN /\ hup' \in BOOLEAN
    BY Zenon DEF MonitorInv, MonitorType, Sigend
  <1>2. timer' = 0 BY DEF MonitorInv, Sigend, IsNull
  <1>3. /\ mode' \in Modes \ {"watching"} /\ queue' = <<>> /\ watched' = 0
        /\ time' = StoppedTime /\ UNCHANGED <<now, disk, wd>>
    BY DEF Sigend, Modes
  <1> QED BY <1>1, <1>2, <1>3, StoppedPast, OffInv

\* A signal changes nothing the monitor knows; nor does a reload that is refused.
LEMMA HupInv ==
  ASSUME MonitorInv, Sighup \/ ReloadRefused
  PROVE  MonitorInv'
  <1>1. left' \in 0..Changes /\ left' \in Int
    BY MonitorAssumption DEF MonitorInv, MonitorType, Sighup, Admin, ReloadRefused, disk
  <1>2. hup' \in BOOLEAN BY Zenon DEF Sighup, ReloadRefused
  <1>3. UNCHANGED <<now, repeat, dir, timefile, open, queue, mode, watched, wd, timer, time, dated>>
    BY DEF Sighup, Admin, ReloadRefused, disk
  <1>4. MonitorType' BY <1>1, <1>2, <1>3 DEF MonitorInv, MonitorType
  <1> QED BY ZenonT(40), <1>3, <1>4 DEF MonitorInv, Named, NonePending, Rewritten, TimeDue, Written,
             parse_datetime, Watching

\* An event is handled that is not the directory's last one: the events of the directory
\* say which file there is, and the last event about a file makes the parent read it.
LEMMA PopInv ==
  ASSUME MonitorInv, inotify_event, queue # <<>>, Head(queue).what # "GONE"
  PROVE  MonitorInv'
  <1> DEFINE e == Head(queue)
  <1>1. /\ queue' \in Seq(Notices) /\ Len(queue') = Len(queue) - 1
        /\ Len(queue) \in Nat \ {0} /\ e = queue[1] /\ queue[1] \in Notices
        /\ \A i \in 1..Len(queue') : i + 1 \in 1..Len(queue) /\ queue'[i] = queue[i + 1]
    <2>1. queue' = Tail(queue) BY DEF inotify_event
    <2> QED BY <2>1, Popped DEF MonitorInv, MonitorType
  <1>2. /\ mode = "watching" /\ mode' = mode /\ dir' = dir /\ timefile' = timefile
        /\ open' = open /\ now' = now /\ (Watching' <=> Watching)
    BY DEF inotify_event, disk, Watching
  <1>0. NoneGone' <=> NoneGone
    <2>1. ASSUME NoneGone' PROVE NoneGone
      <3> SUFFICES ASSUME NEW j \in 1..Len(queue) PROVE queue[j].what # "GONE" BY DEF NoneGone
      <3>1. CASE j = 1 BY <1>1, <3>1
      <3>2. CASE j # 1
        <4>1. j - 1 \in 1..Len(queue') BY <1>1, <3>2
        <4>2. queue'[j - 1] = queue[j] BY <1>1, <4>1
        <4> QED BY <2>1, <4>1, <4>2 DEF NoneGone
      <3> QED BY <3>1, <3>2
    <2>2. ASSUME NoneGone PROVE NoneGone' BY <1>1, <2>2 DEF NoneGone
    <2> QED BY <2>1, <2>2
  <1>3. Written' = Written BY <1>2 DEF Written, parse_datetime
  <1>4. Kinds' BY <1>1 DEF Kinds, Named, MonitorInv
  <1>5. Watching => LastTells'
    <2> SUFFICES ASSUME Watching, NEW i \in 1..Len(queue'), Named(i)',
                        \A j \in (i + 1)..Len(queue') : ~Named(j)'
                 PROVE  queue'[i].what = "DELETE" <=> timefile.ino = 0
      BY <1>2 DEF LastTells
    <2>1. i + 1 \in 1..Len(queue) /\ queue'[i] = queue[i + 1] BY <1>1
    <2>2. ASSUME NEW j \in (i + 2)..Len(queue) PROVE ~Named(j)
      <3>1. j - 1 \in (i + 1)..Len(queue') /\ j - 1 \in 1..Len(queue') BY <1>1, <2>2
      <3>2. queue'[j - 1] = queue[j] BY <1>1, <3>1
      <3> QED BY <3>1, <3>2 DEF Named
    <2> QED BY <2>1, <2>2 DEF MonitorInv, Named
  <1>6. Watching /\ e.what # "CLOSE_WRITE" /\ NonePending' => (e.what = "DELETE" <=> timefile.ino = 0)
    <2> SUFFICES ASSUME Watching, e.what # "CLOSE_WRITE", NonePending'
                 PROVE  e.what = "DELETE" <=> timefile.ino = 0
      OBVIOUS
    <2>1. Named(1) /\ 1 \in 1..Len(queue) BY <1>1 DEF Named
    <2>2. ASSUME NEW j \in 2..Len(queue) PROVE ~Named(j)
      <3>1. j - 1 \in 1..Len(queue') BY <1>1, <2>2
      <3>2. queue'[j - 1] = queue[j] BY <1>1, <3>1
      <3> QED BY <3>1, <3>2 DEF Named, NonePending
    <2> QED BY <1>1, <2>1, <2>2 DEF MonitorInv
  <1>7. CASE e.what = "CLOSE_WRITE"
    <2>1. wd' = wd /\ watched' = watched BY <1>7 DEF inotify_event
    <2>2. NonePending' => NonePending
      <3> SUFFICES ASSUME NonePending', NEW j \in 1..Len(queue) PROVE ~Named(j)
        BY DEF NonePending
      <3>1. CASE j = 1 BY <1>1, <1>7, <3>1 DEF Named
      <3>2. CASE j # 1
        <4>1. j - 1 \in 1..Len(queue') BY <1>1, <3>2
        <4>2. queue'[j - 1] = queue[j] BY <1>1, <4>1
        <4> QED BY <4>1, <4>2 DEF Named, NonePending
      <3> QED BY <3>1, <3>2
    <2>3. Rewritten => e.wd = timefile.ino \/ Rewritten'
      <3> SUFFICES ASSUME Rewritten, e.wd # timefile.ino PROVE Rewritten' OBVIOUS
      <3>1. PICK j \in 1..Len(queue) : ~Named(j) /\ queue[j].wd = timefile.ino BY DEF Rewritten
      <3>2. j # 1 BY <1>1, <3>1
      <3>3. j - 1 \in 1..Len(queue') BY <1>1, <3>2
      <3>4. queue'[j - 1] = queue[j] BY <1>1, <3>3
      <3> QED BY <1>2, <3>1, <3>3, <3>4 DEF Rewritten, Named
    <2>4. e.wd \in Nat \ {0}
      <3>1. ~Named(1) /\ 1 \in 1..Len(queue) BY <1>1, <1>7 DEF Named
      <3>2. e.wd \in Nat BY <1>1 DEF Notices
      <3> QED BY <1>1, <3>1, <3>2 DEF MonitorInv
    <2>5. CASE wd # 0 /\ e.wd = wd
      <3>1. read_file BY <1>7, <2>5 DEF inotify_event
      <3>2. /\ timer' = Written
            /\ time' = timer' \/ (timer' = 0 /\ time' <= now)
            /\ time' \in Nat /\ dated' \in BOOLEAN
        BY <3>1, ReadSets
      <3>4. MonitorType'
        BY <1>1, <2>1, <3>2, WrittenType DEF MonitorInv, MonitorType, inotify_event, disk
      <3> QED BY <1>0, <1>2, <1>3, <1>4, <1>5, <2>1, <2>2, <3>2, <3>4
          DEF MonitorInv, Kinds, LastTells, Named, NoneGone
    <2>6. CASE ~(wd # 0 /\ e.wd = wd)
      <3>1. timer' = timer /\ time' = time /\ dated' = dated
        BY <1>7, <2>6 DEF inotify_event
      <3>2. MonitorType'
        BY <1>1, <2>1, <3>1 DEF MonitorInv, MonitorType, inotify_event, disk
      <3>3. TimeDue' <=> TimeDue BY <1>2, <3>1 DEF TimeDue
      <3>4. ASSUME Watching, NonePending', ~open', ~TimeDue' PROVE timer' = Written' \/ Rewritten'
        <4>1. wd = timefile.ino /\ (timer = Written \/ Rewritten)
          BY <1>2, <2>2, <3>3, <3>4 DEF MonitorInv
        <4>2. e.wd # timefile.ino BY <2>4, <2>6, <4>1
        <4> QED BY <1>3, <2>3, <3>1, <4>1, <4>2
      <3> QED BY <1>0, <1>2, <1>4, <1>5, <2>1, <2>2, <3>1, <3>2, <3>4
          DEF MonitorInv, Kinds, LastTells, Named, NoneGone
    <2> QED BY <2>5, <2>6
  <1>8. CASE e.what \in {"CREATE", "MOVED_TO"}
    <2>1. watch_file BY <1>8 DEF inotify_event
    <2>2. CASE timefile.ino = 0
      <3>1. Watching => ~NonePending' BY <1>6, <1>8, <2>2
      <3>2. wd' = 0 /\ watched' = watched /\ timer' = timer /\ time' = time /\ dated' = dated
        BY <2>1, <2>2 DEF watch_file
      <3>3. MonitorType'
        BY <1>1, <3>2 DEF MonitorInv, MonitorType, inotify_event, disk
      <3> QED BY <1>0, <1>2, <1>4, <1>5, <3>1, <3>2, <3>3 DEF MonitorInv, Kinds, LastTells, Named, NoneGone
    <2>3. CASE timefile.ino # 0
      <3>1. wd' = timefile.ino /\ watched' = timefile.ino /\ read_file
        BY <2>1, <2>3 DEF watch_file
      <3>2. /\ timer' = Written
            /\ time' = timer' \/ (timer' = 0 /\ time' <= now)
            /\ time' \in Nat /\ dated' \in BOOLEAN
        BY <3>1, ReadSets
      <3>4. MonitorType'
        BY <1>1, <3>1, <3>2, WrittenType DEF MonitorInv, MonitorType, inotify_event, disk
      <3> QED BY <1>0, <1>2, <1>3, <1>4, <1>5, <3>1, <3>2, <3>4
          DEF MonitorInv, Kinds, LastTells, Named, NoneGone
    <2> QED BY <2>2, <2>3
  <1>9. CASE e.what = "DELETE"
    <2>1. /\ watched' = IF watched = wd THEN 0 ELSE watched
          /\ wd' = 0 /\ cancel_reload
      BY <1>9 DEF inotify_event
    <2>2. timer' = 0 /\ time' \in Nat /\ time' <= now /\ dated' = dated
      BY <2>1 DEF cancel_reload, MonitorInv, MonitorType
    <2>3. MonitorType'
      BY <1>1, <2>1, <2>2 DEF MonitorInv, MonitorType, inotify_event, disk
    <2>4. Watching /\ NonePending' => timefile.ino = 0 /\ Written = 0 /\ watched' = 0
      BY <1>6, <1>9, <2>1 DEF Written, MonitorInv
    <2> QED BY <1>0, <1>2, <1>3, <1>4, <1>5, <2>1, <2>2, <2>3, <2>4
        DEF MonitorInv, Kinds, LastTells, Named, NoneGone
  <1> QED BY <1>1, <1>7, <1>8, <1>9 DEF Notices

\* An event is handled.
LEMMA EventInv ==
  ASSUME MonitorInv, inotify_event
  PROVE  MonitorInv'
  <1> DEFINE e == Head(queue)
  <1>1. queue \in Seq(Notices) /\ queue # <<>> /\ mode = "watching"
    BY DEF MonitorInv, MonitorType, inotify_event
  <1>2. CASE e.what = "GONE"
    <2>1. mode' = "gone" /\ queue' = <<>> /\ watched' = 0 /\ cancel_reload
      BY <1>2 DEF inotify_event
    <2>2. dated' \in BOOLEAN /\ repeat' \in BOOLEAN /\ hup' \in BOOLEAN
      BY <2>1, Zenon DEF MonitorInv, MonitorType, inotify_event, cancel_reload
    <2>3. UNCHANGED <<now, disk, wd>> BY <1>2 DEF inotify_event
    <2>4. timer' = 0 /\ time' \in Nat /\ time' <= now
      BY <2>1 DEF MonitorInv, MonitorType, cancel_reload
    <2>5. mode' \in Modes \ {"watching"} BY <2>1 DEF Modes
    <2> QED BY <2>1, <2>2, <2>3, <2>4, <2>5, OffInv
  <1>3. ASSUME e.what # "GONE" PROVE MonitorInv' BY <1>1, <1>3, PopInv
  <1> QED BY <1>2, <1>3

\* Every step keeps the invariant.
LEMMA StepInv == MonitorInv /\ [NextMonitor]_monitorVars => MonitorInv'
  <1> SUFFICES ASSUME MonitorInv, [NextMonitor]_monitorVars PROVE MonitorInv' OBVIOUS
  <1>1. CASE UNCHANGED monitorVars
    <2>1. UNCHANGED <<now, left, repeat, dir, timefile, open, queue, mode, watched, wd, timer, time,
                      dated, hup>>
      BY <1>1 DEF monitorVars
    <2>2. MonitorType' BY Zenon, <2>1 DEF MonitorInv, MonitorType
    <2> QED BY ZenonT(40), <2>1, <2>2 DEF MonitorInv, Named, NonePending, Rewritten, TimeDue, Written,
               parse_datetime, Watching
  <1> QED BY <1>1, OpenFileInv, RemoveInv, RemoveDirInv, MakeDirInv, HupInv, TickInv, CloseFileInv,
             ReplaceInv, EventInv, TimerInv, ReloadInv, ReloadKeepsInv, SigendInv
      DEF NextMonitor

\* What the parent does not know of the file yet is in the queue of inotify
\* (core/reload_monitor.c), over any sequence of writes, replacements, removals, also of the
\* directory, reloads and refused reloads.
THEOREM MonitorInvHolds == MonitorSpec => []MonitorInv
  BY InitInv, StepInv, PTL DEF MonitorSpec

\* Once every event is handled, a reload is scheduled for the moment that the file on disk
\* names and for no other, and none is when the monitor has stopped (read_file(),
\* watch_file(), cancel_reload(), inotify_event_thread(), stop_reload_monitor()).
THEOREM TimerFollowsFile == MonitorSpec => []ScheduledAsWritten
  <1>1. MonitorInv => ScheduledAsWritten
    <2> SUFFICES ASSUME MonitorInv, mode = "watching", queue = <<>>, ~open, ~TimeDue
                 PROVE  dir = "watched" /\ wd = timefile.ino /\ watched = wd /\ timer = Written
      BY DEF ScheduledAsWritten, MonitorInv
    <2>1. 1..Len(queue) = {} OBVIOUS
    <2>2. NonePending /\ ~Rewritten BY <2>1 DEF NonePending, Rewritten
    <2>3. dir = "watched" BY <2>1 DEF MonitorInv
    <2> QED BY <2>2, <2>3 DEF MonitorInv, Watching
  <1> QED BY <1>1, MonitorInvHolds, PTL

=============================================================================
