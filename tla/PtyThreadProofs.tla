--------------------------- MODULE PtyThreadProofs ---------------------------
(***************************************************************************)
(* The login records.  A terminal has one line and a line has one slot of  *)
(* the file, because a slot is found and written under one lock: what a    *)
(* thread found is still right when it writes.                             *)
(***************************************************************************)
EXTENDS PtyThread, FiniteSetTheorems, WellFoundedInduction, TLAPS

-----------------------------------------------------------------------------
(* The inductive invariant *)

Stages == {"new", "open", "login", "login_write", "handles", "loop", "logout",
           "logout_write", "over", "killed"}

Writing == {"login_write", "logout_write"}

(* From its login record to its logout record, if it wrote both.           *)
LoggedIn == {"handles", "loop", "logout", "logout_write"}

Records == [line : Threads, type : {"user", "dead"}, pid : Threads]

TypeOK ==
    /\ stage \in [Threads -> Stages]
    /\ line \in [Threads -> Threads \cup {0}]
    /\ utmp \in Seq(Records)
    /\ slot \in [Threads -> Nat]
    /\ guard \subseteq Threads /\ failed \subseteq Threads

(* A thread that has a terminal has a line of its own.                     *)
Lines ==
    \A t \in Threads :
        /\ line[t] = 0 <=> stage[t] \in {"new", "over", "killed"}
        /\ \A u \in Threads : u # t /\ line[u] = line[t] => line[t] = 0

(* The file has one slot for a line.                                       *)
OneSlotPerLine ==
    \A i, j \in DOMAIN utmp : utmp[i].line = utmp[j].line => i = j

(* The slot a thread has found is the one it would find now.               *)
Place(file, l) ==
    LET free == {i \in DOMAIN file : file[i].type = "dead"}
        same == {i \in DOMAIN file : file[i].line = l}
    IN Min(IF same # {} THEN same ELSE free \cup {Len(file) + 1})

SlotsHold ==
    \A t \in Threads : stage[t] \in Writing => flock = t /\ slot[t] = Place(utmp, line[t])

Login(t, l) == [line |-> l, type |-> "user", pid |-> t]
Listed(t)   == \E i \in DOMAIN utmp : utmp[i] = Login(t, line[t])

(* A thread with a guard is listed; one without has failed.                *)
Guarded ==
    /\ \A t \in guard : stage[t] \in LoggedIn /\ Listed(t)
    /\ \A t \in Threads : stage[t] \in LoggedIn => t \in guard \cup failed

(* A login record that names a thread is of the line it has, while it has  *)
(* one, and is written by its login.                                       *)
OwnRecords ==
    \A t \in Threads \ failed : stage[t] # "killed" =>
        \A i \in DOMAIN utmp : utmp[i].pid = t /\ utmp[i].type = "user" =>
            stage[t] \in LoggedIn /\ utmp[i].line = line[t]

IInv ==
    /\ TypeOK /\ Lines /\ OneSlotPerLine /\ SlotsHold /\ Guarded /\ OwnRecords

-----------------------------------------------------------------------------
(* Lines and slots *)

(* A set of numbers has a least one.                                       *)
LEMMA MinIsLeast ==
    ASSUME NEW S \in SUBSET Nat, S # {}
    PROVE  Min(S) \in S /\ \A y \in S : Min(S) <= y
  <1> DEFINE Less == {p \in Nat \X Nat : p[1] < p[2]}
  <1>1. IsWellFoundedOn(Less, Nat)
    <2>1. Less = OpToRel(<, Nat)
      BY DEF OpToRel
    <2> QED BY <2>1, NatLessThanWellFounded
  <1>2. PICK x \in S : \A y \in S : ~ (<<y, x>> \in Less)
    BY <1>1, WFMin
  <1>3. ASSUME NEW y \in S PROVE x <= y
    <2>1. ~(y < x)
      BY <1>2
    <2> QED BY <2>1
  <1> QED BY <1>3 DEF Min

(* A thread without a line leaves one free: there are as many as threads.  *)
LEMMA ALineIsFree ==
    ASSUME NEW t \in Threads, line[t] = 0, line \in [Threads -> Threads \cup {0}]
    PROVE  \E l \in Threads : \A u \in Threads : line[u] # l
  <1> SUFFICES ASSUME \A l \in Threads : \E u \in Threads : line[u] = l
               PROVE  FALSE
    OBVIOUS
  <1> DEFINE Holders == {u \in Threads \ {t} : line[u] # 0}
             f == [u \in Holders |-> line[u]]
  <1>1. 0 \notin Threads /\ IsFiniteSet(Threads)
    BY PtyAssumption
  <1>2. f \in Surjection(Holders, Threads)
    <2>1. f \in [Holders -> Threads]
      OBVIOUS
    <2>2. ASSUME NEW l \in Threads PROVE \E u \in Holders : f[u] = l
      <3>1. PICK u \in Threads : line[u] = l
        OBVIOUS
      <3>2. u \in Holders
        BY <1>1, <3>1
      <3> QED BY <3>1, <3>2
    <2> HIDE DEF f
    <2> QED BY <2>1, <2>2 DEF Surjection
  <1>3. /\ IsFiniteSet(Threads \ {t}) /\ Cardinality(Threads) \in Nat
        /\ Cardinality(Threads \ {t}) = Cardinality(Threads) - 1
    BY <1>1, FS_RemoveElement, FS_CardinalityType
  <1>4. /\ IsFiniteSet(Holders) /\ Cardinality(Holders) \in Nat
        /\ Cardinality(Holders) <= Cardinality(Threads) - 1
    BY <1>3, FS_Subset, FS_CardinalityType
  <1>5. Cardinality(Threads) <= Cardinality(Holders)
    <2> HIDE DEF f, Holders
    <2> QED BY <1>2, <1>4, FS_Surjection
  <1> HIDE DEF Holders
  <1> QED BY <1>3, <1>4, <1>5

(* The slot of the line, else one that no login record fills.              *)
LEMMA SlotFound ==
    ASSUME utmp \in Seq(Records), NEW l
    PROVE  /\ Place(utmp, l) \in 1..(Len(utmp) + 1)
           /\ (\E i \in DOMAIN utmp : utmp[i].line = l) =>
                  Place(utmp, l) \in DOMAIN utmp /\ utmp[Place(utmp, l)].line = l
           /\ Place(utmp, l) \in DOMAIN utmp =>
                  \/ utmp[Place(utmp, l)].line = l
                  \/ utmp[Place(utmp, l)].type = "dead"
  <1> DEFINE free == {i \in DOMAIN utmp : utmp[i].type = "dead"}
             same == {i \in DOMAIN utmp : utmp[i].line = l}
             S == IF same # {} THEN same ELSE free \cup {Len(utmp) + 1}
  <1>1. DOMAIN utmp = 1..Len(utmp) /\ Len(utmp) \in Nat
    OBVIOUS
  <1>2. S \in SUBSET Nat /\ S # {} /\ S \subseteq 1..(Len(utmp) + 1)
    BY <1>1
  <1>3. Place(utmp, l) \in S
    <2>1. Place(utmp, l) = Min(S)
      BY DEF Place
    <2> HIDE DEF S
    <2> QED BY <1>2, <2>1, MinIsLeast
  <1>4. Len(utmp) + 1 \notin DOMAIN utmp
    BY <1>1
  <1> QED BY <1>2, <1>3, <1>4

(* What writing a record at the slot it found does to the file.            *)
Written(t, s, r) ==
    /\ utmp' \in Seq(Records)
    /\ s \in DOMAIN utmp' /\ utmp'[s] = r
    /\ \A i \in DOMAIN utmp' : i # s => i \in DOMAIN utmp /\ utmp'[i] = utmp[i]
    /\ \A i \in DOMAIN utmp : i \in DOMAIN utmp'
    /\ \A i \in DOMAIN utmp : i # s => utmp[i].line # line[t]
    /\ s \in DOMAIN utmp => utmp[s].line = line[t] \/ utmp[s].type = "dead"

LEMMA RecordWritten ==
    ASSUME TypeOK, OneSlotPerLine, NEW t \in Threads, line[t] # 0,
           NEW type \in {"user", "dead"},
           slot[t] = Place(utmp, line[t]), utmp' = WriteAt(slot[t], Record(t, type))
    PROVE  Written(t, slot[t], Record(t, type))
  <1> DEFINE s == slot[t]  r == Record(t, type)
  <1>1. utmp \in Seq(Records) /\ DOMAIN utmp = 1..Len(utmp) /\ Len(utmp) \in Nat
    BY DEF TypeOK
  <1>2. /\ s \in 1..(Len(utmp) + 1)
        /\ (\E i \in DOMAIN utmp : utmp[i].line = line[t]) =>
               s \in DOMAIN utmp /\ utmp[s].line = line[t]
        /\ s \in DOMAIN utmp => utmp[s].line = line[t] \/ utmp[s].type = "dead"
    BY <1>1, SlotFound
  <1>3. r \in Records
    BY DEF Record, Records, TypeOK
  <1>4. \A i \in DOMAIN utmp : i # s => utmp[i].line # line[t]
    BY <1>2 DEF OneSlotPerLine
  <1>5. CASE s \in DOMAIN utmp
    <2>1. utmp' = [utmp EXCEPT ![s] = r]
      BY <1>5 DEF WriteAt
    <2> HIDE DEF r, s
    <2>2. /\ utmp' \in Seq(Records) /\ DOMAIN utmp' = DOMAIN utmp
          /\ \A i \in DOMAIN utmp : utmp'[i] = IF i = s THEN r ELSE utmp[i]
      BY <1>1, <1>3, <1>5, <2>1
    <2>3. Written(t, s, r)
      BY <1>2, <1>4, <1>5, <2>2 DEF Written
    <2> QED BY <2>3 DEF s, r
  <1>6. CASE s \notin DOMAIN utmp
    <2>5. utmp' = Append(utmp, r)
      BY <1>6 DEF WriteAt
    <2>6. s = Len(utmp) + 1
      <3> HIDE DEF s
      <3> QED BY <1>1, <1>2, <1>6
    <2>1. utmp' = Append(utmp, r) /\ s = Len(utmp) + 1
      BY <2>5, <2>6
    <2> HIDE DEF r, s
    <2>2. /\ utmp' \in Seq(Records) /\ DOMAIN utmp' = 1..(Len(utmp) + 1)
          /\ utmp'[s] = r /\ \A i \in DOMAIN utmp : utmp'[i] = utmp[i]
      BY <1>1, <1>3, <2>1
    <2>3. /\ s \in DOMAIN utmp'
          /\ \A i \in DOMAIN utmp' : i # s => i \in DOMAIN utmp
          /\ \A i \in DOMAIN utmp : i \in DOMAIN utmp'
      BY <1>1, <2>1, <2>2
    <2>4. Written(t, s, r)
      BY <1>2, <1>4, <2>2, <2>3 DEF Written
    <2> QED BY <2>4 DEF s, r
  <1> QED BY <1>5, <1>6

-----------------------------------------------------------------------------
(* The steps *)

(* What the invariant is about is left alone.                              *)
LEMMA NothingRecorded ==
    ASSUME IInv, stage' = stage, line' = line, utmp' = utmp, flock' = flock, slot' = slot,
           guard' = guard, failed' = failed
    PROVE  IInv'
  BY DEF IInv, TypeOK, Lines, OneSlotPerLine, SlotsHold, Guarded, Listed, OwnRecords,
     Login

(* A thread moves on, and the file stays as it is: what the thread is now  *)
(* must agree with the file.                                               *)
LEMMA ThreadMoves ==
    ASSUME IInv, NEW t \in Threads, NEW s \in Stages,
           stage' = [stage EXCEPT ![t] = s], utmp' = utmp, slot' = slot,
           flock' = flock,
           stage[t] \notin Writing, s \notin Writing,
           line' = line \/ line' = [line EXCEPT ![t] = 0],
           line'[t] = 0 <=> s \in {"new", "over", "killed"},
           guard' = guard \/ guard' = guard \ {t},
           failed' = failed \/ failed' = failed \cup {t},
           stage[t] # "killed", t \in guard' => s \in LoggedIn,
           s \in LoggedIn => t \in guard' \cup failed',
           t \in failed' \/ stage[t] \notin LoggedIn \/ s \in LoggedIn
    PROVE  IInv'
  <1> USE DEF IInv
  <1>1. TypeOK'
    BY DEF TypeOK
  <1>2. \A u \in Threads : u # t => stage'[u] = stage[u] /\ line'[u] = line[u]
    BY DEF TypeOK
  <1>3. stage'[t] = s /\ (line'[t] = line[t] \/ line'[t] = 0)
    BY DEF TypeOK
  <1>4. Lines'
    BY <1>2, <1>3 DEF Lines
  <1>5. OneSlotPerLine'
    BY DEF OneSlotPerLine
  <1>6. SlotsHold'
    BY <1>2, <1>3 DEF SlotsHold
  <1>7. Guarded'
    <2>1. ASSUME NEW u \in guard' PROVE stage'[u] \in LoggedIn /\ Listed(u)'
      <3>1. u \in Threads /\ u \in guard /\ stage[u] \in LoggedIn /\ Listed(u)
        BY DEF Guarded, TypeOK
      <3>2. stage'[u] \in LoggedIn
        BY <1>2, <1>3, <3>1
      <3>3. line'[u] = line[u]
        BY <1>2, <1>3, <3>1, <3>2 DEF LoggedIn
      <3> QED BY <3>1, <3>2, <3>3 DEF Listed
    <2>2. ASSUME NEW u \in Threads, stage'[u] \in LoggedIn PROVE u \in guard' \cup failed'
      BY <2>2, <1>2, <1>3 DEF Guarded
    <2> QED BY <2>1, <2>2 DEF Guarded
  <1>8. OwnRecords'
    <2> SUFFICES ASSUME NEW u \in Threads \ failed', stage'[u] # "killed", NEW i \in DOMAIN utmp,
                        utmp[i].pid = u, utmp[i].type = "user"
                 PROVE  stage'[u] \in LoggedIn /\ utmp[i].line = line'[u]
      BY DEF OwnRecords
    <2>1. CASE u # t
      BY <2>1, <1>2 DEF OwnRecords
    <2>2. CASE u = t
      <3>1. stage[t] \in LoggedIn /\ utmp[i].line = line[t]
        BY <2>2 DEF OwnRecords
      <3>2. s \in LoggedIn /\ line'[t] = line[t]
        BY <2>2, <3>1, <1>3 DEF LoggedIn
      <3> QED BY <2>2, <3>1, <3>2, <1>3
    <2> QED BY <2>1, <2>2
  <1> QED BY <1>1, <1>4, <1>5, <1>6, <1>7, <1>8

LEMMA OpenPtyKeeps ==
    ASSUME IInv, NEW t \in Threads, OpenPty(t)
    PROVE  IInv'
  <1> USE DEF IInv
  <1> DEFINE free == Threads \ {line[u] : u \in Threads}
  <1>1. /\ stage[t] = "new" /\ stage' = [stage EXCEPT ![t] = "open"]
        /\ line' = [line EXCEPT ![t] = Min(free)]
        /\ utmp' = utmp /\ flock' = flock /\ slot' = slot /\ guard' = guard /\ failed' = failed
    BY DEF OpenPty, Goes, records
  <1>2. Min(free) \in free
    <2>1. line[t] = 0
      BY <1>1 DEF Lines
    <2>2. free # {}
      BY <2>1, ALineIsFree DEF TypeOK
    <2>3. free \in SUBSET Nat
      BY PtyAssumption
    <2> HIDE DEF free
    <2> QED BY <2>2, <2>3, MinIsLeast
  <1> DEFINE m == Min(free)
  <1>3. m \in Threads /\ m # 0 /\ \A u \in Threads : line[u] # m
    BY <1>2, PtyAssumption
  <1> HIDE DEF m
  <1>4. /\ \A u \in Threads : u # t => stage'[u] = stage[u] /\ line'[u] = line[u]
        /\ stage'[t] = "open" /\ line'[t] = m
    BY <1>1 DEF TypeOK, m
  <1>5. TypeOK'
    <2>1. line' = [line EXCEPT ![t] = m]
      BY <1>1 DEF m
    <2> QED BY <1>1, <1>3, <2>1 DEF TypeOK, Stages
  <1>6. Lines'
    BY <1>3, <1>4 DEF Lines
  <1>7. OneSlotPerLine'
    BY <1>1 DEF OneSlotPerLine
  <1>8. SlotsHold'
    BY <1>1, <1>4 DEF SlotsHold, Writing
  <1>9. Guarded'
    <2>1. \A u \in guard : u # t /\ u \in Threads
      BY <1>1 DEF Guarded, LoggedIn, TypeOK
    <2> QED BY <1>1, <1>4, <2>1 DEF Guarded, Listed, LoggedIn
  <1>10. OwnRecords'
    BY <1>1, <1>4 DEF OwnRecords, LoggedIn
  <1> QED BY <1>5, <1>6, <1>7, <1>8, <1>9, <1>10

LEMMA MovesKeep ==
    ASSUME IInv, NEW t \in Threads,
           \/ StartFails(t) \/ SpawnShell(t) \/ UtmpFails(t)
           \/ TakeHandles(t) \/ HandlesFail(t) \/ LeaveLoop(t)
    PROVE  IInv'
  <1>1. /\ stage = [u \in Threads |-> stage[u]] /\ line \in [Threads -> Threads \cup {0}]
        /\ stage[t] \in LoggedIn => t \in guard \cup failed
        /\ t \in guard => stage[t] \in LoggedIn
        /\ line[t] = 0 <=> stage[t] \in {"new", "over", "killed"}
    BY DEF IInv, TypeOK, Guarded, Lines
  <1> USE DEF records, Writing, LoggedIn, Stages
  <1>2. ASSUME line' = [line EXCEPT ![t] = 0] PROVE line'[t] = 0
    BY <1>1, <1>2
  <1>3. CASE StartFails(t)
    BY <1>1, <1>2, <1>3, ThreadMoves DEF StartFails, Starting
  <1>4. CASE SpawnShell(t)
    BY <1>1, <1>4, ThreadMoves DEF SpawnShell, Goes
  <1>5. CASE UtmpFails(t)
    <2>1. CASE Goes(t, "login", "handles") /\ Stays
      BY <1>1, <1>5, <2>1, ThreadMoves DEF UtmpFails, Goes, Stays
    <2>2. CASE Goes(t, "logout", "over") /\ Ends(t)
      BY <1>1, <1>2, <1>5, <2>2, ThreadMoves DEF UtmpFails, Goes, Ends
    <2> QED BY <1>5, <2>1, <2>2 DEF UtmpFails
  <1>6. CASE TakeHandles(t)
    BY <1>1, <1>6, ThreadMoves DEF TakeHandles, Goes
  <1>7. CASE HandlesFail(t)
    BY <1>1, <1>2, <1>7, ThreadMoves DEF HandlesFail, Goes, Ends
  <1>8. CASE LeaveLoop(t)
    <2>1. CASE t \in guard
      BY <1>1, <1>8, <2>1, ThreadMoves DEF LeaveLoop, Goes, Stays
    <2>2. CASE t \notin guard
      BY <1>1, <1>2, <1>8, <2>2, ThreadMoves DEF LeaveLoop, Goes, Ends
    <2> QED BY <2>1, <2>2
  <1> QED BY <1>3, <1>4, <1>5, <1>6, <1>7, <1>8

LEMMA FindSlotKeeps ==
    ASSUME IInv, NEW t \in Threads, FindSlot(t)
    PROVE  IInv'
  <1> USE DEF IInv
  <1>1. PICK s \in Writing :
           /\ stage' = [stage EXCEPT ![t] = s]
           /\ stage[t] \in {"login", "logout"}
           /\ s = "logout_write" <=> stage[t] = "logout"
    BY DEF FindSlot, Goes, Writing
  <1>2. /\ flock = 0 /\ flock' = t /\ slot' = [slot EXCEPT ![t] = Place(utmp, line[t])]
        /\ line' = line /\ utmp' = utmp /\ guard' = guard /\ failed' = failed
    BY DEF FindSlot, LockExclusive, PutUtmp, Place
  <1>3. /\ \A u \in Threads : u # t => stage'[u] = stage[u]
        /\ stage'[t] = s
    BY <1>1 DEF TypeOK
  <1>4. stage'[t] \in LoggedIn <=> stage[t] \in LoggedIn
    BY <1>1, <1>3 DEF LoggedIn, Writing
  <1>5. TypeOK'
    <2>1. Place(utmp, line[t]) \in Nat
      BY SlotFound DEF TypeOK
    <2> QED BY <1>1, <1>2, <2>1 DEF TypeOK, Stages, Writing
  <1>6. Lines'
    BY <1>1, <1>2, <1>3 DEF Lines, Writing
  <1>7. OneSlotPerLine'
    BY <1>2 DEF OneSlotPerLine
  <1>8. SlotsHold'
    <2>1. \A u \in Threads : stage[u] \notin Writing
      BY <1>2, PtyAssumption DEF SlotsHold
    <2>2. slot'[t] = Place(utmp, line[t])
      BY <1>2 DEF TypeOK
    <2> QED BY <1>2, <1>3, <2>1, <2>2 DEF SlotsHold
  <1>9. Guarded'
    <2>1. guard \subseteq Threads
      BY DEF TypeOK
    <2> QED BY <1>2, <1>3, <1>4, <2>1 DEF Guarded, Listed
  <1>10. OwnRecords'
    BY <1>1, <1>2, <1>3, <1>4 DEF OwnRecords
  <1> QED BY <1>5, <1>6, <1>7, <1>8, <1>9, <1>10

(* Nobody else has found a slot when a record is written, and the writer's *)
(* line is its own.                                                        *)
LEMMA WritersAlone ==
    ASSUME IInv, NEW t \in Threads, stage[t] \in Writing
    PROVE  /\ line[t] # 0 /\ slot[t] = Place(utmp, line[t])
           /\ \A u \in Threads : u # t => stage[u] \notin Writing /\ line[u] # line[t]
  BY DEF IInv, Lines, SlotsHold, Writing

(* The records of others outlive the write: a login record is of another   *)
(* line, and a slot that is taken over has none.                           *)
LEMMA OthersKeepTheirRecords ==
    ASSUME IInv, NEW t \in Threads, NEW type \in {"user", "dead"},
           Written(t, slot[t], Record(t, type)),
           NEW u \in Threads, u # t, line[u] # line[t]
    PROVE  /\ (\E i \in DOMAIN utmp : utmp[i] = Login(u, line[u])) =>
                  \E i \in DOMAIN utmp' : utmp'[i] = Login(u, line[u])
           /\ \A i \in DOMAIN utmp' : utmp'[i].pid = u /\ utmp'[i].type = "user" =>
                  \E j \in DOMAIN utmp : utmp[j] = utmp'[i]
  <1>1. ASSUME NEW i \in DOMAIN utmp, utmp[i] = Login(u, line[u])
        PROVE  i # slot[t]
    <2>1. utmp[i].line = line[u] /\ utmp[i].type = "user"
      BY <1>1 DEF Login
    <2> QED BY <2>1 DEF Written
  <1>2. Record(t, type).pid = t
    BY DEF Record
  <1>3. ASSUME NEW i \in DOMAIN utmp', utmp'[i].pid = u
        PROVE  i \in DOMAIN utmp /\ utmp[i] = utmp'[i]
    BY <1>2, <1>3 DEF Written
  <1> QED BY <1>1, <1>3 DEF Written

LEMMA OneSlotKept ==
    ASSUME IInv, NEW t \in Threads, NEW type \in {"user", "dead"},
           Written(t, slot[t], Record(t, type))
    PROVE  OneSlotPerLine'
  <1>1. Record(t, type).line = line[t]
    BY DEF Record
  <1> QED BY <1>1 DEF Written, OneSlotPerLine, IInv

LEMMA WriteLoginKeeps ==
    ASSUME IInv, NEW t \in Threads, WriteLogin(t)
    PROVE  IInv'
  <1> USE DEF IInv
  <1>1. /\ stage[t] = "login_write" /\ stage' = [stage EXCEPT ![t] = "handles"]
        /\ utmp' = WriteAt(slot[t], Record(t, "user")) /\ line' = line
        /\ slot' = [slot EXCEPT ![t] = 0]
        /\ \/ guard' = guard \cup {t} /\ failed' = failed
           \/ failed' = failed \cup {t} /\ guard' = guard
    BY DEF WriteLogin, Goes
  <1>2. /\ line[t] # 0 /\ slot[t] = Place(utmp, line[t])
        /\ \A u \in Threads : u # t => stage[u] \notin Writing /\ line[u] # line[t]
    BY <1>1, WritersAlone DEF Writing
  <1>3. Written(t, slot[t], Record(t, "user"))
    BY <1>1, <1>2, RecordWritten
  <1>4. /\ \A u \in Threads : u # t => stage'[u] = stage[u]
        /\ stage'[t] = "handles"
    BY <1>1 DEF TypeOK
  <1>5. TypeOK'
    BY <1>1, <1>3 DEF TypeOK, Stages, Written
  <1>6. Lines'
    BY <1>1, <1>4 DEF Lines
  <1>7. OneSlotPerLine'
    BY <1>3, OneSlotKept
  <1>8. SlotsHold'
    BY <1>2, <1>4 DEF SlotsHold, Writing
  <1>9. Guarded'
    <2>1. ASSUME NEW u \in guard' PROVE stage'[u] \in LoggedIn /\ Listed(u)'
      <3>1. CASE u = t
        <4>1. \E i \in DOMAIN utmp' : utmp'[i] = Login(t, line[t])
          BY <1>3 DEF Written, Login, Record
        <4> QED BY <1>1, <1>4, <3>1, <4>1 DEF Listed, LoggedIn
      <3>2. CASE u # t
        <4>1. u \in guard /\ u \in Threads /\ stage[u] \in LoggedIn /\ Listed(u)
          BY <1>1, <2>1, <3>2 DEF Guarded, TypeOK
        <4>2. \E i \in DOMAIN utmp' : utmp'[i] = Login(u, line[u])
          BY <1>2, <1>3, <3>2, <4>1, OthersKeepTheirRecords DEF Listed
        <4> QED BY <1>1, <1>4, <3>2, <4>1, <4>2 DEF Listed
      <3> QED BY <3>1, <3>2
    <2>2. ASSUME NEW u \in Threads, stage'[u] \in LoggedIn PROVE u \in guard' \cup failed'
      BY <1>1, <1>4, <2>2 DEF Guarded
    <2> QED BY <2>1, <2>2 DEF Guarded
  <1>10. OwnRecords'
    <2> SUFFICES ASSUME NEW u \in Threads \ failed', stage'[u] # "killed",
                        NEW i \in DOMAIN utmp', utmp'[i].pid = u, utmp'[i].type = "user"
                 PROVE  stage'[u] \in LoggedIn /\ utmp'[i].line = line'[u]
      BY DEF OwnRecords
    <2>1. CASE u # t
      <3>1. PICK j \in DOMAIN utmp : utmp[j] = utmp'[i]
        BY <1>2, <1>3, <2>1, OthersKeepTheirRecords
      <3> QED BY <1>1, <1>4, <2>1, <3>1 DEF OwnRecords
    <2>2. CASE u = t
      <3>1. CASE i = slot[t]
        BY <1>1, <1>3, <1>4, <2>2, <3>1 DEF Written, Record, LoggedIn
      <3>2. CASE i # slot[t]
        <4>1. i \in DOMAIN utmp /\ utmp[i] = utmp'[i]
          BY <1>3, <3>2 DEF Written
        <4>2. stage[t] \in LoggedIn
          BY <1>1, <2>2, <4>1 DEF OwnRecords
        <4> QED BY <1>1, <4>2 DEF LoggedIn
      <3> QED BY <3>1, <3>2
    <2> QED BY <2>1, <2>2
  <1> QED BY <1>5, <1>6, <1>7, <1>8, <1>9, <1>10

LEMMA WriteLogoutKeeps ==
    ASSUME IInv, NEW t \in Threads, WriteLogout(t)
    PROVE  IInv'
  <1> USE DEF IInv
  <1>1. /\ stage[t] = "logout_write" /\ stage' = [stage EXCEPT ![t] = "over"]
        /\ utmp' = WriteAt(slot[t], Record(t, "dead")) /\ line' = [line EXCEPT ![t] = 0]
        /\ slot' = [slot EXCEPT ![t] = 0]
        /\ guard' = guard \ {t} /\ failed' = failed
    BY DEF WriteLogout, Goes, Ends
  <1>2. /\ line[t] # 0 /\ slot[t] = Place(utmp, line[t])
        /\ \A u \in Threads : u # t => stage[u] \notin Writing /\ line[u] # line[t]
    BY <1>1, WritersAlone DEF Writing
  <1>3. Written(t, slot[t], Record(t, "dead"))
    BY <1>1, <1>2, RecordWritten
  <1>4. /\ \A u \in Threads : u # t => stage'[u] = stage[u] /\ line'[u] = line[u]
        /\ stage'[t] = "over" /\ line'[t] = 0
    BY <1>1 DEF TypeOK
  <1>5. TypeOK'
    BY <1>1, <1>3 DEF TypeOK, Stages, Written
  <1>6. Lines'
    BY <1>4 DEF Lines
  <1>7. OneSlotPerLine'
    BY <1>3, OneSlotKept
  <1>8. SlotsHold'
    BY <1>2, <1>4 DEF SlotsHold, Writing
  <1>9. Guarded'
    <2>1. ASSUME NEW u \in guard' PROVE stage'[u] \in LoggedIn /\ Listed(u)'
      <3>1. u \in guard /\ u # t /\ u \in Threads /\ stage[u] \in LoggedIn /\ Listed(u)
        BY <1>1, <2>1 DEF Guarded, TypeOK
      <3>2. \E i \in DOMAIN utmp' : utmp'[i] = Login(u, line[u])
        BY <1>2, <1>3, <3>1, OthersKeepTheirRecords DEF Listed
      <3> QED BY <1>4, <3>1, <3>2 DEF Listed
    <2>2. ASSUME NEW u \in Threads, stage'[u] \in LoggedIn PROVE u \in guard' \cup failed'
      BY <1>1, <1>4, <2>2 DEF Guarded, LoggedIn
    <2> QED BY <2>1, <2>2 DEF Guarded
  <1>10. OwnRecords'
    <2> SUFFICES ASSUME NEW u \in Threads \ failed', stage'[u] # "killed",
                        NEW i \in DOMAIN utmp', utmp'[i].pid = u, utmp'[i].type = "user"
                 PROVE  stage'[u] \in LoggedIn /\ utmp'[i].line = line'[u]
      BY DEF OwnRecords
    <2>1. CASE u # t
      <3>1. PICK j \in DOMAIN utmp : utmp[j] = utmp'[i]
        BY <1>2, <1>3, <2>1, OthersKeepTheirRecords
      <3> QED BY <1>1, <1>4, <2>1, <3>1 DEF OwnRecords
    <2>2. CASE u = t
      <3>1. i # slot[t]
        BY <1>3 DEF Written, Record
      <3>2. i \in DOMAIN utmp /\ utmp[i] = utmp'[i] /\ utmp[i].line # line[t]
        BY <1>3, <3>1 DEF Written
      <3>3. utmp[i].line = line[t]
        BY <1>1, <2>2, <3>2 DEF OwnRecords
      <3> QED BY <3>2, <3>3
    <2> QED BY <2>1, <2>2
  <1> QED BY <1>5, <1>6, <1>7, <1>8, <1>9, <1>10

LEMMA KillServerKeeps ==
    ASSUME IInv, KillServer
    PROVE  IInv'
  <1> USE DEF IInv
  <1>1. /\ utmp' = utmp /\ failed' = failed /\ guard' = {}
        /\ slot' = [t \in Threads |-> 0] /\ line' = [t \in Threads |-> 0]
    BY DEF KillServer
  <1>2. stage' = [t \in Threads |-> IF t \in {u \in Threads : stage[u] \notin {"new", "over"}}
                                    THEN "killed" ELSE stage[t]]
    BY DEF KillServer
  <1>3. \A t \in Threads : /\ stage'[t] \in {"new", "over", "killed"}
                           /\ stage'[t] # "killed" => stage'[t] = stage[t]
    BY <1>2
  <1>4. TypeOK'
    BY <1>1, <1>2 DEF TypeOK, Stages
  <1>5. Lines' /\ OneSlotPerLine' /\ SlotsHold' /\ Guarded'
    BY <1>1, <1>3 DEF Lines, OneSlotPerLine, SlotsHold, Writing, Guarded, LoggedIn
  <1>6. OwnRecords'
    BY <1>1, <1>3 DEF OwnRecords, LoggedIn
  <1> QED BY <1>4, <1>5, <1>6

-----------------------------------------------------------------------------
(* The theorems *)

LEMMA EmptyFile == <<>> \in Seq(Records) /\ DOMAIN <<>> = {}
  OBVIOUS

LEMMA Initially == Init => IInv
  <1> SUFFICES ASSUME Init PROVE IInv
    OBVIOUS
  <1> USE DEF Init
  <1>1. utmp \in Seq(Records) /\ DOMAIN utmp = {}
    BY EmptyFile
  <1>2. TypeOK
    BY <1>1 DEF TypeOK, Stages
  <1>3. Lines /\ SlotsHold /\ Guarded
    BY DEF Lines, SlotsHold, Writing, Guarded, LoggedIn
  <1>4. OneSlotPerLine /\ OwnRecords
    BY <1>1 DEF OneSlotPerLine, OwnRecords
  <1> QED BY <1>2, <1>3, <1>4 DEF IInv

LEMMA Inductive == IInv /\ [Next]_vars => IInv'
  <1> SUFFICES ASSUME IInv, [Next]_vars PROVE IInv'
    OBVIOUS
  <1> USE DEF records
  <1>1. CASE UNCHANGED vars
    BY <1>1, NothingRecorded DEF vars
  <1>2. CASE KillServer
    BY <1>2, KillServerKeeps
  <1>3. ASSUME NEW t \in Threads, ThreadStep(t) \/ Failure(t)
        PROVE  IInv'
    BY <1>3, OpenPtyKeeps, MovesKeep, FindSlotKeeps, WriteLoginKeeps, WriteLogoutKeeps
       DEF ThreadStep, Failure
  <1>4. ASSUME NEW t \in Threads, Receive(t) \/ ReaderStep(t)
        PROVE  IInv'
    BY <1>4, NothingRecorded DEF Receive, ReaderStep, ReadOutput, StopReading, EndSession
  <1>5. ASSUME NEW t \in Threads,
               SendInput(t) \/ StopServing(t) \/ ReadEnds(t) \/ FirstPacket(t) \/ TypeKey(t) \/ Cancel(t)
        PROVE  IInv'
    BY <1>5, NothingRecorded DEF SendInput, StopServing, ReadEnds, FirstPacket, TypeKey, Cancel
  <1>6. ASSUME NEW t \in Threads, ShellStep(t)
        PROVE  IInv'
    BY <1>6, NothingRecorded DEF ShellStep, Wants, Writes, Reads, Exits
  <1> QED BY <1>1, <1>2, <1>3, <1>4, <1>5, <1>6 DEF Next

(* Lines, slots, guards and records are as IInv says, for any number of    *)
(* sessions and ends of the server.                                        *)
THEOREM Invariant == Spec => []IInv
  BY Initially, Inductive, PTL DEF Spec

(* Type correctness: the stage, line and slot of a thread and the records  *)
(* of the login file keep their types.                                     *)
THEOREM TypeCorrect == Spec => []TypeOK
  <1>1. IInv => TypeOK
    BY DEF IInv
  <1> QED BY <1>1, Invariant, PTL

(* The login record of a running shell is in the file, and it is the only  *)
(* one of its line.                                                        *)
THEOREM LiveShellsHold == Spec => []LiveShellsListed
  <1>1. IInv => LiveShellsListed
    <2> SUFFICES ASSUME IInv, NEW t \in guard
                 PROVE  \E i \in DOMAIN utmp :
                            /\ utmp[i] = Record(t, "user")
                            /\ \A j \in DOMAIN utmp : utmp[j].line = line[t] => j = i
      BY DEF LiveShellsListed
    <2>1. PICK i \in DOMAIN utmp : utmp[i] = Login(t, line[t])
      BY DEF IInv, Guarded, Listed
    <2>2. utmp[i] = Record(t, "user") /\ utmp[i].line = line[t]
      BY <2>1 DEF Record, Login
    <2> QED BY <2>2 DEF IInv, OneSlotPerLine
  <1> QED BY <1>1, Invariant, PTL

(* A thread whose accounting never failed ends without a login record.     *)
THEOREM CleanEndHolds == Spec => []CleanEndLeavesNoLogin
  <1>1. IInv => CleanEndLeavesNoLogin
    <2> SUFFICES ASSUME IInv, NEW t \in Threads \ failed, stage[t] = "over",
                        NEW i \in DOMAIN utmp, utmp[i].pid = t
                 PROVE  utmp[i].type = "dead"
      BY DEF CleanEndLeavesNoLogin
    <2>1. utmp[i] \in Records
      BY DEF IInv, TypeOK
    <2>2. utmp[i].type \in {"user", "dead"}
      BY <2>1 DEF Records
    <2> QED BY <2>2 DEF IInv, OwnRecords, LoggedIn
  <1> QED BY <1>1, Invariant, PTL
=============================================================================
