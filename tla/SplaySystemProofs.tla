------------------------- MODULE SplaySystemProofs -------------------------
(***************************************************************************)
(* Proofs about SplaySystem, for any number of daemons, jobs, connections, *)
(* faults and restarts: types, then the commands in the actions table, of  *)
(* which one that is being sent has a live thread that answers for it and  *)
(* an incomplete one the scheduler, then the slots of the daemons.         *)
(***************************************************************************)
EXTENDS SplaySystem, FiniteSetTheorems, TLAPS

---------------------------------------------------------------------------
(* Finite sets of rows *)

\* The image of a finite table is finite.
LEMMA ImageIsFinite ==
  ASSUME NEW S, IsFiniteSet(S), NEW R, NEW f \in [S -> R],
         \A r \in R : \E x \in S : f[x] = r
  PROVE  IsFiniteSet(R)
  <1>1. f \in Surjection(S, R)
    BY DEF Surjection
  <1> QED BY <1>1, FS_Surjection

\* An UPDATE of actions keeps a finite table of actions.
LEMMA SetActionStatusType ==
  ASSUME actions \in SUBSET Action, IsFiniteSet(actions),
         NEW rows, NEW st \in ActionStatus
  PROVE  /\ SetActionStatus(rows, st) \in SUBSET Action
         /\ IsFiniteSet(SetActionStatus(rows, st))
  <1> DEFINE f == [a \in actions |-> IF a \in rows THEN [a EXCEPT !.status = st] ELSE a]
             R == SetActionStatus(rows, st)
  <1>1. R \in SUBSET Action
    BY DEF SetActionStatus, Action
  <1>2. f \in [actions -> R] /\ \A r \in R : \E x \in actions : f[x] = r
    BY DEF SetActionStatus
  <1>3. IsFiniteSet(R)
    <2> HIDE DEF f, R
    <2> QED BY <1>2, ImageIsFinite
  <1> QED BY <1>1, <1>3

\* An UPDATE of splayd_jobs.
LEMMA SetSplaydJobStatusType ==
  ASSUME splayd_jobs \in SUBSET SplaydJob, IsFiniteSet(splayd_jobs),
         NEW rows, NEW st \in {"RESERVED", "WAITING", "RUNNING"}
  PROVE  /\ SetSplaydJobStatus(rows, st) \in SUBSET SplaydJob
         /\ IsFiniteSet(SetSplaydJobStatus(rows, st))
  <1> DEFINE f == [r \in splayd_jobs |->
                     IF r \in rows THEN [r EXCEPT !.status = st] ELSE r]
             R == SetSplaydJobStatus(rows, st)
  <1>1. R \in SUBSET SplaydJob
    BY DEF SetSplaydJobStatus, SplaydJob
  <1>2. f \in [splayd_jobs -> R] /\ \A r \in R : \E x \in splayd_jobs : f[x] = r
    BY DEF SetSplaydJobStatus
  <1>3. IsFiniteSet(R)
    <2> HIDE DEF f, R
    <2> QED BY <1>2, ImageIsFinite
  <1> QED BY <1>1, <1>3

\* The flags of a selection can be set.
LEMMA SelectionFlags ==
  ASSUME NEW s \in Selection
  PROVE  /\ [s EXCEPT !.reset = TRUE] \in Selection
         /\ [s EXCEPT !.replied = TRUE] \in Selection
         /\ [s EXCEPT !.selected = TRUE] \in Selection
  BY DEF Selection

\* The number of rows of a part of a finite table.
LEMMA CountType ==
  ASSUME NEW S, IsFiniteSet(S), NEW T \in SUBSET S
  PROVE  IsFiniteSet(T) /\ Cardinality(T) \in Nat
  BY FS_Subset, FS_CardinalityType

\* One more row of actions.
LEMMA AddActionType ==
  ASSUME TablesTypeOK, NEW d \in Splayd, NEW j \in Job, NEW c \in Command,
         NEW data \in ActionData, AddAction(d, j, c, data)
  PROVE  /\ actions' \in SUBSET Action /\ IsFiniteSet(actions')
         /\ nextAction' \in [Splayd -> Nat]
  <1> DEFINE row == Row(nextAction[d], d, j, c, data, "WAITING")
  <1>1. row \in Action
    BY DEF TablesTypeOK, Row, Action, ActionStatus
  <1>2. actions' = actions \cup {row}
    BY DEF AddAction
  <1>3. IsFiniteSet(actions')
    <2> HIDE DEF row
    <2> QED BY <1>2, FS_AddElement DEF TablesTypeOK
  <1>4. nextAction' \in [Splayd -> Nat]
    BY DEF AddAction, TablesTypeOK
  <1> QED BY <1>1, <1>2, <1>3, <1>4 DEF TablesTypeOK

\* INSERT INTO actions
LEMMA InsertActionsType ==
  ASSUME TablesTypeOK, NEW sels, IsFiniteSet(sels),
         \A s \in sels : s.splayd \in Splayd /\ s.job \in Job,
         NEW c \in Command, NEW st \in ActionStatus, InsertActions(sels, c, st)
  PROVE  /\ actions' \in SUBSET Action /\ IsFiniteSet(actions')
         /\ nextAction' \in [Splayd -> Nat]
  <1> DEFINE before(s) == {t \in sels : t.splayd = s.splayd /\ t.seq < s.seq}
             of(d) == {s \in sels : s.splayd = d}
             row(s) == Row(nextAction[s.splayd] + Cardinality(before(s)),
                           s.splayd, s.job, c, "json", st)
             f == [s \in sels |-> row(s)]
             R == {row(s) : s \in sels}
  <1>1. /\ actions \in SUBSET Action /\ IsFiniteSet(actions)
        /\ nextAction \in [Splayd -> Nat]
    BY DEF TablesTypeOK
  <1>2. \A s \in sels : row(s) \in Action
    <2> SUFFICES ASSUME NEW s \in sels PROVE row(s) \in Action
      OBVIOUS
    <2>1. before(s) \in SUBSET sels
      OBVIOUS
    <2>2. Cardinality(before(s)) \in Nat
      <3> HIDE DEF before
      <3> QED BY <2>1, CountType
    <2> HIDE DEF before
    <2> QED BY <1>1, <2>2 DEF Row, Action, ActionData
  <1>3. IsFiniteSet(R)
    <2>1. f \in [sels -> R] /\ \A r \in R : \E s \in sels : f[s] = r
      <3> HIDE DEF row
      <3> QED OBVIOUS
    <2> HIDE DEF f, R
    <2> QED BY <2>1, ImageIsFinite
  <1>4. actions' = actions \cup R
    BY DEF InsertActions
  <1>5. R \in SUBSET Action
    <2> HIDE DEF row
    <2> QED BY <1>2
  <1>6. actions' \in SUBSET Action /\ IsFiniteSet(actions')
    <2> HIDE DEF R
    <2> QED BY <1>1, <1>3, <1>4, <1>5, FS_Union
  <1>7. \A d \in Splayd : Cardinality(of(d)) \in Nat
    <2> SUFFICES ASSUME NEW d \in Splayd PROVE Cardinality(of(d)) \in Nat
      OBVIOUS
    <2>1. of(d) \in SUBSET sels
      OBVIOUS
    <2> HIDE DEF of
    <2> QED BY <2>1, CountType
  <1>8. nextAction' = [d \in Splayd |-> nextAction[d] + Cardinality(of(d))]
    BY DEF InsertActions
  <1>9. nextAction' \in [Splayd -> Nat]
    <2> HIDE DEF of
    <2> QED BY <1>1, <1>7, <1>8
  <1> QED BY <1>6, <1>9

\* reset
LEMMA ResetType ==
  ASSUME TablesTypeOK, NEW d \in Splayd, ResetSession(d) \/ ResetJobs(d)
  PROVE  TablesTypeOK'
  <1>1. CASE ResetSession(d)
    <2>1. splayds' \in [Splayd -> [status : SplaydStatus, session : Nat]]
      BY <1>1 DEF ResetSession, TablesTypeOK, SplaydStatus, NullSession, FirstSession
    <2>2. actions' \in SUBSET actions
      BY <1>1 DEF ResetSession
    <2>3. actions' \in SUBSET Action /\ IsFiniteSet(actions')
      BY <2>2, CountType DEF TablesTypeOK
    <2> QED BY <1>1, <2>1, <2>3 DEF ResetSession, TablesTypeOK
  <1>2. CASE ResetJobs(d)
    <2>1. splayd_jobs' \in SUBSET splayd_jobs
      BY <1>2 DEF ResetJobs
    <2>2. splayd_jobs' \in SUBSET SplaydJob /\ IsFiniteSet(splayd_jobs')
      BY <2>1, CountType DEF TablesTypeOK
    <2> DEFINE f == [s \in selections |-> IF s.splayd = d THEN [s EXCEPT !.reset = TRUE] ELSE s]
    <2>3. selections' \in SUBSET Selection
      BY <1>2, SelectionFlags DEF ResetJobs, TablesTypeOK
    <2>4. f \in [selections -> selections'] /\ \A r \in selections' : \E x \in selections : f[x] = r
      BY <1>2 DEF ResetJobs
    <2>5. IsFiniteSet(selections')
      <3> HIDE DEF f
      <3> QED BY <2>4, ImageIsFinite DEF TablesTypeOK
    <2> QED BY <1>2, <2>2, <2>3, <2>5 DEF ResetJobs, TablesTypeOK
  <1> QED BY <1>1, <1>2

LEMMA InitType == Init => TypeOK
  <1> SUFFICES ASSUME Init PROVE TypeOK
    OBVIOUS
  <1> USE DEF Init
  <1>1. TablesTypeOK
    <2>1. IsFiniteSet({})
      BY FS_EmptySet
    <2> QED BY <2>1 DEF TablesInit, TablesTypeOK, SplaydStatus, JobStatus, NullSession
  <1>2. DaemonTypeOK
    BY MaxConnAssumption DEF DaemonInit, DaemonTypeOK, Conn, NoConn, EmptyText,
       DaemonJobStatus, Reply
  <1>3. ThreadTypeOK
    BY DEF ThreadInit, ThreadTypeOK, Pc, Holding, EmptyText, NullSession, SplaydStatus, NoAction
  <1>4. JobdTypeOK
    BY DEF JobdInit, JobdTypeOK, Phase, Step
  <1>5. EventsTypeOK
    BY BoundsAssumption DEF EventsTypeOK, AllSeen, UnseenState
  <1> QED BY <1>1, <1>2, <1>3, <1>4, <1>5 DEF TypeOK

---------------------------------------------------------------------------
(* The threads of the controller *)

LEMMA SplaydOfType == \A k \in Conn : SplaydOf(k) \in Splayd
  BY DEF Conn, SplaydOf

LEMMA WriteType ==
  ASSUME DaemonTypeOK, NEW k \in Conn, NEW msgs \in Seq(Message), Write(k, msgs)
  PROVE  req' \in [Conn -> Seq(Message)]
  <1>1. req[k] \o msgs \in Seq(Message)
    <2>1. req[k] \in Seq(Message)
      BY DEF DaemonTypeOK
    <2> HIDE DEF Message
    <2> QED BY <2>1
  <1> HIDE DEF Message
  <1> QED BY <1>1 DEF Write, DaemonTypeOK

\* SJRegister, SJFree and SJStart
LEMMA SJType ==
  ASSUME TablesTypeOK, NEW d, NEW j
  PROVE  /\ SJRegister(d, j) =>
              /\ splayd_jobs' \in SUBSET SplaydJob /\ IsFiniteSet(splayd_jobs')
              /\ selections' \in SUBSET Selection /\ IsFiniteSet(selections')
         /\ SJFree(d, j) =>
              splayd_jobs' \in SUBSET SplaydJob /\ IsFiniteSet(splayd_jobs')
         /\ SJStart(d, j) =>
              splayd_jobs' \in SUBSET SplaydJob /\ IsFiniteSet(splayd_jobs')
  <1>1. ASSUME SJRegister(d, j)
        PROVE  selections' \in SUBSET Selection /\ IsFiniteSet(selections')
    <2> DEFINE f == [s \in selections |-> IF s.splayd = d /\ s.job = j
                                          THEN [s EXCEPT !.replied = TRUE] ELSE s]
    <2>1. selections' \in SUBSET Selection
      BY <1>1, SelectionFlags DEF SJRegister, TablesTypeOK
    <2>2. f \in [selections -> selections'] /\ \A r \in selections' : \E x \in selections : f[x] = r
      BY <1>1 DEF SJRegister
    <2> HIDE DEF f
    <2> QED BY <2>1, <2>2, ImageIsFinite DEF TablesTypeOK
  <1>2. ASSUME SJFree(d, j)
        PROVE  splayd_jobs' \in SUBSET SplaydJob /\ IsFiniteSet(splayd_jobs')
    <2>1. splayd_jobs' \in SUBSET splayd_jobs
      BY <1>2 DEF SJFree
    <2> QED BY <2>1, CountType DEF TablesTypeOK
  <1>3. SJRegister(d, j) \/ SJStart(d, j) =>
          splayd_jobs' \in SUBSET SplaydJob /\ IsFiniteSet(splayd_jobs')
    BY SetSplaydJobStatusType DEF SJRegister, SJStart, TablesTypeOK
  <1> QED BY <1>1, <1>2, <1>3

\* The ensure of main.
LEMMA EndMainType ==
  ASSUME TypeOK, NEW k \in Conn, EndMain(k)
  PROVE  /\ splayds' \in [Splayd -> [status : SplaydStatus, session : Nat]]
         /\ actions' \in SUBSET Action /\ IsFiniteSet(actions')
         /\ tpc' \in [Conn -> Pc]
         /\ taction' \in [Conn -> Action \cup {NoAction}]
         /\ \A c \in Conn : tpc'[c] \in Holding => taction'[c] \in Action
  <1>1. splayds' \in [Splayd -> [status : SplaydStatus, session : Nat]]
    BY SplaydOfType DEF EndMain, SetSplaydStatus, TypeOK, TablesTypeOK, SplaydStatus
  <1>2. actions' \in SUBSET Action /\ IsFiniteSet(actions')
    BY SetActionStatusType DEF EndMain, ActionFailure, TypeOK, TablesTypeOK, ActionStatus
  <1>3. /\ tpc' \in [Conn -> Pc]
        /\ taction' \in [Conn -> Action \cup {NoAction}]
        /\ \A c \in Conn : tpc'[c] \in Holding => taction'[c] \in Action
    BY DEF EndMain, Goto, TypeOK, ThreadTypeOK, Pc, Holding
  <1> QED BY <1>1, <1>2, <1>3

LEMMA ThreadStepType ==
  ASSUME TypeOK, NEW k \in Conn, ThreadStep(k)
  PROVE  TablesTypeOK' /\ DaemonTypeOK' /\ ThreadTypeOK'
  <1> DEFINE d == SplaydOf(k)
  <1>d. d \in Splayd
    BY SplaydOfType
  <1>t. TablesTypeOK /\ DaemonTypeOK /\ ThreadTypeOK
    BY DEF TypeOK
  <1>m. /\ \A x \in Nat : [cmd |-> "AUTH", session |-> x] \in Message
        /\ [cmd |-> "INFOS"] \in Message /\ [cmd |-> "LOG"] \in Message
    BY DEF Message
  <1>a. Auth(k) \in Message
    <2>1. SessionText(trow[k].session) \in Nat
      BY <1>t DEF ThreadTypeOK, SessionText, NullText
    <2> QED BY <2>1, <1>m DEF Auth
  <1> HIDE DEF d
  <1>1. CASE ReadRow(k)
    <2>1. TablesTypeOK' /\ DaemonTypeOK'
      BY <1>1, <1>t DEF ReadRow, TablesTypeOK, DaemonTypeOK, tables, daemonVars
    <2>2. ThreadTypeOK'
      BY <1>1, <1>t, SplaydOfType DEF ReadRow, TablesTypeOK, ThreadTypeOK, Goto, Pc, Holding, tables
    <2> QED BY <2>1, <2>2
  <1>2. CASE Authenticate(k)
    <2>1. req' \in [Conn -> Seq(Message)]
      <3>1. UNCHANGED req \/ Write(k, <<Auth(k)>>)
        BY <1>2 DEF Authenticate
      <3>2. <<Auth(k)>> \in Seq(Message)
        BY <1>a
      <3> QED BY <1>t, <3>1, <3>2, WriteType DEF DaemonTypeOK
    <2>2. DaemonTypeOK'
      BY <1>2, <1>t, <2>1 DEF Authenticate, DaemonTypeOK
    <2>3. ThreadTypeOK'
      BY <1>2, <1>t DEF Authenticate, ThreadTypeOK, Goto, Pc, Holding
    <2>4. TablesTypeOK'
      <3>1. CASE SameSession(k)
        BY <1>2, <1>d, <1>t, <3>1
           DEF Authenticate, SetSplaydStatus, TablesTypeOK, SplaydStatus, d
      <3>2. CASE ~SameSession(k)
        BY <1>2, <1>d, <1>t, <3>2, ResetType DEF Authenticate, d
      <3> QED BY <3>1, <3>2
    <2> QED BY <2>2, <2>3, <2>4
  <1>12. CASE AskInfos(k)
    <2>1. req' \in [Conn -> Seq(Message)]
      <3>1. <<Auth(k), [cmd |-> "INFOS"]>> \in Seq(Message)
        BY <1>a, <1>m
      <3> QED BY <1>12, <1>t, <3>1, WriteType DEF AskInfos
    <2>2. DaemonTypeOK'
      BY <1>12, <1>t, <2>1 DEF AskInfos, DaemonTypeOK
    <2>3. ThreadTypeOK'
      BY <1>12, <1>t DEF AskInfos, ThreadTypeOK, Goto, Pc, Holding
    <2>4. TablesTypeOK'
      BY <1>12, <1>d, <1>t, ResetType DEF AskInfos, d
    <2> QED BY <2>2, <2>3, <2>4
  <1>3. CASE InfosOK(k)
    <2>1. <<[cmd |-> "LOG"]>> \in Seq(Message)
      BY <1>m
    <2>2. req' \in [Conn -> Seq(Message)]
      BY <1>3, <1>t, <2>1, WriteType DEF InfosOK
    <2>3. rep' \in [Conn -> Reply]
      BY <1>3, <1>t DEF InfosOK, Read, DaemonTypeOK, Reply
    <2>4. DaemonTypeOK'
      BY <1>3, <1>t, <2>2, <2>3 DEF InfosOK, DaemonTypeOK
    <2>5. TablesTypeOK'
      BY <1>3, <1>t DEF InfosOK, TablesTypeOK, tables
    <2>6. ThreadTypeOK'
      BY <1>3, <1>t, SplaydOfType DEF InfosOK, TablesTypeOK, ThreadTypeOK, Goto, Pc, Holding
    <2> QED BY <2>4, <2>5, <2>6
  <1>4. CASE Available(k)
    <2>1. TablesTypeOK'
      BY <1>4, <1>d, <1>t DEF Available, SetSplaydStatus, TablesTypeOK, SplaydStatus, d
    <2>2. DaemonTypeOK'
      BY <1>4, <1>t DEF Available, Read, DaemonTypeOK, Reply
    <2>3. ThreadTypeOK'
      BY <1>4, <1>t DEF Available, ThreadTypeOK, Goto, Pc, Holding
    <2> QED BY <2>1, <2>2, <2>3
  <1>13. CASE ReadFailed(k)
    <2>1. TablesTypeOK' /\ DaemonTypeOK'
      BY <1>13, <1>t DEF ReadFailed, TablesTypeOK, DaemonTypeOK, tables, daemonVars
    <2>2. ActionsOf(d, "FAILURE") \in SUBSET Action
      BY <1>t DEF ActionsOf, TablesTypeOK
    <2>3. ThreadTypeOK'
      BY <1>13, <1>t, <2>2 DEF ReadFailed, GoesOnWith, ThreadTypeOK, Goto, Pc, Holding, d
    <2> QED BY <2>1, <2>3
  <1>14. CASE RestoreAction(k)
    <2>1. PICK a \in tfailed[k] :
             /\ actions' = SetActionStatus({b \in actions : b.splayd = a.splayd /\ b.id = a.id},
                                           "WAITING")
             /\ GoesOnWith(k, tfailed[k] \ {a})
      BY <1>14 DEF RestoreAction
    <2>2. actions' \in SUBSET Action /\ IsFiniteSet(actions')
      BY <1>t, <2>1, SetActionStatusType DEF TablesTypeOK, ActionStatus
    <2>3. TablesTypeOK' /\ DaemonTypeOK'
      BY <1>14, <1>t, <2>2 DEF RestoreAction, TablesTypeOK, DaemonTypeOK, daemonVars
    <2>4. ThreadTypeOK'
      BY <1>14, <1>t, <2>1 DEF RestoreAction, GoesOnWith, ThreadTypeOK, Goto, Pc, Holding
    <2> QED BY <2>3, <2>4
  <1>15. CASE DeleteRegister(k)
    <2>1. PICK a \in tfailed[k] :
             /\ actions' = RemoveAction(d, a.id)
             /\ tfailed' = [tfailed EXCEPT ![k] = @ \ {a}]
             /\ taction' = [taction EXCEPT ![k] = a]
      BY <1>15 DEF DeleteRegister, d
    <2>2. actions' \in SUBSET actions /\ a \in Action
      BY <1>t, <2>1 DEF RemoveAction, ThreadTypeOK
    <2>3. actions' \in SUBSET Action /\ IsFiniteSet(actions')
      BY <1>t, <2>2, CountType DEF TablesTypeOK
    <2>4. TablesTypeOK' /\ DaemonTypeOK'
      BY <1>15, <1>t, <2>3 DEF DeleteRegister, TablesTypeOK, DaemonTypeOK, daemonVars
    <2>5. ThreadTypeOK'
      BY <1>15, <1>t, <2>1, <2>2 DEF DeleteRegister, ThreadTypeOK, Goto, Pc, Holding
    <2> QED BY <2>4, <2>5
  <1>16. CASE FreeFirst(k) \/ RegisterAgain(k)
    <2>1. taction[k] \in Action
      BY <1>16, <1>t DEF FreeFirst, RegisterAgain, At, ThreadTypeOK, Holding
    <2>2. taction[k].job \in Job
      BY <2>1 DEF Action
    <2>3. actions' \in SUBSET Action /\ IsFiniteSet(actions') /\ nextAction' \in [Splayd -> Nat]
      BY <1>16, <1>d, <1>t, <2>2, AddActionType
         DEF FreeFirst, RegisterAgain, Command, ActionData, d
    <2>4. TablesTypeOK' /\ DaemonTypeOK'
      BY <1>16, <1>t, <2>3 DEF FreeFirst, RegisterAgain, TablesTypeOK, DaemonTypeOK, daemonVars
    <2>5. CASE FreeFirst(k)
      BY <1>t, <2>1, <2>4, <2>5 DEF FreeFirst, ThreadTypeOK, Goto, Pc, Holding
    <2>6. CASE RegisterAgain(k)
      BY <1>t, <2>4, <2>6 DEF RegisterAgain, GoesOnWith, ThreadTypeOK, Goto, Pc, Holding
    <2> QED BY <1>16, <2>5, <2>6
  <1>5. CASE AuthFails(k)
    <2>1. splayds' \in [Splayd -> [status : SplaydStatus, session : Nat]]
      BY <1>5, <1>t, SplaydOfType DEF AuthFails, SetSplaydStatus, TablesTypeOK, ThreadTypeOK
    <2>2. TablesTypeOK' /\ DaemonTypeOK'
      BY <1>5, <1>t, <2>1 DEF AuthFails, TablesTypeOK, DaemonTypeOK, daemonVars
    <2>3. ThreadTypeOK'
      BY <1>5, <1>t DEF AuthFails, ThreadTypeOK, Goto, Pc, Holding
    <2> QED BY <2>2, <2>3
  <1>6. CASE MainFails(k)
    <2>1. EndMain(k) /\ UNCHANGED <<nextAction, splayd_jobs, selections, jobs, daemonVars,
                                    tsession, trow, tfailed>>
      BY <1>6 DEF MainFails
    <2>2. TablesTypeOK' /\ DaemonTypeOK' /\ ThreadTypeOK'
      BY <1>t, <2>1, EndMainType DEF TablesTypeOK, DaemonTypeOK, ThreadTypeOK, daemonVars
    <2> QED BY <2>2
  <1>7. CASE PickAction(k)
    <2>1. PICK a \in actions : taction' = [taction EXCEPT ![k] = a]
      BY <1>7 DEF PickAction
    <2>2. a \in Action
      BY <1>t DEF TablesTypeOK
    <2>3. TablesTypeOK' /\ DaemonTypeOK'
      BY <1>7, <1>t DEF PickAction, TablesTypeOK, DaemonTypeOK, tables, daemonVars
    <2>4. ThreadTypeOK'
      BY <1>7, <1>t, <2>1, <2>2 DEF PickAction, ThreadTypeOK, Goto, Pc, Holding
    <2> QED BY <2>3, <2>4
  <1>8. CASE SendAction(k)
    <2> DEFINE msg == [cmd |-> taction[k].cmd, job |-> taction[k].job, data |-> taction[k].data]
    <2>1. taction[k] \in Action
      BY <1>8, <1>t DEF SendAction, At, ThreadTypeOK, Holding
    <2>2. msg \in Message
      BY <2>1 DEF Action, Message
    <2>3. <<msg>> \in Seq(Message)
      <3> HIDE DEF msg
      <3> QED BY <2>2
    <2>4. req' \in [Conn -> Seq(Message)]
      <3>1. Write(k, <<msg>>)
        BY <1>8 DEF SendAction
      <3> HIDE DEF msg
      <3> QED BY <1>t, <2>3, <3>1, WriteType
    <2>5. DaemonTypeOK'
      BY <1>8, <1>t, <2>4 DEF SendAction, DaemonTypeOK
    <2>6. actions' \in SUBSET Action /\ IsFiniteSet(actions')
      BY <1>8, <1>t, SetActionStatusType DEF SendAction, MarkSending, TablesTypeOK, ActionStatus
    <2>7. TablesTypeOK'
      BY <1>8, <1>t, <2>6 DEF SendAction, TablesTypeOK
    <2>8. ThreadTypeOK'
      BY <1>8, <1>t, <2>1 DEF SendAction, ThreadTypeOK, Goto, Pc, Holding
    <2> QED BY <2>5, <2>7, <2>8
  <1>9. CASE ApplyReply(k)
    <2>1. TablesTypeOK'
      <3>1. \/ SJRegister(d, taction[k].job)
            \/ SJStart(d, taction[k].job) /\ UNCHANGED selections
            \/ SJFree(d, taction[k].job) /\ UNCHANGED selections
            \/ UNCHANGED <<splayd_jobs, selections>>
        BY <1>9 DEF ApplyReply, d
      <3>2. /\ splayd_jobs' \in SUBSET SplaydJob /\ IsFiniteSet(splayd_jobs')
            /\ selections' \in SUBSET Selection /\ IsFiniteSet(selections')
        BY <1>t, <3>1, SJType DEF TablesTypeOK
      <3> QED BY <1>9, <1>t, <3>2 DEF ApplyReply, TablesTypeOK
    <2>2. DaemonTypeOK'
      BY <1>9, <1>t DEF ApplyReply, Read, DaemonTypeOK, Reply
    <2>3. ThreadTypeOK'
      BY <1>9, <1>t DEF ApplyReply, At, ThreadTypeOK, Goto, Pc, Holding
    <2> QED BY <2>1, <2>2, <2>3
  <1>10. CASE ReplyNotOK(k)
    <2>1. EndMain(k) /\ UNCHANGED <<nextAction, splayd_jobs, selections, jobs, dsession,
                                    djobs, dconn, dloop, link, req, tsession, trow, tfailed>>
      BY <1>10 DEF ReplyNotOK
    <2>2. rep' \in [Conn -> Reply]
      BY <1>10, <1>t DEF ReplyNotOK, Read, DaemonTypeOK, Reply
    <2>3. TablesTypeOK' /\ DaemonTypeOK' /\ ThreadTypeOK'
      BY <1>t, <2>1, <2>2, EndMainType DEF TablesTypeOK, DaemonTypeOK, ThreadTypeOK
    <2> QED BY <2>3
  <1>11. CASE FinishAction(k)
    <2>1. actions' \in SUBSET actions
      BY <1>11 DEF FinishAction, RemoveAction
    <2>2. actions' \in SUBSET Action /\ IsFiniteSet(actions')
      BY <1>t, <2>1, CountType DEF TablesTypeOK
    <2>3. TablesTypeOK' /\ DaemonTypeOK'
      BY <1>11, <1>t, <2>2 DEF FinishAction, TablesTypeOK, DaemonTypeOK, daemonVars
    <2>4. ThreadTypeOK'
      BY <1>11, <1>t DEF FinishAction, ThreadTypeOK, Goto, Pc, Holding
    <2> QED BY <2>3, <2>4
  <1> QED BY <1>1, <1>2, <1>3, <1>4, <1>5, <1>6, <1>7, <1>8, <1>9, <1>10, <1>11,
             <1>12, <1>13, <1>14, <1>15, <1>16
       DEF ThreadStep

---------------------------------------------------------------------------
(* The daemons *)

LEMMA ReceivesType ==
  ASSUME DaemonTypeOK, NEW d \in Splayd, NEW k, NEW c, Receives(d, k, c)
  PROVE  /\ k \in Conn /\ k = Current(d)
         /\ req' \in [Conn -> Seq(Message)]
         /\ Head(req[k]) \in Message /\ Head(req[k]).cmd = c
  <1>1. k \in Conn /\ k = Current(d)
    BY MaxConnAssumption DEF Receives, Current, NoConn, Conn, DaemonTypeOK
  <1>2. req[k] \in Seq(Message) /\ req[k] # <<>>
    BY <1>1 DEF Receives, DaemonTypeOK
  <1>3. Head(req[k]) \in Message /\ Tail(req[k]) \in Seq(Message)
    <2> HIDE DEF Message
    <2> QED BY <1>2
  <1>4. req' = [req EXCEPT ![k] = Tail(req[k])] /\ Head(req[k]).cmd = c
    BY DEF Receives
  <1>5. req' \in [Conn -> Seq(Message)]
    <2> HIDE DEF Message
    <2> QED BY <1>3, <1>4 DEF DaemonTypeOK
  <1> QED BY <1>1, <1>3, <1>4, <1>5

\* What a command carries.
LEMMA MessageType ==
  ASSUME NEW m \in Message
  PROVE  /\ m.cmd = "AUTH" => m.session \in Nat
         /\ m.cmd \in Command => m.job \in Job
  BY DEF Message, Command

LEMMA AnswersType ==
  ASSUME DaemonTypeOK, NEW d \in Splayd, NEW k \in Conn, NEW r \in Reply, Answers(d, k, r)
  PROVE  /\ rep' \in [Conn -> Reply]
         /\ dconn' \in [Splayd -> 0 .. MaxConn]
         /\ dloop' \in [Splayd -> BOOLEAN]
         /\ link' \in [Conn -> {"free", "up", "down"}]
  <1>1. CASE link[k] = "up" /\ rep' = [rep EXCEPT ![k] = r] /\ UNCHANGED <<dconn, dloop, link>>
    BY <1>1 DEF DaemonTypeOK
  <1>2. CASE /\ dconn' \in {dconn, [dconn EXCEPT ![d] = NoConn]}
             /\ dloop' = [dloop EXCEPT ![d] = dconn'[d] # NoConn]
             /\ UNCHANGED <<rep, link>>
    <2>1. dconn' \in [Splayd -> 0 .. MaxConn]
      <3>1. /\ dconn \in [Splayd -> 0 .. MaxConn]
            /\ [dconn EXCEPT ![d] = NoConn] \in [Splayd -> 0 .. MaxConn]
        BY MaxConnAssumption DEF DaemonTypeOK, NoConn
      <3> QED BY <1>2, <3>1
    <2>2. dloop' \in [Splayd -> BOOLEAN]
      BY <1>2 DEF DaemonTypeOK
    <2> QED BY <1>2, <2>1, <2>2 DEF DaemonTypeOK
  <1> QED BY <1>1, <1>2 DEF Answers

LEMMA BreaksType ==
  ASSUME DaemonTypeOK, NEW d \in Splayd, NEW k \in Conn, Breaks(d, k)
  PROVE  /\ rep' \in [Conn -> Reply]
         /\ dconn' \in [Splayd -> 0 .. MaxConn]
         /\ dloop' \in [Splayd -> BOOLEAN]
         /\ link' \in [Conn -> {"free", "up", "down"}]
         /\ UNCHANGED <<dsession, djobs>>
  BY MaxConnAssumption DEF Breaks, DaemonTypeOK, NoConn

\* Giving one job a status keeps the type of djobs.
LEMMA DJobsType ==
  ASSUME DaemonTypeOK, NEW d \in Splayd, NEW j \in Job, NEW st \in DaemonJobStatus
  PROVE  [djobs EXCEPT ![d][j] = st] \in [Splayd -> [Job -> DaemonJobStatus]]
  BY DEF DaemonTypeOK

LEMMA RegisterType ==
  ASSUME DaemonTypeOK, NEW d \in Splayd, NEW k, NEW busy \in BOOLEAN, Register(d, k, busy)
  PROVE  DaemonTypeOK'
  <1> DEFINE j == Head(req[k]).job
             r == RegisterReply(d, j, busy)
  <1>1. Receives(d, k, "REGISTER")
    BY DEF Register
  <1>2. k \in Conn /\ req' \in [Conn -> Seq(Message)] /\ j \in Job
    BY <1>1, ReceivesType, MessageType DEF Command
  <1>3. CASE Breaks(d, k)
    BY <1>2, <1>3, BreaksType DEF DaemonTypeOK
  <1>4. CASE /\ Answers(d, k, r)
             /\ djobs' = IF r = "OK" THEN [djobs EXCEPT ![d][j] = "waiting"] ELSE djobs
             /\ UNCHANGED dsession
    <2>1. r \in Reply
      BY DEF RegisterReply, Reply
    <2>2. djobs' \in [Splayd -> [Job -> DaemonJobStatus]]
      <3>1. [djobs EXCEPT ![d][j] = "waiting"] \in [Splayd -> [Job -> DaemonJobStatus]]
        BY <1>2, DJobsType DEF DaemonJobStatus
      <3> HIDE DEF r, j
      <3> QED BY <1>4, <3>1 DEF DaemonTypeOK
    <2> HIDE DEF r
    <2> QED BY <1>2, <1>4, <2>1, <2>2, AnswersType DEF DaemonTypeOK
  <1> QED BY <1>3, <1>4 DEF Register

LEMMA ExecuteType ==
  ASSUME DaemonTypeOK, NEW d \in Splayd, NEW k, Execute(d, k, FALSE)
  PROVE  DaemonTypeOK'
  <1> DEFINE j == Head(req[k]).job
  <1>1. CASE ReceiveSession(d, k)
    <2>1. Receives(d, k, "AUTH")
      BY <1>1 DEF ReceiveSession
    <2>2. req' \in [Conn -> Seq(Message)] /\ Head(req[k]).session \in Nat
      BY <2>1, ReceivesType, MessageType
    <2>3. /\ dsession' \in [Splayd -> Nat]
          /\ djobs' \in [Splayd -> [Job -> DaemonJobStatus]]
          /\ dloop' \in [Splayd -> BOOLEAN]
      BY <1>1, <2>2 DEF ReceiveSession, DaemonTypeOK, NoJobs, DaemonJobStatus
    <2> QED BY <1>1, <2>2, <2>3 DEF ReceiveSession, DaemonTypeOK
  <1>2. CASE ReceiveSettings(d, k)
    <2>1. PICK c \in {"INFOS", "LOG"} : Receives(d, k, c)
      BY <1>2 DEF ReceiveSettings
    <2>2. k \in Conn /\ req' \in [Conn -> Seq(Message)]
      BY <2>1, ReceivesType
    <2>3. Answers(d, k, "OK") /\ UNCHANGED <<dsession, djobs>>
      BY <1>2 DEF ReceiveSettings
    <2>4. "OK" \in Reply
      BY DEF Reply
    <2> QED BY <2>2, <2>3, <2>4, AnswersType DEF DaemonTypeOK
  <1>3. CASE Register(d, k, FALSE)
    BY <1>3, RegisterType
  <1>4. CASE Free(d, k)
    <2>1. Receives(d, k, "FREE")
      BY <1>4 DEF Free
    <2>2. k \in Conn /\ req' \in [Conn -> Seq(Message)] /\ j \in Job
      BY <2>1, ReceivesType, MessageType DEF Command
    <2>3. PICK r \in Reply : Answers(d, k, r)
      BY <1>4 DEF Free, Reply
    <2>4. djobs' \in [Splayd -> [Job -> DaemonJobStatus]]
      BY <1>4, <2>2, DJobsType DEF Free, DaemonJobStatus
    <2>5. UNCHANGED dsession
      BY <1>4 DEF Free
    <2> QED BY <2>2, <2>3, <2>4, <2>5, AnswersType DEF DaemonTypeOK
  <1>5. CASE List(d, k)
    <2>1. Receives(d, k, "LIST")
      BY <1>5 DEF List
    <2>2. k \in Conn /\ req' \in [Conn -> Seq(Message)] /\ j \in Job
      BY <2>1, ReceivesType, MessageType DEF Command
    <2>3. PICK r \in Reply : Answers(d, k, r)
      BY <1>5 DEF List, Reply
    <2> DEFINE st == IF djobs[d][j] = "waiting" THEN "listed" ELSE djobs[d][j]
    <2>4. st \in DaemonJobStatus
      BY <2>2 DEF DaemonJobStatus, DaemonTypeOK
    <2>5. djobs' \in [Splayd -> [Job -> DaemonJobStatus]]
      BY <1>5, <2>2, <2>4, DJobsType DEF List
    <2>6. UNCHANGED dsession
      BY <1>5 DEF List
    <2> QED BY <2>2, <2>3, <2>5, <2>6, AnswersType DEF DaemonTypeOK
  <1>6. CASE Start(d, k)
    <2>1. Receives(d, k, "START")
      BY <1>6 DEF Start
    <2>2. k \in Conn /\ req' \in [Conn -> Seq(Message)] /\ j \in Job
      BY <2>1, ReceivesType, MessageType DEF Command
    <2>3. CASE djobs[d][j] = "waiting"
      <3>1. Breaks(d, k)
        BY <1>6, <2>3 DEF Start
      <3> QED BY <2>2, <3>1, BreaksType DEF DaemonTypeOK
    <2>4. CASE djobs[d][j] # "waiting"
      <3>1. PICK r \in Reply : Answers(d, k, r)
        BY <1>6, <2>4 DEF Start, Reply
      <3> DEFINE st == IF djobs[d][j] = "listed" THEN "running" ELSE djobs[d][j]
      <3>2. st \in DaemonJobStatus
        BY <2>2 DEF DaemonJobStatus, DaemonTypeOK
      <3>3. djobs' \in [Splayd -> [Job -> DaemonJobStatus]]
        BY <1>6, <2>2, <2>4, <3>2, DJobsType DEF Start
      <3>4. UNCHANGED dsession
        BY <1>6, <2>4 DEF Start
      <3> QED BY <2>2, <3>1, <3>3, <3>4, AnswersType DEF DaemonTypeOK
    <2> QED BY <2>3, <2>4
  <1> QED BY <1>1, <1>2, <1>3, <1>4, <1>5, <1>6 DEF Execute

LEMMA ConnectType ==
  ASSUME TypeOK, NEW d \in Splayd, NEW n \in 1 .. MaxConn, Connect(d, n)
  PROVE  TablesTypeOK' /\ DaemonTypeOK' /\ ThreadTypeOK'
  <1>1. <<d, n>> \in Conn
    BY DEF Conn
  <1>2. DaemonTypeOK'
    BY <1>1, MaxConnAssumption DEF Connect, TypeOK, DaemonTypeOK
  <1>3. ThreadTypeOK'
    BY <1>1 DEF Connect, TypeOK, DaemonTypeOK, ThreadTypeOK, Goto, Pc, Holding
  <1>4. TablesTypeOK'
    BY DEF Connect, TypeOK, TablesTypeOK, tables
  <1> QED BY <1>2, <1>3, <1>4

\* HandshakeFails, FullReset and DaemonRestart
LEMMA DaemonEndsType ==
  ASSUME DaemonTypeOK, NEW d \in Splayd,
         HandshakeFails(d) \/ FullReset(d) \/ DaemonRestart(d)
  PROVE  DaemonTypeOK'
  <1>1. CASE HandshakeFails(d)
    BY <1>1, MaxConnAssumption DEF HandshakeFails, DaemonTypeOK, NoConn
  <1>2. CASE FullReset(d)
    BY <1>2 DEF FullReset, DaemonTypeOK, EmptyText, NoJobs, DaemonJobStatus
  <1>3. CASE DaemonRestart(d)
    <2>1. dconn[d] # NoConn => Current(d) \in Conn
      BY MaxConnAssumption DEF Current, Conn, NoConn, DaemonTypeOK
    <2>2. link' \in [Conn -> {"free", "up", "down"}]
      BY <1>3, <2>1 DEF DaemonRestart, DaemonTypeOK
    <2> QED BY <1>3, <2>2, MaxConnAssumption
         DEF DaemonRestart, DaemonTypeOK, EmptyText, NoJobs, DaemonJobStatus, NoConn
  <1> QED BY <1>1, <1>2, <1>3

---------------------------------------------------------------------------
(* The scheduler *)

LEMMA PhaseType ==
  ASSUME JobdTypeOK
  PROVE  /\ NextPhase => JobdTypeOK'
         /\ \A j \in Job : \A p : Takes(j, p) /\ Done => JobdTypeOK'
         /\ \A j \in Job : \A p : \A s \in Step \ {"next"}, ds \in SUBSET Splayd :
               Takes(j, p) /\ GoesOn(j, s, ds) => JobdTypeOK'
  <1>1. ASSUME NextPhase PROVE JobdTypeOK'
    <2>1. jphase' \in Phase
      BY <1>1 DEF NextPhase, After, Phase, JobdTypeOK
    <2>2. jtodo' \in SUBSET Job
      <3>1. PICK late \in SUBSET Scheduled, old \in SUBSET Job : jtodo' = JobsOf(jphase', late, old)
        BY <1>1 DEF NextPhase
      <3>2. JobsOf(jphase', late, old) \in SUBSET Job
        BY <2>1 DEF JobsOf, JobsIn, Phase
      <3> QED BY <3>1, <3>2
    <2> QED BY <1>1, <2>1, <2>2 DEF NextPhase, JobdTypeOK
  <1>2. \A j \in Job : \A p : Takes(j, p) /\ Done => JobdTypeOK'
    BY DEF Takes, Done, JobdTypeOK
  <1>3. \A j \in Job : \A p : \A s \in Step \ {"next"}, ds \in SUBSET Splayd :
               Takes(j, p) /\ GoesOn(j, s, ds) => JobdTypeOK'
    BY JobAssumption DEF Takes, GoesOn, JobdTypeOK
  <1> QED BY <1>1, <1>2, <1>3

LEMMA StatementType ==
  ASSUME JobdTypeOK, NEW s \in Step \ {"next"}
  PROVE  /\ \A t \in Step \ {"next"} : Statement(s, t) => JobdTypeOK' /\ jjob \in Job
         /\ LastStatement(s) => JobdTypeOK' /\ jjob \in Job
  BY DEF Statement, LastStatement, JobdTypeOK, Step

LEMMA TurnType ==
  ASSUME JobdTypeOK, NEW s \in Step \ {"next"}, NEW t \in Step \ {"next"}, NEW d,
         Turn(s, d, t)
  PROVE  JobdTypeOK' /\ jjob \in Job
  BY DEF Turn, JobdTypeOK, Step

LEMMA SetJobStatusType ==
  ASSUME TablesTypeOK, NEW j \in Job, NEW st \in JobStatus, SetJobStatus(j, st)
  PROVE  jobs' \in [Job -> [status : JobStatus, command : BOOLEAN]]
  BY DEF SetJobStatus, TablesTypeOK

LEMMA KilledType ==
  ASSUME TablesTypeOK, NEW j \in Job
  PROVE  Killed(jobs[j].status) \in JobStatus
  BY DEF Killed, TablesTypeOK, JobStatus

LEMMA SelectType ==
  ASSUME TablesTypeOK, JobdTypeOK, NEW j \in Job, NEW p, NEW late, NEW timeout \in BOOLEAN,
         SelectSplayds(j, p, late, timeout)
  PROVE  TablesTypeOK' /\ JobdTypeOK'
  <1> DEFINE st == IF p = "queued" /\ timeout THEN "QUEUE_TIMEOUT" ELSE jobs[j].status
  <1>1. PICK st2 \in JobStatus : SetJobStatus(j, st2)
    <2>1. st \in JobStatus
      BY DEF TablesTypeOK, JobStatus
    <2>2. \/ SetJobStatus(j, "NO_RESSOURCES")
          \/ SetJobStatus(j, "QUEUED")
          \/ SetJobStatus(j, IF j \in Strict THEN "NO_RESSOURCES"
                              ELSE IF p = "local" THEN "QUEUED" ELSE st)
          \/ SetJobStatus(j, st)
      BY DEF SelectSplayds
    <2>3. "NO_RESSOURCES" \in JobStatus /\ "QUEUED" \in JobStatus
      BY DEF JobStatus
    <2> HIDE DEF st
    <2> QED BY <2>1, <2>2, <2>3
  <1>2. UNCHANGED <<splayds, actions, nextAction, splayd_jobs, selections>>
    BY DEF SelectSplayds
  <1>3. TablesTypeOK'
    BY <1>1, <1>2, SetJobStatusType DEF TablesTypeOK
  <1>4. Takes(j, p)
    BY DEF SelectSplayds
  <1>5. Done \/ \E ds \in Chosen : GoesOn(j, "selections", ds)
    BY DEF SelectSplayds
  <1>6. Chosen \in SUBSET (SUBSET Splayd)
    BY DEF Chosen, Occupation, Candidates
  <1>7. "selections" \in Step \ {"next"}
    BY DEF Step
  <1>8. JobdTypeOK'
    BY <1>4, <1>5, <1>6, <1>7, PhaseType
  <1> QED BY <1>3, <1>8

LEMMA InsertSelectionsType ==
  ASSUME TablesTypeOK, JobdTypeOK, InsertSelections
  PROVE  TablesTypeOK' /\ JobdTypeOK'
  <1> DEFINE same(d) == {s \in SelectionsOf(jjob) : s.splayd = d}
             row(d) == [splayd |-> d, job |-> jjob, seq |-> Cardinality(same(d)),
                        selected |-> FALSE, replied |-> FALSE, reset |-> FALSE]
             f == [d \in jset |-> row(d)]
             R == {row(d) : d \in jset}
  <1>1. Statement("selections", "splayd_jobs")
    BY DEF InsertSelections
  <1>2. JobdTypeOK' /\ jjob \in Job
    BY <1>1, StatementType DEF Step
  <1>3. \A d \in jset : row(d) \in Selection
    <2> SUFFICES ASSUME NEW d \in jset PROVE row(d) \in Selection
      OBVIOUS
    <2>1. same(d) \in SUBSET selections
      BY DEF SelectionsOf
    <2>2. Cardinality(same(d)) \in Nat
      <3> HIDE DEF same
      <3> QED BY <2>1, CountType DEF TablesTypeOK
    <2>3. d \in Splayd
      BY DEF JobdTypeOK
    <2> HIDE DEF same
    <2> QED BY <1>2, <2>2, <2>3 DEF Selection
  <1>4. R \in SUBSET Selection /\ IsFiniteSet(R)
    <2>1. f \in [jset -> R] /\ \A r \in R : \E d \in jset : f[d] = r
      <3> HIDE DEF row
      <3> QED OBVIOUS
    <2>2. IsFiniteSet(jset)
      BY FiniteAssumption, FS_Subset DEF JobdTypeOK
    <2>3. IsFiniteSet(R)
      <3> HIDE DEF f, R
      <3> QED BY <2>1, <2>2, ImageIsFinite
    <2>4. R \in SUBSET Selection
      <3> HIDE DEF row
      <3> QED BY <1>3
    <2> QED BY <2>3, <2>4
  <1>5. selections' = selections \cup R
    BY DEF InsertSelections
  <1>6. selections' \in SUBSET Selection /\ IsFiniteSet(selections')
    <2> HIDE DEF R
    <2> QED BY <1>4, <1>5, FS_Union DEF TablesTypeOK
  <1> QED BY <1>2, <1>6 DEF InsertSelections, TablesTypeOK

LEMMA InsertSplaydJobsType ==
  ASSUME TablesTypeOK, JobdTypeOK, InsertSplaydJobs
  PROVE  TablesTypeOK' /\ JobdTypeOK'
  <1> DEFINE row(d) == [splayd |-> d, job |-> jjob,
                        seq |-> Cardinality(SplaydJobsOf(d, jjob)), status |-> "RESERVED"]
             f == [d \in jset |-> row(d)]
             R == {row(d) : d \in jset}
  <1>1. Statement("splayd_jobs", "registers")
    BY DEF InsertSplaydJobs
  <1>2. JobdTypeOK' /\ jjob \in Job
    BY <1>1, StatementType DEF Step
  <1>3. \A d \in jset : row(d) \in SplaydJob
    <2> SUFFICES ASSUME NEW d \in jset PROVE row(d) \in SplaydJob
      OBVIOUS
    <2>1. SplaydJobsOf(d, jjob) \in SUBSET splayd_jobs
      BY DEF SplaydJobsOf
    <2>2. Cardinality(SplaydJobsOf(d, jjob)) \in Nat
      BY <2>1, CountType DEF TablesTypeOK
    <2>3. d \in Splayd
      BY DEF JobdTypeOK
    <2> QED BY <1>2, <2>2, <2>3 DEF SplaydJob
  <1>4. R \in SUBSET SplaydJob /\ IsFiniteSet(R)
    <2>1. f \in [jset -> R] /\ \A r \in R : \E d \in jset : f[d] = r
      <3> HIDE DEF row
      <3> QED OBVIOUS
    <2>2. IsFiniteSet(jset)
      BY FiniteAssumption, FS_Subset DEF JobdTypeOK
    <2>3. IsFiniteSet(R)
      <3> HIDE DEF f, R
      <3> QED BY <2>1, <2>2, ImageIsFinite
    <2>4. R \in SUBSET SplaydJob
      <3> HIDE DEF row
      <3> QED BY <1>3
    <2> QED BY <2>3, <2>4
  <1>5. splayd_jobs' = splayd_jobs \cup R
    BY DEF InsertSplaydJobs
  <1>6. splayd_jobs' \in SUBSET SplaydJob /\ IsFiniteSet(splayd_jobs')
    <2> HIDE DEF R
    <2> QED BY <1>4, <1>5, FS_Union DEF TablesTypeOK
  <1> QED BY <1>2, <1>6 DEF InsertSplaydJobs, TablesTypeOK

LEMMA StatusRegisteringType ==
  ASSUME TablesTypeOK, JobdTypeOK, NEW j \in Job, StatusRegistering(j)
  PROVE  TablesTypeOK' /\ JobdTypeOK'
  <1>1. PICK rows \in SUBSET Replied(j) : GoesOn(j, "select", {s.splayd : s \in rows})
    BY DEF StatusRegistering
  <1>2. {s.splayd : s \in rows} \in SUBSET Splayd
    BY DEF Replied, SelectionsOf, TablesTypeOK, Selection
  <1>3. "select" \in Step \ {"next"}
    BY DEF Step
  <1>4. JobdTypeOK'
    BY <1>1, <1>2, <1>3, PhaseType DEF StatusRegistering
  <1> QED BY <1>4 DEF StatusRegistering, tables, TablesTypeOK

LEMMA SelectSplaydType ==
  ASSUME TablesTypeOK, JobdTypeOK, NEW d \in Splayd, SelectSplayd(d)
  PROVE  TablesTypeOK' /\ JobdTypeOK'
  <1>1. JobdTypeOK'
    BY TurnType DEF SelectSplayd, Step
  <1> DEFINE f == [s \in selections |-> IF s.job = jjob /\ s.splayd \in {d}
                                        THEN [s EXCEPT !.selected = TRUE] ELSE s]
  <1>2. selections' = {IF s.job = jjob /\ s.splayd \in {d}
                       THEN [s EXCEPT !.selected = TRUE] ELSE s : s \in selections}
    BY DEF SelectSplayd
  <1>3. selections' \in SUBSET Selection
    BY <1>2, SelectionFlags DEF TablesTypeOK
  <1>4. f \in [selections -> selections'] /\ \A r \in selections' : \E x \in selections : f[x] = r
    BY <1>2
  <1>5. IsFiniteSet(selections')
    <2> HIDE DEF f
    <2> QED BY <1>4, ImageIsFinite DEF TablesTypeOK
  <1> QED BY <1>1, <1>3, <1>5 DEF SelectSplayd, TablesTypeOK

\* The statements that INSERT INTO actions.
LEMMA SelsType ==
  ASSUME TablesTypeOK, JobdTypeOK, jjob \in Job
  PROVE  LET regs == {[splayd |-> d, job |-> jjob, seq |-> 0] : d \in jset}
         IN /\ \A sels \in SUBSET selections :
                 IsFiniteSet(sels) /\ \A s \in sels : s.splayd \in Splayd /\ s.job \in Job
            /\ IsFiniteSet(regs) /\ \A s \in regs : s.splayd \in Splayd /\ s.job \in Job
  <1> DEFINE regs == {[splayd |-> d, job |-> jjob, seq |-> 0] : d \in jset}
             f == [d \in jset |-> [splayd |-> d, job |-> jjob, seq |-> 0]]
  <1>1. \A sels \in SUBSET selections :
          IsFiniteSet(sels) /\ \A s \in sels : s.splayd \in Splayd /\ s.job \in Job
    BY CountType DEF TablesTypeOK, Selection
  <1>2. \A s \in regs : s.splayd \in Splayd /\ s.job \in Job
    BY DEF JobdTypeOK
  <1>3. f \in [jset -> regs] /\ \A r \in regs : \E d \in jset : f[d] = r
    OBVIOUS
  <1>4. IsFiniteSet(jset)
    BY FiniteAssumption, FS_Subset DEF JobdTypeOK
  <1>5. IsFiniteSet(regs)
    <2> HIDE DEF f, regs
    <2> QED BY <1>3, <1>4, ImageIsFinite
  <1> QED BY <1>1, <1>2, <1>5

\* A turn of the loop that frees the daemons of a job, and of the one that selects
\* those that run it.
FreesAll == \E d \in Splayd : FreeAll(d)
Selects == \E d \in Splayd : SelectSplayd(d)

LEMMA JobdInsertsType ==
  ASSUME TablesTypeOK, JobdTypeOK,
         InsertRegisters \/ FreeOthers \/ SendAllList \/ SendStart \/ FreesAll
  PROVE  TablesTypeOK' /\ JobdTypeOK'
  <1>1. JobdTypeOK' /\ jjob \in Job
    <2>1. CASE FreesAll
      BY <2>1, TurnType DEF FreesAll, FreeAll, Step
    <2>2. CASE ~FreesAll
      BY <2>2, StatementType DEF InsertRegisters, FreeOthers, SendAllList, SendStart, Step
    <2> QED BY <2>1, <2>2
  <1> DEFINE regs == {[splayd |-> d, job |-> jjob, seq |-> 0] : d \in jset}
  <1>2. /\ Selected(jjob) \in SUBSET selections
        /\ SelectionsOf(jjob) \in SUBSET selections
        /\ SelectionsOf(jjob) \ Selected(jjob) \in SUBSET selections
        /\ \A d : {s \in SelectionsOf(jjob) : s.splayd = d} \in SUBSET selections
    BY DEF Selected, SelectionsOf
  <1>3. actions' \in SUBSET Action /\ IsFiniteSet(actions') /\ nextAction' \in [Splayd -> Nat]
    <2>1. CASE InsertRegisters
      <3>1. InsertActions(regs, "REGISTER", "TEMP")
        BY <2>1 DEF InsertRegisters
      <3>2. IsFiniteSet(regs) /\ \A s \in regs : s.splayd \in Splayd /\ s.job \in Job
        BY <1>1, SelsType
      <3>3. "REGISTER" \in Command /\ "TEMP" \in ActionStatus
        BY DEF Command, ActionStatus
      <3> HIDE DEF regs
      <3> QED BY <3>1, <3>2, <3>3, InsertActionsType
    <2>2. CASE ~InsertRegisters
      <3>1. PICK sels \in SUBSET selections, c \in Command, st \in ActionStatus :
              InsertActions(sels, c, st)
        BY <1>2, <2>2 DEF FreeOthers, SendAllList, SendStart, FreesAll, FreeAll, Command,
           ActionStatus
      <3>2. IsFiniteSet(sels) /\ \A s \in sels : s.splayd \in Splayd /\ s.job \in Job
        BY <1>1, SelsType
      <3> QED BY <3>1, <3>2, InsertActionsType
    <2> QED BY <2>1, <2>2
  <1>4. UNCHANGED <<splayds, splayd_jobs, selections, jobs>>
    BY DEF InsertRegisters, FreeOthers, SendAllList, SendStart, FreesAll, FreeAll
  <1> QED BY <1>1, <1>3, <1>4 DEF TablesTypeOK

LEMMA JobdStepType ==
  ASSUME TablesTypeOK, JobdTypeOK, JobdStep
  PROVE  TablesTypeOK' /\ JobdTypeOK'
  <1>1. CASE NextPhase
    BY <1>1, PhaseType DEF NextPhase, tables, TablesTypeOK
  <1>2. ASSUME NEW j \in Job, StatusLocal(j) \/ StatusQueued(j)
        PROVE  TablesTypeOK' /\ JobdTypeOK'
    BY <1>2, SelectType DEF StatusLocal, StatusQueued
  <1>3. ASSUME NEW j \in Job, StatusRegistering(j) PROVE TablesTypeOK' /\ JobdTypeOK'
    BY <1>3, StatusRegisteringType
  <1>4. ASSUME NEW j \in Job, KeepRegistering(j) PROVE TablesTypeOK' /\ JobdTypeOK'
    BY <1>4, PhaseType DEF KeepRegistering, tables, TablesTypeOK
  <1>5. ASSUME NEW j \in Job, RegisterTimeout(j) PROVE TablesTypeOK' /\ JobdTypeOK'
    <2>1. /\ "unregister" \in Step \ {"next"} /\ "forget" \in Step \ {"next"}
          /\ AskedDaemons(j) \in SUBSET Splayd
      BY DEF Step, AskedDaemons, SelectionsOf, TablesTypeOK, Selection
    <2>2. JobdTypeOK'
      BY <1>5, <2>1, PhaseType DEF RegisterTimeout
    <2>3. actions' \in SUBSET actions
      BY <1>5 DEF RegisterTimeout
    <2>4. actions' \in SUBSET Action /\ IsFiniteSet(actions')
      BY <2>3, CountType DEF TablesTypeOK
    <2> QED BY <1>5, <2>2, <2>4 DEF RegisterTimeout, TablesTypeOK
  <1>6. ASSUME NEW j \in Job, StatusRunning(j) PROVE TablesTypeOK' /\ JobdTypeOK'
    <2>1. JobdTypeOK'
      BY <1>6, PhaseType DEF StatusRunning
    <2>2. "ENDED" \in JobStatus
      BY DEF JobStatus
    <2>3. SetJobStatus(j, "ENDED") \/ UNCHANGED jobs
      BY <1>6 DEF StatusRunning
    <2>4. jobs' \in [Job -> [status : JobStatus, command : BOOLEAN]]
      BY <2>2, <2>3, SetJobStatusType DEF TablesTypeOK
    <2> QED BY <1>6, <2>1, <2>4 DEF StatusRunning, TablesTypeOK
  <1>7. ASSUME NEW j \in Job, KillMaxTime(j) PROVE TablesTypeOK' /\ JobdTypeOK'
    <2>1. JobdTypeOK'
      BY <1>7, PhaseType DEF KillMaxTime
    <2>2. jobs' \in [Job -> [status : JobStatus, command : BOOLEAN]]
      BY <1>7, KilledType, SetJobStatusType DEF KillMaxTime
    <2> QED BY <1>7, <2>1, <2>2 DEF KillMaxTime, TablesTypeOK
  <1>8. ASSUME NEW j \in Job, ExecuteKill(j) PROVE TablesTypeOK' /\ JobdTypeOK'
    <2>1. JobdTypeOK'
      BY <1>8, PhaseType DEF ExecuteKill
    <2>2. jobs' \in [Job -> [status : JobStatus, command : BOOLEAN]]
      BY <1>8, KilledType DEF ExecuteKill, TablesTypeOK
    <2> QED BY <1>8, <2>1, <2>2 DEF ExecuteKill, TablesTypeOK
  <1>9. CASE InsertSelections
    BY <1>9, InsertSelectionsType
  <1>10. CASE InsertSplaydJobs
    BY <1>10, InsertSplaydJobsType
  <1>11. CASE InsertRegisters \/ FreeOthers \/ SendAllList \/ SendStart \/ FreesAll
    BY <1>11, JobdInsertsType
  <1>12. CASE CommitRegisters \/ CommitList
    <2>1. JobdTypeOK'
      BY <1>12, StatementType DEF CommitRegisters, CommitList, Step
    <2>2. actions' \in SUBSET Action /\ IsFiniteSet(actions')
      BY <1>12, SetActionStatusType
         DEF CommitRegisters, CommitList, CommitActions, TablesTypeOK, ActionStatus
    <2> QED BY <1>12, <2>1, <2>2 DEF CommitRegisters, CommitList, TablesTypeOK
  <1>13. CASE SetRegistering \/ SetRunning \/ SetRegisterTimeout
    <2>1. JobdTypeOK' /\ jjob \in Job
      BY <1>13, StatementType DEF SetRegistering, SetRunning, SetRegisterTimeout, Step
    <2>2. jobs' \in [Job -> [status : JobStatus, command : BOOLEAN]]
      BY <1>13, <2>1, SetJobStatusType
         DEF SetRegistering, SetRunning, SetRegisterTimeout, JobStatus
    <2> QED BY <1>13, <2>1, <2>2
         DEF SetRegistering, SetRunning, SetRegisterTimeout, TablesTypeOK
  <1>14. CASE DeleteSelections
    <2>1. JobdTypeOK'
      BY <1>14, StatementType DEF DeleteSelections, Step
    <2>2. selections' \in SUBSET selections
      BY <1>14 DEF DeleteSelections
    <2>3. selections' \in SUBSET Selection /\ IsFiniteSet(selections')
      BY <2>2, CountType DEF TablesTypeOK
    <2> QED BY <1>14, <2>1, <2>3 DEF DeleteSelections, TablesTypeOK
  <1>15. CASE Selects
    BY <1>15, SelectSplaydType DEF Selects
  <1> QED BY <1>1, <1>2, <1>3, <1>4, <1>5, <1>6, <1>7, <1>8, <1>9, <1>10, <1>11, <1>12,
             <1>13, <1>14, <1>15 DEF JobdStep, FreesAll, Selects

---------------------------------------------------------------------------
(* The system *)

LEMMA EventsType ==
  ASSUME TypeOK, NoEvent \/ Fault
  PROVE  EventsTypeOK'
  BY BoundsAssumption DEF TypeOK, EventsTypeOK, NoEvent, Fault

LEMMA DaemonActsType ==
  ASSUME TypeOK, NEW d \in Splayd,
         \/ DaemonCommand(d) \/ BusyPorts(d) \/ DaemonConnects(d)
         \/ DaemonGivesUp(d) \/ DaemonFails(d) \/ UnseenReset(d)
  PROVE  TypeOK'
  <1> USE DEF TypeOK
  <1>1. EventsTypeOK'
    <2>1. CASE UnseenReset(d)
      BY <2>1 DEF UnseenReset, EventsTypeOK, UnseenState
    <2> QED BY <2>1, EventsType
        DEF DaemonCommand, BusyPorts, DaemonConnects, DaemonGivesUp, DaemonFails
  <1>2. ASSUME UNCHANGED <<tables, threadVars, jobdVars>>
        PROVE  TablesTypeOK' /\ ThreadTypeOK' /\ JobdTypeOK'
    BY <1>2 DEF tables, threadVars, jobdVars, TablesTypeOK, ThreadTypeOK, JobdTypeOK
  <1>3. CASE DaemonCommand(d)
    BY <1>1, <1>2, <1>3, ExecuteType DEF DaemonCommand
  <1>4. CASE BusyPorts(d)
    BY <1>1, <1>2, <1>4, RegisterType DEF BusyPorts
  <1>5. CASE DaemonConnects(d)
    <2>1. TablesTypeOK' /\ DaemonTypeOK' /\ ThreadTypeOK'
      BY <1>5, ConnectType DEF DaemonConnects
    <2>2. JobdTypeOK'
      BY <1>5 DEF DaemonConnects, jobdVars, JobdTypeOK
    <2> QED BY <1>1, <2>1, <2>2
  <1>6. CASE DaemonGivesUp(d) \/ DaemonFails(d)
    BY <1>1, <1>2, <1>6, DaemonEndsType DEF DaemonGivesUp, DaemonFails
  <1>7. CASE UnseenReset(d)
    <2>1. TablesTypeOK'
      BY <1>7, ResetType DEF UnseenReset
    <2>2. DaemonTypeOK' /\ ThreadTypeOK' /\ JobdTypeOK'
      BY <1>7 DEF UnseenReset, daemonVars, threadVars, jobdVars, DaemonTypeOK, ThreadTypeOK,
         JobdTypeOK
    <2> QED BY <1>1, <2>1, <2>2
  <1> QED BY <1>3, <1>4, <1>5, <1>6, <1>7

LEMMA ConnActsType ==
  ASSUME TypeOK, NEW k \in Conn, LinkFails(k) \/ ThreadRuns(k) \/ SocketCollected(k)
  PROVE  TypeOK'
  <1>1. EventsTypeOK'
    BY EventsType DEF LinkFails, ThreadRuns, SocketCollected
  <1>2. JobdTypeOK'
    BY DEF TypeOK, LinkFails, ThreadRuns, SocketCollected, jobdVars, JobdTypeOK
  <1>3. TablesTypeOK' /\ DaemonTypeOK' /\ ThreadTypeOK'
    <2>1. CASE ThreadRuns(k)
      BY <2>1, ThreadStepType DEF ThreadRuns
    <2>2. CASE LinkFails(k) \/ SocketCollected(k)
      <3>1. DaemonTypeOK'
        BY <2>2 DEF LinkFails, SocketCollected, CollectSocket, TypeOK, DaemonTypeOK
      <3>2. TablesTypeOK' /\ ThreadTypeOK'
        BY <2>2 DEF LinkFails, SocketCollected, CollectSocket, TypeOK, tables, threadVars,
           TablesTypeOK, ThreadTypeOK
      <3> QED BY <3>1, <3>2
    <2> QED BY <2>1, <2>2
  <1> QED BY <1>1, <1>2, <1>3 DEF TypeOK

LEMMA UserActsType ==
  ASSUME TypeOK, NEW j \in Job, UserActs(j)
  PROVE  TypeOK'
  <1>1. EventsTypeOK'
    BY EventsType DEF UserActs
  <1>2. jobs' \in [Job -> [status : JobStatus, command : BOOLEAN]]
    <2>1. CASE Submit(j)
      <3>1. "LOCAL" \in JobStatus
        BY DEF JobStatus
      <3> QED BY <2>1, <3>1, SetJobStatusType DEF Submit, TypeOK
    <2>2. CASE KillJob(j)
      <3> HIDE DEF JobStatus
      <3> QED BY <2>2 DEF KillJob, TypeOK, TablesTypeOK
    <2> QED BY <2>1, <2>2 DEF UserActs
  <1>3. TablesTypeOK'
    BY <1>2 DEF UserActs, Submit, KillJob, TypeOK, TablesTypeOK
  <1>4. DaemonTypeOK' /\ ThreadTypeOK' /\ JobdTypeOK'
    BY DEF UserActs, TypeOK, daemonVars, threadVars, jobdVars, DaemonTypeOK, ThreadTypeOK,
       JobdTypeOK
  <1> QED BY <1>1, <1>3, <1>4 DEF TypeOK

\* Splayd.reset_actions
LEMMA ResetActionsType ==
  ASSUME actions \in SUBSET Action, IsFiniteSet(actions)
  PROVE  ResetActions \in SUBSET Action /\ IsFiniteSet(ResetActions)
  <1> DEFINE kept == {b \in actions : b.status # "TEMP"}
             f == [a \in kept |->
                     IF a.status = "SENDING" THEN [a EXCEPT !.status = "FAILURE"] ELSE a]
  <1>1. ResetActions \in SUBSET Action
    BY DEF ResetActions, Action, ActionStatus
  <1>2. kept \in SUBSET actions
    OBVIOUS
  <1>3. IsFiniteSet(kept)
    <2> HIDE DEF kept
    <2> QED BY <1>2, CountType
  <1>4. f \in [kept -> ResetActions] /\ \A r \in ResetActions : \E x \in kept : f[x] = r
    BY DEF ResetActions
  <1>5. IsFiniteSet(ResetActions)
    <2> HIDE DEF f, kept
    <2> QED BY <1>3, <1>4, ImageIsFinite
  <1> QED BY <1>1, <1>5

LEMMA ControllerRestartsType ==
  ASSUME TypeOK, ControllerRestarts
  PROVE  TypeOK'
  <1> USE DEF TypeOK, ControllerRestarts
  <1>1. EventsTypeOK'
    BY BoundsAssumption DEF EventsTypeOK, AllSeen, UnseenState
  <1>2. TablesTypeOK'
    <2>1. splayds' \in [Splayd -> [status : SplaydStatus, session : Nat]]
      BY DEF SplaydInit, TablesTypeOK, SplaydStatus
    <2>2. actions' \in SUBSET Action /\ IsFiniteSet(actions')
      BY ResetActionsType DEF SplaydInit, TablesTypeOK
    <2> QED BY <2>1, <2>2 DEF TablesTypeOK
  <1>3. DaemonTypeOK'
    BY DEF DaemonTypeOK
  <1>4. ThreadTypeOK'
    BY DEF ThreadTypeOK, Pc, Holding
  <1>5. JobdTypeOK'
    BY DEF JobdTypeOK, Phase, Step
  <1> QED BY <1>1, <1>2, <1>3, <1>4, <1>5

\* TypeOK is inductive.
LEMMA NextType == TypeOK /\ [Next]_vars => TypeOK'
  <1> SUFFICES ASSUME TypeOK, [Next]_vars PROVE TypeOK'
    OBVIOUS
  <1>1. CASE UNCHANGED vars
    BY <1>1 DEF vars, tables, daemonVars, threadVars, jobdVars, TypeOK, TablesTypeOK,
       DaemonTypeOK, ThreadTypeOK, JobdTypeOK, EventsTypeOK
  <1>2. CASE JobdRuns
    <2>1. TablesTypeOK' /\ JobdTypeOK'
      BY <1>2, JobdStepType DEF JobdRuns, TypeOK
    <2>2. DaemonTypeOK' /\ ThreadTypeOK'
      BY <1>2 DEF JobdRuns, TypeOK, daemonVars, threadVars, DaemonTypeOK, ThreadTypeOK
    <2>3. EventsTypeOK'
      BY <1>2, EventsType DEF JobdRuns
    <2> QED BY <2>1, <2>2, <2>3 DEF TypeOK
  <1>3. CASE UnseenSelect
    BY <1>3 DEF UnseenSelect, TypeOK, tables, daemonVars, threadVars, jobdVars, TablesTypeOK,
       DaemonTypeOK, ThreadTypeOK, JobdTypeOK, EventsTypeOK, UnseenState
  <1> QED BY <1>1, <1>2, <1>3, DaemonActsType, ConnActsType, UserActsType, ControllerRestartsType
       DEF Next

\* Every row of the tables, every message, every thread and the scheduler always
\* have the type the modules say: whatever fails and whenever the controller stops.
THEOREM TypeCorrect == Spec => []TypeOK
  BY InitType, NextType, PTL DEF Spec

---------------------------------------------------------------------------
(* Commands.  The two invariants are inductive on top of TypeOK: no statement *)
(* gives a row one of these two statuses but the one that also moves the      *)
(* thread or the scheduler.                                                   *)

\* The statuses that somebody answers for.
Held == {"TEMP", "SENDING"}

\* No row is given status st.
NoNew(st) == \A a \in actions' : a.status = st => a \in actions

---------------------------------------------------------------------------
(* The operations on the table *)

LEMMA SetActionStatusNoNew ==
  ASSUME actions \in SUBSET Action, NEW rows, NEW to \in ActionStatus, NEW st, st # to,
         actions' = SetActionStatus(rows, to)
  PROVE  NoNew(st)
  BY DEF NoNew, SetActionStatus, Action

LEMMA InsertNoNew ==
  ASSUME NEW sels, NEW c, NEW to, NEW st, st # to, InsertActions(sels, c, to)
  PROVE  NoNew(st)
  <1> DEFINE at(s) == nextAction[s.splayd]
                        + Cardinality({t \in sels : t.splayd = s.splayd /\ t.seq < s.seq})
             row(s) == Row(at(s), s.splayd, s.job, c, "json", to)
  <1>1. actions' = actions \cup {row(s) : s \in sels}
    BY DEF InsertActions
  <1>2. \A s : row(s).status = to
    <2> HIDE DEF at
    <2> QED BY DEF Row
  <1> HIDE DEF row
  <1> QED BY <1>1, <1>2 DEF NoNew

\* What the statements of the scheduler insert.
LEMMA JobdNoNew ==
  ASSUME TypeOK, JobdStep
  PROVE  /\ NoNew("SENDING")
         /\ InsertRegisters \/ SendAllList \/ NoNew("TEMP")
  <1>1. actions \in SUBSET Action
    BY DEF TypeOK, TablesTypeOK
  <1>2. CASE InsertRegisters
    BY <1>2, InsertNoNew DEF InsertRegisters
  <1>3. CASE SendAllList
    BY <1>3, InsertNoNew DEF SendAllList
  <1>4. CASE FreeOthers \/ SendStart \/ FreesAll
    BY <1>4, InsertNoNew DEF FreeOthers, SendStart, FreesAll, FreeAll
  <1>5. CASE CommitRegisters \/ CommitList
    <2>1. "WAITING" \in ActionStatus
      BY DEF ActionStatus
    <2> QED BY <1>1, <1>5, <2>1, SetActionStatusNoNew
         DEF CommitRegisters, CommitList, CommitActions
  <1>6. CASE actions' \in SUBSET actions
    BY <1>6 DEF NoNew
  <1>7. actions' \in SUBSET actions \/ InsertRegisters \/ SendAllList
          \/ FreeOthers \/ SendStart \/ FreesAll \/ CommitRegisters \/ CommitList
    BY DEF JobdStep, FreesAll, NextPhase, StatusLocal, StatusQueued, SelectSplayds,
       StatusRegistering, SelectSplayd, KeepRegistering, RegisterTimeout, StatusRunning,
       KillMaxTime, ExecuteKill, InsertSelections, InsertSplaydJobs, SetRegistering,
       SetRunning, DeleteSelections, SetRegisterTimeout, tables
  <1> QED BY <1>2, <1>3, <1>4, <1>5, <1>6, <1>7

\* A step of a thread gives no row the status TEMP, and SENDING only in SendAction.
LEMMA ThreadNoNew ==
  ASSUME TypeOK, NEW k \in Conn, ThreadStep(k)
  PROVE  NoNew("TEMP") /\ (SendAction(k) \/ NoNew("SENDING"))
  <1> DEFINE d == SplaydOf(k)
  <1>1. d \in Splayd /\ actions \in SUBSET Action
    BY SplaydOfType DEF TypeOK, TablesTypeOK
  <1>2. CASE RestoreAction(k)
    <2>1. PICK rows : actions' = SetActionStatus(rows, "WAITING")
      BY <1>2 DEF RestoreAction
    <2>2. "WAITING" \in ActionStatus
      BY DEF ActionStatus
    <2> QED BY <1>1, <2>1, <2>2, SetActionStatusNoNew
  <1>3. CASE MainFails(k) \/ ReplyNotOK(k)
    <2>1. actions' = SetActionStatus(ActionsOf(d, "SENDING"), "FAILURE")
      BY <1>3 DEF MainFails, ReplyNotOK, EndMain, ActionFailure
    <2>2. "FAILURE" \in ActionStatus
      BY DEF ActionStatus
    <2> QED BY <1>1, <2>1, <2>2, SetActionStatusNoNew
  <1>4. CASE SendAction(k)
    <2>1. PICK rows : actions' = SetActionStatus(rows, "SENDING")
      BY <1>4 DEF SendAction, MarkSending
    <2>2. "SENDING" \in ActionStatus
      BY DEF ActionStatus
    <2> QED BY <1>1, <1>4, <2>1, <2>2, SetActionStatusNoNew
  <1>5. CASE ReadRow(k) \/ Authenticate(k) \/ AskInfos(k) \/ InfosOK(k) \/ Available(k)
             \/ ReadFailed(k) \/ DeleteRegister(k) \/ AuthFails(k) \/ PickAction(k)
             \/ ApplyReply(k) \/ FinishAction(k)
    <2>1. actions' \in SUBSET actions
      BY <1>5 DEF ReadRow, Authenticate, ResetSession, AskInfos, ResetJobs, InfosOK, Available,
         ReadFailed, DeleteRegister, AuthFails, PickAction, ApplyReply, FinishAction,
         RemoveAction, tables
    <2> QED BY <2>1 DEF NoNew
  <1>6. CASE FreeFirst(k) \/ RegisterAgain(k)
    BY <1>6 DEF FreeFirst, RegisterAgain, AddAction, Row, NoNew
  <1> QED BY <1>2, <1>3, <1>4, <1>5, <1>6 DEF ThreadStep

\* Nor does any other step.
LEMMA OtherNoNew ==
  ASSUME TypeOK, [Next]_vars, ~JobdRuns, \A k \in Conn : ~ThreadRuns(k)
  PROVE  \/ NoNew("TEMP") /\ NoNew("SENDING") /\ UNCHANGED jobdVars
         \/ ControllerRestarts
  BY DEF Next, vars, DaemonCommand, BusyPorts, DaemonConnects, Connect, DaemonGivesUp,
     DaemonFails, UnseenReset, UnseenSelect, ResetSession, ResetJobs, LinkFails,
     SocketCollected, CollectSocket, UserActs, Submit, KillJob, tables, NoNew

\* When the controller starts, nothing is being sent or completed.
LEMMA RestartHolds ==
  ASSUME TypeOK, ControllerRestarts
  PROVE  \A a \in actions' : a.status \notin Held
  BY DEF TypeOK, TablesTypeOK, ControllerRestarts, SplaydInit, ResetActions, Action, Held

---------------------------------------------------------------------------
(* TEMP *)

NoTemp == \A a \in actions : a.status # "TEMP"

\* The statements of the scheduler, one of which completes the rows.
LEMMA JobdTemp ==
  ASSUME TypeOK, TempHasWriter, JobdStep
  PROVE  TempHasWriter'
  <1>1. actions \in SUBSET Action
    BY DEF TypeOK, TablesTypeOK
  <1>2. jstep \notin {"commit", "list_data"} => NoTemp
    BY DEF TempHasWriter, NoTemp
  <1>3. CASE InsertRegisters
    <2> DEFINE regs == {[splayd |-> d, job |-> jjob, seq |-> 0] : d \in jset}
               at(s) == nextAction[s.splayd]
                          + Cardinality({t \in regs : t.splayd = s.splayd /\ t.seq < s.seq})
               row(s) == Row(at(s), s.splayd, s.job, "REGISTER", "json", "TEMP")
    <2>1. actions' = actions \cup {row(s) : s \in regs}
      BY <1>3 DEF InsertRegisters, InsertActions
    <2>2. \A s \in regs : row(s).job = jjob /\ row(s).cmd = "REGISTER"
      <3>1. \A s \in regs : s.job = jjob
        OBVIOUS
      <3> HIDE DEF at, regs
      <3> QED BY <3>1 DEF Row
    <2>3. jstep = "registers" /\ jstep' = "commit" /\ jjob' = jjob
      BY <1>3 DEF InsertRegisters, Statement
    <2>4. NoTemp
      BY <1>2, <2>3
    <2> HIDE DEF row, regs
    <2> QED BY <2>1, <2>2, <2>3, <2>4 DEF TempHasWriter, NoTemp
  <1>4. CASE SendAllList
    <2> DEFINE sels == Selected(jjob)
               st == IF ListType = "HEAD" THEN "TEMP" ELSE "WAITING"
               at(s) == nextAction[s.splayd]
                          + Cardinality({t \in sels : t.splayd = s.splayd /\ t.seq < s.seq})
               row(s) == Row(at(s), s.splayd, s.job, "LIST", "json", st)
    <2>1. actions' = actions \cup {row(s) : s \in sels}
      BY <1>4 DEF SendAllList, InsertActions
    <2>2. \A s \in sels : row(s).job = jjob /\ row(s).cmd = "LIST" /\ row(s).status = st
      <3>1. \A s \in sels : s.job = jjob
        BY DEF Selected, SelectionsOf
      <3> HIDE DEF at, sels, st
      <3> QED BY <3>1 DEF Row
    <2>3. /\ jstep = "list" /\ jjob' = jjob
          /\ jstep' = IF ListType = "HEAD" THEN "list_data" ELSE "running"
      BY <1>4 DEF SendAllList, Statement
    <2>4. NoTemp
      BY <1>2, <2>3
    <2> HIDE DEF row, sels
    <2> QED BY <2>1, <2>2, <2>3, <2>4 DEF TempHasWriter, NoTemp
  <1>5. CASE CommitRegisters \/ CommitList
    <2>1. PICK c \in Command : /\ actions' = CommitActions(jjob, c)
                               /\ \A a \in actions : a.status = "TEMP" => a.cmd = c
      BY <1>5 DEF CommitRegisters, CommitList, Statement, TempHasWriter, Command
    <2>2. \A a \in actions : a.status = "TEMP" => a.job = jjob
      BY DEF TempHasWriter
    <2>3. NoTemp'
      BY <1>1, <2>1, <2>2 DEF CommitActions, SetActionStatus, NoTemp, Action
    <2> QED BY <2>3 DEF NoTemp, TempHasWriter
  <1>6. CASE ~InsertRegisters /\ ~SendAllList /\ ~CommitRegisters /\ ~CommitList
    <2>1. NoNew("TEMP")
      BY <1>6, JobdNoNew
    <2>2. jstep \notin {"commit", "list_data"} \/ UNCHANGED <<jjob, jstep>>
      BY <1>6 DEF JobdStep, FreesAll, NextPhase, StatusLocal, StatusQueued, SelectSplayds,
         StatusRegistering, SelectSplayd, KeepRegistering, RegisterTimeout, StatusRunning,
         KillMaxTime, ExecuteKill, InsertSelections, InsertSplaydJobs, SetRegistering,
         FreeOthers, SetRunning, SendStart, FreeAll, DeleteSelections, SetRegisterTimeout,
         Statement, Turn, LastStatement, Takes
    <2> QED BY <1>2, <2>1, <2>2 DEF NoNew, NoTemp, TempHasWriter
  <1> QED BY <1>3, <1>4, <1>5, <1>6

LEMMA TempInductive == TypeOK /\ TempHasWriter /\ [Next]_vars => TempHasWriter'
  <1> SUFFICES ASSUME TypeOK, TempHasWriter, [Next]_vars PROVE TempHasWriter'
    OBVIOUS
  <1>1. CASE JobdRuns
    BY <1>1, JobdTemp DEF JobdRuns
  <1>2. CASE NoNew("TEMP") /\ UNCHANGED jobdVars
    BY <1>2 DEF NoNew, jobdVars, TempHasWriter
  <1>3. CASE \E k \in Conn : ThreadRuns(k)
    BY <1>2, <1>3, ThreadNoNew DEF ThreadRuns
  <1>4. CASE ControllerRestarts
    BY <1>4, RestartHolds DEF Held, TempHasWriter
  <1> QED BY <1>1, <1>2, <1>3, <1>4, OtherNoNew

\* A command inserted without its data is always about to be completed by the
\* scheduler, whatever the threads do to the table meanwhile and wherever the
\* controller stops: next_action never skips one for ever.
THEOREM TempCompleted == Spec => []TempHasWriter
  <1>1. Init => TempHasWriter
    BY DEF Init, TablesInit, TempHasWriter
  <1> QED BY <1>1, TypeCorrect, TempInductive, PTL DEF Spec

---------------------------------------------------------------------------
(* SENDING *)

\* A step that gives no row the status SENDING and leaves alone the threads that
\* answer for one.
LEMMA SendersStay ==
  ASSUME SendingHasSender, NoNew("SENDING"),
         \A k \in Conn : tpc[k] \in {"wait", "applied"} =>
            tpc'[k] \in {"wait", "applied"} /\ taction'[k] = taction[k]
  PROVE  SendingHasSender'
  BY DEF SendingHasSender, NoNew, SplaydOf

LEMMA ThreadSending ==
  ASSUME TypeOK, SendingHasSender, NEW k \in Conn, ThreadStep(k)
  PROVE  SendingHasSender'
  <1> DEFINE d == SplaydOf(k)
             sends == {"wait", "applied"}
  <1>1. /\ actions \in SUBSET Action
        /\ tpc \in [Conn -> Pc] /\ taction \in [Conn -> Action \cup {NoAction}]
    BY DEF TypeOK, TablesTypeOK, ThreadTypeOK
  <1>2. CASE ReadRow(k) \/ Authenticate(k) \/ AskInfos(k) \/ InfosOK(k) \/ Available(k)
             \/ ReadFailed(k) \/ RestoreAction(k) \/ DeleteRegister(k) \/ FreeFirst(k)
             \/ RegisterAgain(k) \/ AuthFails(k) \/ PickAction(k) \/ ApplyReply(k)
    <2>1. NoNew("SENDING")
      BY <1>2, ThreadNoNew DEF ReadRow, Authenticate, AskInfos, InfosOK, Available, ReadFailed,
         RestoreAction, DeleteRegister, FreeFirst, RegisterAgain, AuthFails, PickAction,
         ApplyReply, SendAction, At
    <2>2. \A c \in Conn : tpc[c] \in sends => tpc'[c] \in sends /\ taction'[c] = taction[c]
      BY <1>1, <1>2 DEF ReadRow, Authenticate, AskInfos, InfosOK, Available, ReadFailed,
         RestoreAction, DeleteRegister, FreeFirst, RegisterAgain, GoesOnWith, AuthFails,
         PickAction, ApplyReply, At, Goto
    <2> QED BY <2>1, <2>2, SendersStay
  <1>3. CASE MainFails(k) \/ ReplyNotOK(k)
    <2>1. /\ actions' = SetActionStatus(ActionsOf(d, "SENDING"), "FAILURE")
          /\ taction' = [taction EXCEPT ![k] = NoAction] /\ Goto(k, "dead")
      BY <1>3 DEF MainFails, ReplyNotOK, EndMain, ActionFailure
    <2>2. \A a \in actions' : a.status = "SENDING" => a \in actions /\ a.splayd # d
      BY <1>1, <2>1 DEF SetActionStatus, ActionsOf, Action
    <2>3. \A c \in Conn : c # k => tpc'[c] = tpc[c] /\ taction'[c] = taction[c]
      BY <1>1, <2>1 DEF Goto
    <2> QED BY <2>2, <2>3 DEF SendingHasSender, SplaydOf
  <1>4. CASE SendAction(k)
    <2>1. /\ tpc[k] = "picked" /\ Goto(k, "wait") /\ taction' = taction
          /\ actions' = SetActionStatus({a \in actions : a.splayd = d /\ a.id = taction[k].id},
                                        "SENDING")
      BY <1>4 DEF SendAction, At, MarkSending
    <2>2. \A a \in actions' : a.status = "SENDING" =>
             \/ a \in actions
             \/ a.splayd = d /\ a.id = taction[k].id
      BY <1>1, <2>1 DEF SetActionStatus, Action
    <2>3. /\ tpc'[k] = "wait"
          /\ \A c \in Conn : c # k => tpc'[c] = tpc[c]
      BY <1>1, <2>1 DEF Goto
    <2> QED BY <2>1, <2>2, <2>3 DEF SendingHasSender, SplaydOf
  <1>5. CASE FinishAction(k)
    <2>1. /\ taction' = [taction EXCEPT ![k] = NoAction] /\ Goto(k, "main")
          /\ actions' = {a \in actions : ~(a.splayd = d /\ a.id = taction[k].id)}
      BY <1>5 DEF FinishAction, RemoveAction
    <2>2. \A c \in Conn : c # k => tpc'[c] = tpc[c] /\ taction'[c] = taction[c]
      BY <1>1, <2>1 DEF Goto
    <2> QED BY <2>1, <2>2 DEF SendingHasSender, SplaydOf
  <1> QED BY <1>2, <1>3, <1>4, <1>5 DEF ThreadStep

\* Only threads and the controller's end move a thread that is sending.
LEMMA OtherSending ==
  ASSUME TypeOK, SendingHasSender, [Next]_vars, \A k \in Conn : ~ThreadRuns(k),
         ~ControllerRestarts
  PROVE  SendingHasSender'
  <1>1. NoNew("SENDING")
    BY JobdNoNew, OtherNoNew DEF JobdRuns
  <1>2. CASE UNCHANGED <<tpc, taction>>
    BY <1>1, <1>2, SendersStay
  <1>3. ASSUME NEW d \in Splayd, DaemonConnects(d)
        PROVE  SendingHasSender'
    <2>1. PICK n \in 1 .. MaxConn : Connect(d, n)
      BY <1>3 DEF DaemonConnects
    <2>2. tpc[<<d, n>>] = "none" /\ tpc' = [tpc EXCEPT ![<<d, n>>] = "hello"]
          /\ taction' = taction
      BY <2>1 DEF Connect, At, Goto
    <2>3. tpc \in [Conn -> Pc]
      BY DEF TypeOK, ThreadTypeOK
    <2> QED BY <1>1, <2>2, <2>3, SendersStay
  <1>4. UNCHANGED <<tpc, taction>> \/ \E d \in Splayd : DaemonConnects(d)
    BY DEF Next, vars, DaemonCommand, BusyPorts, DaemonGivesUp, DaemonFails, UnseenReset,
       UnseenSelect, LinkFails, SocketCollected, CollectSocket, JobdRuns, UserActs, threadVars
  <1> QED BY <1>2, <1>3, <1>4

LEMMA SendingInductive == TypeOK /\ SendingHasSender /\ [Next]_vars => SendingHasSender'
  <1> SUFFICES ASSUME TypeOK, SendingHasSender, [Next]_vars PROVE SendingHasSender'
    OBVIOUS
  <1>1. CASE \E k \in Conn : ThreadRuns(k)
    BY <1>1, ThreadSending DEF ThreadRuns
  <1>2. CASE ControllerRestarts
    BY <1>2, RestartHolds DEF Held, SendingHasSender
  <1> QED BY <1>1, <1>2, OtherSending

\* A command marked SENDING always has a live thread of its daemon that will
\* remove it or mark it FAILURE: no command is lost between a thread that dies, a
\* controller that stops, and the threads of a daemon that connected again.
THEOREM SendingAnswered == Spec => []SendingHasSender
  <1>1. Init => SendingHasSender
    BY DEF Init, TablesInit, SendingHasSender
  <1> QED BY <1>1, TypeCorrect, SendingInductive, PTL DEF Spec

---------------------------------------------------------------------------
(* Slots.  The scheduler counts the rows of a daemon in one statement and      *)
(* inserts in another, with the threads of all daemons at the table between.  *)

\* NoOverbooking is not inductive: between the count and the INSERT the chosen
\* daemons must keep a free slot.
SlotsKept ==
  /\ NoOverbooking
  /\ jstep \in {"selections", "splayd_jobs"} => \A d \in jset : NbNodes(d) < MaxNumber

RowsOf(d) == {r \in splayd_jobs : r.splayd = d}

\* No daemon has more rows than before.
NoMoreRows == \A d \in Splayd : NbNodes(d)' <= NbNodes(d)

LEMMA RowsType ==
  ASSUME TypeOK, NEW d
  PROVE  IsFiniteSet(RowsOf(d)) /\ NbNodes(d) \in Nat /\ NbNodes(d) = Cardinality(RowsOf(d))
  <1>1. RowsOf(d) \in SUBSET splayd_jobs
    BY DEF RowsOf
  <1> QED BY <1>1, CountType DEF RowsOf, NbNodes, TypeOK, TablesTypeOK

---------------------------------------------------------------------------
(* Everything but the INSERT *)

LEMMA FewerRows ==
  ASSUME TypeOK, splayd_jobs' \in SUBSET splayd_jobs
  PROVE  NoMoreRows
  <1> SUFFICES ASSUME NEW d \in Splayd PROVE NbNodes(d)' <= NbNodes(d)
    BY DEF NoMoreRows
  <1>1. RowsOf(d)' \in SUBSET RowsOf(d)
    BY DEF RowsOf
  <1>2. NbNodes(d)' = Cardinality(RowsOf(d)')
    BY DEF NbNodes, RowsOf
  <1> QED BY <1>1, <1>2, RowsType, FS_Subset

LEMMA UpdatedRows ==
  ASSUME TypeOK, NEW rows, NEW st, splayd_jobs' = SetSplaydJobStatus(rows, st)
  PROVE  NoMoreRows
  <1> SUFFICES ASSUME NEW d \in Splayd PROVE NbNodes(d)' <= NbNodes(d)
    BY DEF NoMoreRows
  <1> DEFINE f == [r \in RowsOf(d) |-> IF r \in rows THEN [r EXCEPT !.status = st] ELSE r]
  <1>1. splayd_jobs \in SUBSET SplaydJob
    BY DEF TypeOK, TablesTypeOK
  <1>2. \A r \in splayd_jobs : [r EXCEPT !.status = st].splayd = r.splayd
    BY <1>1 DEF SplaydJob
  <1>3. RowsOf(d)' = {IF r \in rows THEN [r EXCEPT !.status = st] ELSE r : r \in RowsOf(d)}
    BY <1>2 DEF RowsOf, SetSplaydJobStatus
  <1>4. f \in Surjection(RowsOf(d), RowsOf(d)')
    BY <1>3 DEF Surjection
  <1>5. Cardinality(RowsOf(d)') <= Cardinality(RowsOf(d))
    <2> HIDE DEF f
    <2> QED BY <1>4, RowsType, FS_Surjection
  <1>6. NbNodes(d)' = Cardinality(RowsOf(d)')
    BY DEF NbNodes, RowsOf
  <1> QED BY <1>5, <1>6, RowsType

LEMMA ThreadRows ==
  ASSUME TypeOK, NEW k \in Conn, ThreadStep(k)
  PROVE  NoMoreRows
  <1>1. \/ splayd_jobs' \in SUBSET splayd_jobs
        \/ \E rows, st : splayd_jobs' = SetSplaydJobStatus(rows, st)
    <2>1. CASE ApplyReply(k)
      BY <2>1 DEF ApplyReply, SJRegister, SJStart, SJFree
    <2>2. CASE ~ApplyReply(k)
      BY <2>2 DEF ThreadStep, ReadRow, Authenticate, ResetSession, AskInfos, ResetJobs, InfosOK,
         Available, ReadFailed, RestoreAction, DeleteRegister, FreeFirst, RegisterAgain,
         AuthFails, MainFails, PickAction, SendAction, ReplyNotOK, FinishAction, tables
    <2> QED BY <2>1, <2>2
  <1> QED BY <1>1, FewerRows, UpdatedRows

\* Steps of the others: the scheduler does not move.
LEMMA OtherRows ==
  ASSUME TypeOK, [Next]_vars, ~JobdRuns, ~ControllerRestarts
  PROVE  NoMoreRows /\ UNCHANGED jobdVars
  <1>1. CASE \E k \in Conn : ThreadRuns(k)
    BY <1>1, ThreadRows DEF ThreadRuns
  <1>2. CASE \A k \in Conn : ~ThreadRuns(k)
    <2>1. splayd_jobs' \in SUBSET splayd_jobs /\ UNCHANGED jobdVars
      BY <1>2 DEF Next, vars, DaemonCommand, BusyPorts, DaemonConnects, Connect,
         DaemonGivesUp, DaemonFails, UnseenReset, UnseenSelect, ResetSession, ResetJobs, LinkFails,
         SocketCollected, CollectSocket, UserActs, Submit, KillJob, tables
    <2> QED BY <2>1, FewerRows
  <1> QED BY <1>1, <1>2

---------------------------------------------------------------------------
(* The scheduler *)

LEMMA JobdSlots ==
  ASSUME TypeOK, SlotsKept, JobdStep
  PROVE  SlotsKept'
  <1>n. \A d \in Splayd : NbNodes(d) \in Nat /\ NbNodes(d) <= MaxNumber
    BY RowsType DEF SlotsKept, NoOverbooking
  <1>1. CASE InsertSplaydJobs
    <2> DEFINE row(d) == [splayd |-> d, job |-> jjob,
                          seq |-> Cardinality(SplaydJobsOf(d, jjob)), status |-> "RESERVED"]
    <2>1. splayd_jobs' = splayd_jobs \cup {row(d) : d \in jset}
      BY <1>1 DEF InsertSplaydJobs
    <2>2. jstep = "splayd_jobs" /\ jstep' = "registers"
      BY <1>1 DEF InsertSplaydJobs, Statement
    <2>3. ASSUME NEW d \in Splayd PROVE NbNodes(d)' <= MaxNumber
      <3>1. NbNodes(d)' = Cardinality(RowsOf(d)')
        BY DEF NbNodes, RowsOf
      <3>2. \A e : row(e).splayd = e
        OBVIOUS
      <3>3. CASE d \in jset
        <4>1. RowsOf(d)' = RowsOf(d) \cup {row(d)}
          <5> HIDE DEF row
          <5> QED BY <2>1, <3>2, <3>3 DEF RowsOf
        <4>2. Cardinality(RowsOf(d)') <= NbNodes(d) + 1
          <5> HIDE DEF row
          <5> QED BY <4>1, <1>n, RowsType, FS_AddElement
        <4>3. NbNodes(d) < MaxNumber
          BY <2>2, <3>3 DEF SlotsKept
        <4>4. Cardinality(RowsOf(d)') \in Nat
          <5> HIDE DEF row
          <5> QED BY <4>1, RowsType, FS_AddElement, FS_CardinalityType
        <4> QED BY <1>n, <3>1, <4>2, <4>3, <4>4, MaxNumberAssumption
      <3>4. CASE d \notin jset
        <4>1. RowsOf(d)' = RowsOf(d)
          <5> HIDE DEF row
          <5> QED BY <2>1, <3>2, <3>4 DEF RowsOf
        <4> QED BY <1>n, <3>1, <4>1, RowsType
      <3> QED BY <3>3, <3>4
    <2> QED BY <2>2, <2>3 DEF SlotsKept, NoOverbooking
  <1>2. CASE ~InsertSplaydJobs
    <2>1. splayd_jobs' = splayd_jobs
      BY <1>2 DEF JobdStep, FreesAll, NextPhase, StatusLocal, StatusQueued, SelectSplayds,
         StatusRegistering, SelectSplayd, KeepRegistering, RegisterTimeout, StatusRunning,
         KillMaxTime, ExecuteKill, InsertSelections, InsertRegisters, CommitRegisters,
         SetRegistering, FreeOthers, SendAllList, CommitList, SetRunning, SendStart,
         FreeAll, DeleteSelections, SetRegisterTimeout, tables
    <2>2. \A d : NbNodes(d)' = NbNodes(d)
      BY <2>1 DEF NbNodes
    <2>3. \/ jstep' \notin {"selections", "splayd_jobs"}
          \/ jstep \in {"selections", "splayd_jobs"} /\ jset' = jset
          \/ jset' \in Chosen
      <3>1. CASE \E j \in Job : StatusLocal(j) \/ StatusQueued(j)
        BY <3>1 DEF StatusLocal, StatusQueued, SelectSplayds, Takes, Done, GoesOn
      <3>2. CASE ~\E j \in Job : StatusLocal(j) \/ StatusQueued(j)
        BY <1>2, <3>2 DEF JobdStep, FreesAll, NextPhase, StatusRegistering, SelectSplayd,
           KeepRegistering, RegisterTimeout, StatusRunning, KillMaxTime, ExecuteKill,
           InsertSelections, InsertRegisters, CommitRegisters, SetRegistering, FreeOthers,
           SendAllList, CommitList, SetRunning, SendStart, FreeAll, DeleteSelections,
           SetRegisterTimeout, Statement, Turn, LastStatement, Takes, Done, GoesOn
      <3> QED BY <3>1, <3>2
    <2>4. \A ds \in Chosen : \A d \in ds : NbNodes(d) < MaxNumber
      BY DEF Chosen, Occupation
    <2> QED BY <2>2, <2>3, <2>4 DEF SlotsKept, NoOverbooking
  <1> QED BY <1>1, <1>2

LEMMA SlotsInductive == TypeOK /\ SlotsKept /\ [Next]_vars => SlotsKept'
  <1> SUFFICES ASSUME TypeOK, SlotsKept, [Next]_vars PROVE SlotsKept'
    OBVIOUS
  <1>1. CASE JobdRuns
    BY <1>1, JobdSlots DEF JobdRuns
  <1>2. CASE ~JobdRuns /\ ~ControllerRestarts
    <2>1. NoMoreRows /\ UNCHANGED jobdVars
      BY <1>2, OtherRows
    <2>2. TypeOK'
      BY NextType
    <2>3. \A d \in Splayd : NbNodes(d)' \in Nat /\ NbNodes(d) \in Nat
      <3>2. \A d \in Splayd : NbNodes(d) \in Nat
        BY RowsType
      <3>3. \A d \in Splayd : NbNodes(d)' \in Nat
        <4> SUFFICES ASSUME NEW d \in Splayd PROVE NbNodes(d)' \in Nat
          OBVIOUS
        <4>1. RowsOf(d)' \in SUBSET splayd_jobs' /\ NbNodes(d)' = Cardinality(RowsOf(d)')
          BY DEF RowsOf, NbNodes
        <4> QED BY <2>2, <4>1, CountType DEF TypeOK, TablesTypeOK
      <3> QED BY <3>2, <3>3
    <2>4. jset \in SUBSET Splayd
      BY DEF TypeOK, JobdTypeOK
    <2> QED BY <2>1, <2>3, <2>4, MaxNumberAssumption
         DEF NoMoreRows, jobdVars, SlotsKept, NoOverbooking
  <1>3. CASE ControllerRestarts
    BY <1>3 DEF ControllerRestarts, SlotsKept, NoOverbooking, NbNodes
  <1> QED BY <1>1, <1>2, <1>3

\* However the threads and the scheduler interleave, and wherever the controller
\* stops, no daemon has more rows in splayd_jobs than slots.
THEOREM SlotsRespected == Spec => []NoOverbooking
  <1>1. Init => SlotsKept
    <2> SUFFICES ASSUME Init PROVE SlotsKept
      OBVIOUS
    <2>1. \A d : NbNodes(d) = 0
      <3>1. \A d : {r \in splayd_jobs : r.splayd = d} = {}
        BY DEF Init, TablesInit
      <3> QED BY <3>1, FS_EmptySet DEF NbNodes
    <2> QED BY <2>1, MaxNumberAssumption DEF Init, JobdInit, SlotsKept, NoOverbooking
  <1>2. SlotsKept => NoOverbooking
    BY DEF SlotsKept
  <1> QED BY <1>1, <1>2, TypeCorrect, SlotsInductive, PTL DEF Spec

=============================================================================
