---------------------------- MODULE RecordsProofs ----------------------------
(* Theorems about Records, for any containers and runs, any files of seeds, *)
(* any runners and outputs, and any writers of backups.                     *)
EXTENDS Records, Induction, SequenceTheorems, FiniteSetTheorems, TLAPS

----------------------------------------------------------------------------
(* Renovate runs: the inductive invariant.                                 *)

Over(c) == box[c].phase \in {"exited", "gone"}

\* An event is of a container that is over, and an exit has its code.
Told(ev) == Over(ev.c) /\ (ev.action = "die" => ev.code = box[ev.c].code)

\* The n first events of the stream have the exit of container c.
Announced(c, n) == \E i \in 1..n : stream[i].c = c /\ stream[i].action = "die"

\* Every goroutine of Execute works on a run of its own, whose container is not
\* recorded yet.
Recording(e) == exec[e].pc \in {"spawn", "record"}

ExecInv ==
  /\ \A e \in Execs : exec[e].pc # "idle" => exec[e].pool \in Pools
  /\ \A e \in Execs :
       Recording(e) => exec[e].run \in DOMAIN rows /\ rows[exec[e].run].cid = None
  /\ \A e, f \in Execs : Recording(e) /\ Recording(f) /\ exec[e].run = exec[f].run => e = f

\* A destroy event is the first that is handled of a container only if its exit
\* was missed.
EventInv ==
  /\ \A i \in 1..Len(stream) : Told(stream[i])
  /\ \A i \in 1..Len(stream) :
       stream[i].action = "destroy" =>
         stream[i].c \in missed \cup reaped \/ Announced(stream[i].c, i - 1)
  /\ \A c \in Containers :
       box[c].phase = "exited" => c \in missed \cup reaped \/ Announced(c, Len(stream))
  /\ handling # None =>
       Told(handling) /\ (handling.action = "destroy" => handling.c \in missed)

OutcomeInv ==
  \A i \in DOMAIN rows :
    rows[i].status = "success" =>
      /\ rows[i].cid \in Containers /\ Over(rows[i].cid)
      /\ rows[i].cid \in missed \/ box[rows[i].cid].code = 0

RunInv == RenovateTypeOK /\ ExecInv /\ EventInv /\ OutcomeInv
----------------------------------------------------------------------------
(* Renovate runs: the steps.                                               *)

\* What is over stays over, with its code.
BoxKept ==
  \A c \in Containers : Over(c) => box'[c].phase \in {"exited", "gone"}
                                   /\ box'[c].code = box[c].code

\* Outcomes stay true when no row changes: containers that are over stay so.
LEMMA OutcomesKept ==
  ASSUME RunInv, UNCHANGED rows, BoxKept, missed \subseteq missed' PROVE OutcomeInv'
  BY DEF RunInv, OutcomeInv, BoxKept, Over

\* An execution under way knows its row still.
LEMMA ExecsKept ==
  ASSUME RunInv, UNCHANGED <<rows, exec>> PROVE ExecInv'
  BY DEF RunInv, ExecInv, Recording

\* Events are of containers.
LEMMA EventsOf ==
  ASSUME RunInv
  PROVE  /\ Len(stream) \in Nat
         /\ \A i \in 1..Len(stream) : stream[i] \in EventType /\ stream[i].c \in Containers
         /\ handling # None => handling \in EventType /\ handling.c \in Containers
<1>1. stream \in Seq(EventType) /\ handling \in EventType \cup {None}
  BY DEF RunInv, RenovateTypeOK
<1>2. Len(stream) \in Nat /\ \A i \in 1..Len(stream) : stream[i] \in EventType
  BY <1>1, LenProperties, ElementOfSeq
<1>3. \A ev \in EventType : ev.c \in Containers  BY DEF EventType
<1> QED  BY <1>1, <1>2, <1>3

\* The same of the state after a step, for an event and a stream of before it.
ToldThen(ev) == /\ box'[ev.c].phase \in {"exited", "gone"}
                /\ ev.action = "die" => ev.code = box'[ev.c].code

AnnouncedThen(c, n) == \E i \in 1..n : stream'[i].c = c /\ stream'[i].action = "die"

\* What an event says of its container stays true.
LEMMA ToldKept ==
  ASSUME RunInv, BoxKept
  PROVE  /\ \A i \in 1..Len(stream) : ToldThen(stream[i])
         /\ handling # None => ToldThen(handling)
  BY EventsOf DEF RunInv, EventInv, Told, ToldThen, BoxKept, Over

\* The invariant after a step.
LEMMA EventsThen ==
  ASSUME \A i \in 1..Len(stream') : ToldThen(stream'[i]),
         \A i \in 1..Len(stream') :
           stream'[i].action = "destroy" =>
             stream'[i].c \in missed' \cup reaped' \/ AnnouncedThen(stream'[i].c, i - 1),
         \A c \in Containers :
           box'[c].phase = "exited" =>
             c \in missed' \cup reaped' \/ AnnouncedThen(c, Len(stream')),
         handling' # None =>
           ToldThen(handling') /\ (handling'.action = "destroy" => handling'.c \in missed')
  PROVE  EventInv'
  BY DEF EventInv, Told, ToldThen, Announced, AnnouncedThen, Over

\* The stream, if it does not change.
LEMMA StreamStays ==
  ASSUME RunInv, UNCHANGED <<stream, handling>>, BoxKept, missed \subseteq missed',
         reaped \subseteq reaped',
         \A c \in Containers : box'[c].phase = "exited" => box[c].phase = "exited"
  PROVE  EventInv'
<1>1. EventInv  BY DEF RunInv
<1>2. \A c, n : AnnouncedThen(c, n) <=> Announced(c, n)  BY DEF Announced, AnnouncedThen
<1> QED  BY <1>1, <1>2, ToldKept, EventsThen DEF EventInv

\* What a step may tell of container c, which becomes b: exits with their code,
\* and a destroy event only after an exit.
Fits(evs, c, b) ==
  /\ \A i \in 1..Len(evs) :
       /\ evs[i].c = c
       /\ evs[i].action = "die" => evs[i].code = b.code
       /\ evs[i].action = "destroy" =>
            box[c].phase = "exited" \/ \E j \in 1..(i - 1) : evs[j].action = "die"
  /\ b.phase = "exited" => \E i \in 1..Len(evs) : evs[i].action = "die"

\* A container that ends sends its events in order, or they are missed.
LEMMA EmitKeeps ==
  ASSUME RunInv, NEW c \in Containers, NEW b \in BoxType, NEW evs \in Seq(EventType),
         NEW dropped \in SUBSET Containers,
         box' = [box EXCEPT ![c] = b], b.phase \in {"exited", "gone"},
         Over(c) => b.code = box[c].code, Fits(evs, c, b), Emit(c, evs, dropped),
         UNCHANGED reaped, handling' \in {handling, None}
  PROVE  EventInv' /\ BoxKept /\ missed \subseteq missed' /\ missed' \subseteq Containers
         /\ stream' \in Seq(EventType) /\ box' \in [Containers -> BoxType]
<1>1. stream \in Seq(EventType) /\ box \in [Containers -> BoxType] /\ missed \subseteq Containers
  BY DEF RunInv, RenovateTypeOK
<1>2. box' \in [Containers -> BoxType] /\ box'[c] = b /\ \A d \in Containers : d # c => box'[d] = box[d]
  BY <1>1
<1>3. BoxKept  BY <1>2 DEF BoxKept, Over
<1>4. missed \subseteq missed' /\ missed' \subseteq Containers  BY <1>1 DEF Emit
<1>5. stream' \in Seq(EventType)  BY <1>1, ConcatProperties DEF Emit
<1>6. /\ Len(stream) \in Nat /\ Len(evs) \in Nat
      /\ \A i \in 1..Len(stream) : stream[i] \in EventType /\ stream[i].c \in Containers
  BY EventsOf, LenProperties
<1>7. EventInv  BY DEF RunInv
<1>8. \A i \in 1..Len(stream) : ToldThen(stream[i])  BY <1>3, ToldKept
<1>9. handling' # None => ToldThen(handling') /\ (handling'.action = "destroy" => handling'.c \in missed')
  <2> SUFFICES ASSUME handling' # None
      PROVE  ToldThen(handling') /\ (handling'.action = "destroy" => handling'.c \in missed')  OBVIOUS
  <2>1. handling' = handling /\ handling # None /\ handling.c \in Containers  BY EventsOf
  <2>2. Told(handling) /\ (handling.action = "destroy" => handling.c \in missed)
    BY <2>1, <1>7 DEF EventInv
  <2>3. ToldThen(handling)
    BY <2>1, <1>3, ToldKept
  <2> QED  BY <2>1, <2>2, <2>3, <1>4
<1>10. CASE connected
  <2>1. stream' = stream \o evs  BY <1>10 DEF Emit
  <2>2. Len(stream') = Len(stream) + Len(evs)  BY <2>1, <1>1, ConcatProperties
  <2>3. \A i \in 1..Len(stream) : stream'[i] = stream[i]  BY <2>1, <1>1, <1>6, ConcatProperties
  <2>4. \A i \in 1..Len(evs) : stream'[Len(stream) + i] = evs[i]
    BY <2>1, <1>1, <1>6, ConcatProperties
  <2>5. \A i \in 1..Len(stream') :
          \/ i \in 1..Len(stream) /\ stream'[i] = stream[i]
          \/ /\ i > Len(stream) /\ i - Len(stream) \in 1..Len(evs)
             /\ stream'[i] = evs[i - Len(stream)]
    <3> SUFFICES ASSUME NEW i \in 1..Len(stream'), i > Len(stream)
        PROVE  i - Len(stream) \in 1..Len(evs) /\ stream'[i] = evs[i - Len(stream)]
      BY <2>2, <2>3, <1>6
    <3>1. i - Len(stream) \in 1..Len(evs) /\ i = Len(stream) + (i - Len(stream))
      BY <2>2, <1>6
    <3> QED  BY <3>1, <2>4
  <2>6. \A d \in Containers, n \in 0..Len(stream), m \in Nat :
          Announced(d, n) /\ n <= m => AnnouncedThen(d, m)
    BY <2>3, <1>6 DEF Announced, AnnouncedThen
  <2>7. \A n \in 0..Len(evs) : (\E j \in 1..n : evs[j].action = "die")
                                => AnnouncedThen(c, Len(stream) + n)
    <3> SUFFICES ASSUME NEW n \in 0..Len(evs), NEW j \in 1..n, evs[j].action = "die"
        PROVE  AnnouncedThen(c, Len(stream) + n)  OBVIOUS
    <3>1. j \in 1..Len(evs) /\ Len(stream) + j \in 1..(Len(stream) + n)  BY <1>6
    <3>2. stream'[Len(stream) + j] = evs[j] /\ evs[j].c = c  BY <2>4, <3>1 DEF Fits
    <3> QED  BY <3>1, <3>2, <2>2, <1>6 DEF AnnouncedThen
  <2>8. \A i \in 1..Len(stream') : ToldThen(stream'[i])
    <3> SUFFICES ASSUME NEW i \in 1..Len(stream') PROVE ToldThen(stream'[i])  OBVIOUS
    <3>1. CASE i \in 1..Len(stream) /\ stream'[i] = stream[i]
      BY <3>1, <1>8 DEF ToldThen, Over
    <3>2. CASE i > Len(stream) /\ i - Len(stream) \in 1..Len(evs)
               /\ stream'[i] = evs[i - Len(stream)]
      <4>1. stream'[i].c = c /\ (stream'[i].action = "die" => stream'[i].code = b.code)
        BY <3>2 DEF Fits
      <4> QED  BY <4>1, <1>2 DEF ToldThen, Over
    <3> QED  BY <3>1, <3>2, <2>5
  <2>9. \A i \in 1..Len(stream') :
          stream'[i].action = "destroy" =>
            stream'[i].c \in missed' \cup reaped' \/ AnnouncedThen(stream'[i].c, i - 1)
    <3> SUFFICES ASSUME NEW i \in 1..Len(stream'), stream'[i].action = "destroy"
        PROVE  stream'[i].c \in missed' \cup reaped' \/ AnnouncedThen(stream'[i].c, i - 1)
      OBVIOUS
    <3>1. CASE i \in 1..Len(stream) /\ stream'[i] = stream[i]
      <4>1. i - 1 \in 0..Len(stream) /\ i - 1 \in Nat  BY <3>1, <1>6
      <4>2. stream[i].c \in missed \cup reaped \/ Announced(stream[i].c, i - 1)
        BY <3>1, <1>7 DEF EventInv
      <4> QED  BY <3>1, <4>1, <4>2, <2>6, <1>4, <1>6
    <3>2. CASE i > Len(stream) /\ i - Len(stream) \in 1..Len(evs)
               /\ stream'[i] = evs[i - Len(stream)]
      <4> DEFINE k == i - Len(stream)
      <4>1. stream'[i].c = c /\ (box[c].phase = "exited" \/ \E j \in 1..(k - 1) : evs[j].action = "die")
        BY <3>2 DEF Fits
      <4>2. CASE box[c].phase = "exited"
        <5>1. c \in missed \cup reaped \/ Announced(c, Len(stream))  BY <4>2, <1>7 DEF EventInv
        <5>2. i - 1 \in Nat /\ Len(stream) <= i - 1 /\ Len(stream) \in 0..Len(stream)  BY <3>2, <1>6
        <5> QED  BY <4>1, <5>1, <5>2, <2>6, <1>4
      <4>3. CASE \E j \in 1..(k - 1) : evs[j].action = "die"
        <5>1. k - 1 \in 0..Len(evs) /\ Len(stream) + (k - 1) = i - 1  BY <3>2, <1>6
        <5>2. AnnouncedThen(c, Len(stream) + (k - 1))  BY <4>3, <5>1, <2>7
        <5> QED  BY <4>1, <5>1, <5>2
      <4> QED  BY <4>1, <4>2, <4>3
    <3> QED  BY <3>1, <3>2, <2>5
  <2>10. \A d \in Containers :
           box'[d].phase = "exited" => d \in missed' \cup reaped' \/ AnnouncedThen(d, Len(stream'))
    <3> SUFFICES ASSUME NEW d \in Containers, box'[d].phase = "exited"
        PROVE  d \in missed' \cup reaped' \/ AnnouncedThen(d, Len(stream'))  OBVIOUS
    <3>1. CASE d = c
      <4>1. \E j \in 1..Len(evs) : evs[j].action = "die"  BY <3>1, <1>2 DEF Fits
      <4> QED  BY <4>1, <3>1, <2>2, <2>7, <1>6
    <3>2. CASE d # c
      <4>1. d \in missed \cup reaped \/ Announced(d, Len(stream))  BY <3>2, <1>2, <1>7 DEF EventInv
      <4>2. Len(stream) \in 0..Len(stream) /\ Len(stream') \in Nat /\ Len(stream) <= Len(stream')
        BY <2>2, <1>6
      <4> QED  BY <4>1, <4>2, <2>6, <1>4
    <3> QED  BY <3>1, <3>2
  <2> QED  BY <2>8, <2>9, <2>10, <1>2, <1>3, <1>4, <1>5, <1>9, EventsThen
<1>11. CASE ~connected
  <2>1. stream' = stream /\ (evs = <<>> \/ c \in missed')  BY <1>11 DEF Emit
  <2>2. \A d, n : AnnouncedThen(d, n) <=> Announced(d, n)  BY <2>1 DEF Announced, AnnouncedThen
  <2>3. box'[c].phase = "exited" => c \in missed'
    <3>1. Len(evs) = 0 => 1..Len(evs) = {}  OBVIOUS
    <3>2. evs = <<>> => Len(evs) = 0  OBVIOUS
    <3> QED  BY <3>1, <3>2, <2>1, <1>2 DEF Fits
  <2>4. \A d \in Containers :
          box'[d].phase = "exited" => d \in missed' \cup reaped' \/ AnnouncedThen(d, Len(stream'))
    BY <2>1, <2>2, <2>3, <1>2, <1>4, <1>7 DEF EventInv
  <2>5. \A i \in 1..Len(stream') : ToldThen(stream'[i])  BY <2>1, <1>8
  <2>6. \A i \in 1..Len(stream') :
          stream'[i].action = "destroy" =>
            stream'[i].c \in missed' \cup reaped' \/ AnnouncedThen(stream'[i].c, i - 1)
    BY <2>1, <2>2, <1>4, <1>7 DEF EventInv
  <2> QED  BY <2>4, <2>5, <2>6, <1>2, <1>3, <1>4, <1>5, <1>9, EventsThen
<1> QED  BY <1>10, <1>11

\* The goroutines of Execute that enter, go on to the creation of a run, or leave.
LEMMA ExecMoves ==
  ASSUME RunInv, NEW e \in Execs, NEW x \in ExecType, exec' = [exec EXCEPT ![e] = x],
         x.pc \in {"idle", "execute", "create"}, x.pc # "idle" => x.pool \in Pools,
         UNCHANGED <<rows, box, stream, connected, reaped, handling, missed>>
  PROVE  RunInv'
<1>1. RenovateTypeOK'  BY DEF RunInv, RenovateTypeOK
<1>2. EventInv' /\ OutcomeInv'  BY OutcomesKept, StreamStays DEF BoxKept, Over
<1>3. exec'[e] = x /\ \A f \in Execs : f # e => exec'[f] = exec[f]
  BY DEF RunInv, RenovateTypeOK
<1>4. ExecInv'  BY <1>3 DEF RunInv, ExecInv, Recording
<1> QED  BY <1>1, <1>2, <1>4 DEF RunInv

\* An executor that does nothing.
LEMMA QuietIs == Quiet \in ExecType /\ Quiet.pc = "idle"
  BY RenovateAssumption DEF Quiet, ExecType

\* One lemma per step of an execution: it begins, ...
LEMMA EntersKeep ==
  ASSUME RunInv, NEW e \in Execs, NEW p \in Pools, CronTask(e, p) \/ TriggerRenovateRun(e, p)
  PROVE  RunInv'
<1> DEFINE x == [Quiet EXCEPT !.pc = "execute", !.pool = p]
<1>1. x \in ExecType /\ x.pc = "execute" /\ x.pool = p
  <2>1. Quiet \in ExecType  BY QuietIs
  <2> QED  BY <2>1 DEF ExecType
<1>2. exec' = [exec EXCEPT ![e] = x]  BY DEF CronTask, TriggerRenovateRun, Enter
<1>3. UNCHANGED <<rows, box, stream, connected, reaped, handling, missed>>
  BY DEF CronTask, TriggerRenovateRun
<1> HIDE DEF x
<1> QED  BY <1>1, <1>2, <1>3, ExecMoves

\* ... gets its token, ...
LEMMA TokensKeep ==
  ASSUME RunInv, NEW e \in Execs, GetToken(e) PROVE RunInv'
<1>1. UNCHANGED <<rows, box, stream, connected, reaped, handling, missed>>  BY DEF GetToken
<1>2. exec \in [Execs -> ExecType] /\ exec[e] \in ExecType  BY DEF RunInv, RenovateTypeOK
<1>3. exec[e].pc = "execute" /\ exec[e].pool \in Pools  BY DEF GetToken, RunInv, ExecInv
<1>4. CASE Return(e)
  BY <1>4, <1>1, QuietIs, ExecMoves DEF Return
<1>5. CASE exec' = [exec EXCEPT ![e].pc = "create"]
  <2> DEFINE x == [exec[e] EXCEPT !.pc = "create"]
  <2>1. x \in ExecType /\ x.pc = "create" /\ x.pool \in Pools  BY <1>2, <1>3 DEF ExecType
  <2>2. exec' = [exec EXCEPT ![e] = x]  BY <1>5
  <2> HIDE DEF x
  <2> QED  BY <2>1, <2>2, <1>1, ExecMoves
<1> QED  BY <1>4, <1>5 DEF GetToken

\* ... makes its row, ...
LEMMA CreatesKeep ==
  ASSUME RunInv, NEW e \in Execs, CreateRenovateRun(e) PROVE RunInv'
<1>1. UNCHANGED <<box, stream, connected, reaped, handling, missed>>  BY DEF CreateRenovateRun
<1>2. exec \in [Execs -> ExecType] /\ exec[e] \in ExecType /\ rows \in Seq(RowType)
      /\ MaxRuns \in Nat
  BY RenovateAssumption DEF RunInv, RenovateTypeOK
<1>3. exec[e].pc = "create" /\ exec[e].pool \in Pools  BY DEF CreateRenovateRun, RunInv, ExecInv
<1>4. CASE UNCHANGED rows /\ Return(e)
  BY <1>4, <1>1, QuietIs, ExecMoves DEF Return
<1>5. CASE Len(rows) < MaxRuns /\ ~(UNCHANGED rows /\ Return(e))
  <2> DEFINE r == [pool |-> exec[e].pool, status |-> "running", cid |-> None]
             n == Len(rows) + 1
             x == [exec[e] EXCEPT !.pc = "spawn", !.run = n]
  <2>1. r \in RowType /\ r.status = "running" /\ r.cid = None  BY <1>3 DEF RowType
  <2>2. rows' = Append(rows, r) /\ exec' = [exec EXCEPT ![e] = x]
    BY <1>5 DEF CreateRenovateRun
  <2>3. Len(rows) \in Nat /\ n \in 0..MaxRuns  BY <1>2, <1>5, LenProperties
  <2>4. x \in ExecType /\ x.pc = "spawn" /\ x.run = n /\ x.pool \in Pools
    BY <1>2, <1>3, <2>3 DEF ExecType
  <2> HIDE DEF r, x
  <2>5. /\ rows' \in Seq(RowType) /\ Len(rows') = n /\ rows'[n] = r
        /\ \A i \in 1..Len(rows) : rows'[i] = rows[i]
    BY <1>2, <2>1, <2>2, AppendProperties
  <2>6. DOMAIN rows = 1..Len(rows) /\ DOMAIN rows' = 1..n  BY <1>2, <2>5, LenProperties
  <2>7. \A i \in DOMAIN rows' : i \in DOMAIN rows \/ i = n  BY <2>3, <2>6
  <2>8. exec'[e] = x /\ \A f \in Execs : f # e => exec'[f] = exec[f]  BY <1>2, <2>2
  <2>9. RenovateTypeOK'
    BY <1>1, <1>2, <2>2, <2>3, <2>4, <2>5 DEF RunInv, RenovateTypeOK
  <2>10. n \notin DOMAIN rows /\ n \in DOMAIN rows' /\ DOMAIN rows \subseteq DOMAIN rows'
    BY <2>3, <2>6
  <2>11. ExecInv'
    <3>1. \A f \in Execs : f # e /\ Recording(f)' =>
            /\ Recording(f) /\ exec'[f].run = exec[f].run /\ exec[f].run \in DOMAIN rows
            /\ rows[exec[f].run].cid = None
      BY <2>8 DEF RunInv, ExecInv, Recording
    <3>2. \A f \in Execs : exec'[f].pc # "idle" => exec'[f].pool \in Pools
      BY <2>4, <2>8 DEF RunInv, ExecInv
    <3>3. \A f \in Execs : Recording(f)' =>
            exec'[f].run \in DOMAIN rows' /\ rows'[exec'[f].run].cid = None
      BY <3>1, <2>1, <2>4, <2>5, <2>6, <2>8, <2>10
    <3>4. \A f, g \in Execs : Recording(f)' /\ Recording(g)' /\ exec'[f].run = exec'[g].run => f = g
      BY <3>1, <2>4, <2>8, <2>10 DEF RunInv, ExecInv
    <3> QED  BY <3>2, <3>3, <3>4 DEF ExecInv
  <2>12. OutcomeInv'
    BY <1>1, <2>1, <2>5, <2>6, <2>7 DEF RunInv, OutcomeInv, Over
  <2>13. EventInv'  BY <1>1, StreamStays DEF BoxKept, Over
  <2> QED  BY <2>9, <2>11, <2>12, <2>13 DEF RunInv
<1> QED  BY <1>4, <1>5 DEF CreateRenovateRun

\* A row that is rewritten in place.
LEMMA RowIs ==
  ASSUME RunInv, NEW i \in DOMAIN rows, NEW r \in RowType, rows' = [rows EXCEPT ![i] = r]
  PROVE  /\ rows' \in Seq(RowType) /\ Len(rows') = Len(rows) /\ DOMAIN rows' = DOMAIN rows
         /\ rows'[i] = r /\ \A j \in DOMAIN rows : j # i => rows'[j] = rows[j]
  BY ExceptSeq, LenProperties DEF RunInv, RenovateTypeOK

\* ... starts its container, ...
LEMMA SpawnsKeep ==
  ASSUME RunInv, NEW e \in Execs, SpawnTask(e) PROVE RunInv'
<1>1. UNCHANGED <<stream, connected, reaped, handling, missed>>  BY DEF SpawnTask
<1>2. /\ exec \in [Execs -> ExecType] /\ exec[e] \in ExecType
      /\ rows \in Seq(RowType) /\ box \in [Containers -> BoxType]
  BY DEF RunInv, RenovateTypeOK
<1>3. /\ exec[e].pc = "spawn" /\ exec[e].pool \in Pools /\ exec[e].run \in DOMAIN rows
      /\ rows[exec[e].run].cid = None
  BY DEF SpawnTask, RunInv, ExecInv, Recording
<1>4. ASSUME NEW c \in Containers, box[c].phase = "none", UNCHANGED rows,
             box' = [box EXCEPT ![c].phase = "running"],
             exec' = [exec EXCEPT ![e].pc = "record", ![e].cid = c]
      PROVE  RunInv'
  <2> DEFINE x == [exec[e] EXCEPT !.pc = "record", !.cid = c]
             b == [box[c] EXCEPT !.phase = "running"]
  <2>1. x \in ExecType /\ x.pc = "record" /\ x.run = exec[e].run /\ x.pool = exec[e].pool
    BY <1>2 DEF ExecType
  <2>2. b \in BoxType /\ b.phase = "running"
    <3>1. box[c] \in BoxType  BY <1>2
    <3> QED  BY <3>1 DEF BoxType
  <2>3. exec' = [exec EXCEPT ![e] = x] /\ box' = [box EXCEPT ![c] = b]  BY <1>4
  <2> HIDE DEF x, b
  <2>4. exec'[e] = x /\ \A f \in Execs : f # e => exec'[f] = exec[f]  BY <1>2, <2>3
  <2>5. box'[c] = b /\ \A d \in Containers : d # c => box'[d] = box[d]  BY <1>2, <2>3
  <2>6. BoxKept  BY <1>4, <2>5 DEF BoxKept, Over
  <2>7. RenovateTypeOK'
    BY <1>1, <1>4, <2>1, <2>2, <2>3 DEF RunInv, RenovateTypeOK
  <2>8. ExecInv'
    <3>1. \A f \in Execs :
            /\ Recording(f)' => Recording(f) /\ exec'[f].run = exec[f].run
            /\ exec'[f].pc # "idle" => exec[f].pc # "idle" /\ exec'[f].pool = exec[f].pool
      BY <1>3, <2>1, <2>4 DEF Recording
    <3>2. \A f \in Execs : exec'[f].pc # "idle" => exec'[f].pool \in Pools
      BY <3>1 DEF RunInv, ExecInv
    <3>3. \A f \in Execs : Recording(f)' =>
            exec'[f].run \in DOMAIN rows' /\ rows'[exec'[f].run].cid = None
      BY <1>4, <3>1 DEF RunInv, ExecInv
    <3>4. \A f, g \in Execs : Recording(f)' /\ Recording(g)' /\ exec'[f].run = exec'[g].run => f = g
      BY <3>1 DEF RunInv, ExecInv
    <3> QED  BY <3>2, <3>3, <3>4 DEF ExecInv
  <2>9. EventInv'
    <3>1. \A d \in Containers : box'[d].phase = "exited" => box[d].phase = "exited"
      BY <2>2, <2>5
    <3> QED  BY <1>1, <2>6, <3>1, StreamStays
  <2>10. OutcomeInv'  BY <1>1, <1>4, <2>6, OutcomesKept
  <2> QED  BY <2>7, <2>8, <2>9, <2>10 DEF RunInv
<1>5. ASSUME Complete(exec[e].run, "failure"), Return(e), UNCHANGED box PROVE RunInv'
  <2> DEFINE i == exec[e].run
             r == [rows[i] EXCEPT !.status = "failure"]
  <2>1. r \in RowType /\ r.status = "failure" /\ r.cid = rows[i].cid
    <3>1. rows[i] \in RowType  BY <1>2, <1>3, ElementOfSeq, LenProperties
    <3> QED  BY <3>1 DEF RowType
  <2>2. rows' = [rows EXCEPT ![i] = r]  BY <1>5 DEF Complete
  <2> HIDE DEF r
  <2>3. /\ rows' \in Seq(RowType) /\ Len(rows') = Len(rows) /\ DOMAIN rows' = DOMAIN rows
        /\ rows'[i] = r /\ \A j \in DOMAIN rows : j # i => rows'[j] = rows[j]
    BY <1>3, <2>1, <2>2, RowIs
  <2>4. exec' = [exec EXCEPT ![e] = Quiet]  BY <1>5 DEF Return
  <2>5. exec'[e] = Quiet /\ \A f \in Execs : f # e => exec'[f] = exec[f]  BY <1>2, <2>4
  <2>6. RenovateTypeOK'  BY <1>1, <1>5, <2>3, <2>4, QuietIs DEF RunInv, RenovateTypeOK
  <2>7. ExecInv'
    BY <2>1, <2>3, <2>5, QuietIs DEF RunInv, ExecInv, Recording
  <2>8. EventInv'  BY <1>1, <1>5, StreamStays DEF BoxKept, Over
  <2>9. OutcomeInv'  BY <1>1, <1>5, <2>1, <2>3 DEF RunInv, OutcomeInv, Over
  <2> QED  BY <2>6, <2>7, <2>8, <2>9 DEF RunInv
<1>6. ASSUME UNCHANGED rows, Return(e), UNCHANGED box PROVE RunInv'
  BY <1>1, <1>6, QuietIs, ExecMoves DEF Return
<1> QED  BY <1>4, <1>5, <1>6 DEF SpawnTask

\* ... and records it in the row.
LEMMA RecordsKeep ==
  ASSUME RunInv, NEW e \in Execs, RecordContainer(e) PROVE RunInv'
<1>1. UNCHANGED <<box, stream, connected, reaped, handling, missed>> /\ Return(e)
  BY DEF RecordContainer
<1>2. exec \in [Execs -> ExecType] /\ exec[e] \in ExecType /\ rows \in Seq(RowType)
  BY DEF RunInv, RenovateTypeOK
<1>3. exec[e].run \in DOMAIN rows /\ rows[exec[e].run].cid = None /\ Recording(e)
  BY DEF RecordContainer, RunInv, ExecInv, Recording
<1>4. CASE UNCHANGED rows
  BY <1>1, <1>4, QuietIs, ExecMoves DEF Return
<1>5. CASE rows' = [rows EXCEPT ![exec[e].run].cid = exec[e].cid]
  <2> DEFINE i == exec[e].run
             r == [rows[i] EXCEPT !.cid = exec[e].cid]
  <2>1. r \in RowType /\ r.status = rows[i].status
    <3>1. rows[i] \in RowType  BY <1>2, <1>3, ElementOfSeq, LenProperties
    <3>2. exec[e].cid \in Containers \cup {None}  BY <1>2 DEF ExecType
    <3> QED  BY <3>1, <3>2 DEF RowType
  <2>2. rows' = [rows EXCEPT ![i] = r]  BY <1>5
  <2> HIDE DEF r
  <2>3. /\ rows' \in Seq(RowType) /\ Len(rows') = Len(rows) /\ DOMAIN rows' = DOMAIN rows
        /\ rows'[i] = r /\ \A j \in DOMAIN rows : j # i => rows'[j] = rows[j]
    BY <1>3, <2>1, <2>2, RowIs
  <2>4. exec' = [exec EXCEPT ![e] = Quiet]  BY <1>1 DEF Return
  <2>5. exec'[e] = Quiet /\ \A f \in Execs : f # e => exec'[f] = exec[f]  BY <1>2, <2>4
  <2>6. RenovateTypeOK'  BY <1>1, <2>3, <2>4, QuietIs DEF RunInv, RenovateTypeOK
  <2>7. ExecInv'
    <3>1. \A f \in Execs : Recording(f)' => f # e /\ Recording(f) /\ exec'[f] = exec[f]
      BY <2>5, QuietIs DEF Recording
    <3>2. \A f \in Execs : Recording(f)' => exec[f].run # i /\ exec[f].run \in DOMAIN rows
      BY <3>1, <1>3 DEF RunInv, ExecInv
    <3> QED  BY <3>1, <3>2, <2>3, <2>5, QuietIs DEF RunInv, ExecInv
  <2>8. EventInv'  BY <1>1, StreamStays DEF BoxKept, Over
  <2>9. rows[i].status # "success"
    BY <1>3, RenovateAssumption DEF RunInv, OutcomeInv
  <2>10. OutcomeInv'  BY <1>1, <2>1, <2>3, <2>9 DEF RunInv, OutcomeInv, Over
  <2> QED  BY <2>6, <2>7, <2>8, <2>10 DEF RunInv
<1> QED  BY <1>4, <1>5 DEF RecordContainer

\* The rows and the goroutines are left alone, and c becomes b.
LEMMA TellsKeep ==
  ASSUME RunInv, NEW c \in Containers, NEW b \in BoxType, NEW evs \in Seq(EventType),
         NEW dropped \in SUBSET Containers,
         box' = [box EXCEPT ![c] = b], b.phase \in {"exited", "gone"},
         Over(c) => b.code = box[c].code, Fits(evs, c, b), Emit(c, evs, dropped),
         UNCHANGED <<exec, connected, reaped>>, handling' \in {handling, None}
  PROVE  UNCHANGED rows => RunInv'
<1>1. /\ EventInv' /\ BoxKept /\ missed \subseteq missed' /\ missed' \subseteq Containers
      /\ stream' \in Seq(EventType) /\ box' \in [Containers -> BoxType]
  BY EmitKeeps
<1>2. handling' \in EventType \cup {None}  BY DEF RunInv, RenovateTypeOK
<1> SUFFICES ASSUME UNCHANGED rows PROVE RunInv'  OBVIOUS
<1>3. RenovateTypeOK'  BY <1>1, <1>2 DEF RunInv, RenovateTypeOK
<1>4. ExecInv'  BY ExecsKept
<1>5. OutcomeInv'  BY <1>1, OutcomesKept
<1> QED  BY <1>1, <1>3, <1>4, <1>5 DEF RunInv

\* A container exits by itself.
LEMMA ExitsKeep ==
  ASSUME RunInv, NEW c \in Containers, NEW code \in 0..1, ContainerExits(c, code)
  PROVE  RunInv'
<1> DEFINE b == [phase |-> "exited", code |-> code]
           evs == <<Event(c, "die", code)>>
<1>1. b \in BoxType /\ b.phase = "exited" /\ b.code = code  BY DEF BoxType
<1>2. Event(c, "die", code) \in EventType  BY DEF Event, EventType
<1>3. /\ evs \in Seq(EventType) /\ Len(evs) = 1
      /\ \A i \in 1..Len(evs) : evs[i].c = c /\ evs[i].action = "die" /\ evs[i].code = code
  BY <1>2 DEF Event
<1>4. /\ box' = [box EXCEPT ![c] = b] /\ Emit(c, evs, {}) /\ ~Over(c)
      /\ UNCHANGED <<rows, exec, connected, reaped>> /\ handling' = handling
  BY DEF ContainerExits, Over
<1> HIDE DEF b, evs
<1>5. Fits(evs, c, b)  BY <1>1, <1>3 DEF Fits
<1>6. {} \in SUBSET Containers /\ handling' \in {handling, None}  BY <1>4
<1> QED  BY <1>1, <1>3, <1>4, <1>5, <1>6, TellsKeep

\* The container as TerminateRunner leaves it, and what it tells.
Ended(c) == [phase |-> "gone", code |-> IF box[c].phase = "running" THEN 1 ELSE box[c].code]

LastWords(c) ==
  CASE box[c].phase = "running" -> <<Event(c, "die", 1), Event(c, "destroy", 0)>>
    [] box[c].phase = "exited" -> <<Event(c, "destroy", 0)>>
    [] OTHER -> <<>>

\* The engine's last events of a container it removes fit what became of it.
LEMMA TerminateTells ==
  ASSUME RunInv, NEW c \in Containers
  PROVE  /\ Ended(c) \in BoxType /\ Ended(c).phase = "gone"
         /\ Over(c) => Ended(c).code = box[c].code
         /\ LastWords(c) \in Seq(EventType)
         /\ Fits(LastWords(c), c, Ended(c))
<1>1. box[c] \in BoxType  BY DEF RunInv, RenovateTypeOK
<1>2. /\ Ended(c) \in BoxType /\ Ended(c).phase = "gone"
      /\ Over(c) => Ended(c).code = box[c].code
      /\ box[c].phase = "running" => Ended(c).code = 1
  BY <1>1 DEF Ended, BoxType, Over
<1>3. /\ Event(c, "die", 1) \in EventType /\ Event(c, "destroy", 0) \in EventType
      /\ Event(c, "die", 1).c = c /\ Event(c, "die", 1).action = "die"
      /\ Event(c, "die", 1).code = 1
      /\ Event(c, "destroy", 0).c = c /\ Event(c, "destroy", 0).action = "destroy"
  BY DEF Event, EventType
<1>4. CASE box[c].phase = "running"
  <2> DEFINE evs == <<Event(c, "die", 1), Event(c, "destroy", 0)>>
  <2>1. LastWords(c) = evs  BY <1>4 DEF LastWords
  <2>2. /\ evs \in Seq(EventType) /\ Len(evs) = 2 /\ evs[1] = Event(c, "die", 1)
        /\ evs[2] = Event(c, "destroy", 0)
    BY <1>3
  <2> HIDE DEF evs
  <2>3. \A i \in 1..Len(evs) : i = 1 \/ i = 2  BY <2>2
  <2>4. 1 \in 1..(2 - 1)  OBVIOUS
  <2>5. Fits(evs, c, Ended(c))  BY <1>2, <1>3, <1>4, <2>2, <2>3, <2>4 DEF Fits
  <2> QED  BY <2>1, <2>2, <2>5, <1>2
<1>5. CASE box[c].phase = "exited"
  <2> DEFINE evs == <<Event(c, "destroy", 0)>>
  <2>1. LastWords(c) = evs  BY <1>5 DEF LastWords
  <2>2. evs \in Seq(EventType) /\ Len(evs) = 1 /\ evs[1] = Event(c, "destroy", 0)
    BY <1>3
  <2> HIDE DEF evs
  <2>3. \A i \in 1..Len(evs) : evs[i].c = c /\ evs[i].action = "destroy"  BY <1>3, <2>2
  <2>4. Fits(evs, c, Ended(c))  BY <1>2, <1>5, <2>3 DEF Fits
  <2> QED  BY <2>1, <2>2, <2>4, <1>2
<1>6. CASE box[c].phase \notin {"running", "exited"}
  <2>1. LastWords(c) = <<>>  BY <1>6 DEF LastWords
  <2>2. <<>> \in Seq(EventType) /\ 1..Len(<<>>) = {}  OBVIOUS
  <2>3. Fits(<<>>, c, Ended(c))  BY <1>2, <2>2 DEF Fits
  <2> QED  BY <2>1, <2>2, <2>3, <1>2
<1> QED  BY <1>4, <1>5, <1>6

\* A removal keeps what is known of events and containers.
LEMMA TerminateKeeps ==
  ASSUME RunInv, NEW c \in Containers, NEW dropped \in SUBSET Containers,
         TerminateRunner(c, dropped), UNCHANGED <<exec, connected, reaped>>,
         handling' \in {handling, None}
  PROVE  /\ EventInv' /\ BoxKept /\ missed \subseteq missed' /\ missed' \subseteq Containers
         /\ stream' \in Seq(EventType) /\ box' \in [Containers -> BoxType]
         /\ UNCHANGED rows => RunInv'
<1>1. box' = [box EXCEPT ![c] = Ended(c)] /\ Emit(c, LastWords(c), dropped)
  BY DEF TerminateRunner, Ended, LastWords
<1>2. /\ Ended(c) \in BoxType /\ Ended(c).phase \in {"exited", "gone"}
      /\ Over(c) => Ended(c).code = box[c].code
      /\ LastWords(c) \in Seq(EventType) /\ Fits(LastWords(c), c, Ended(c))
  BY TerminateTells
<1>3. UNCHANGED reaped  OBVIOUS
<1>4. UNCHANGED rows => RunInv'  BY <1>1, <1>2, TellsKeep
<1> QED  BY <1>1, <1>2, <1>3, <1>4, EmitKeeps

\* The audit reaps a container, perhaps before its event is handled.
LEMMA ReapsKeep ==
  ASSUME RunInv, NEW c \in Containers, AuditReaps(c) PROVE RunInv'
<1>1. /\ TerminateRunner(c, {}) /\ UNCHANGED <<rows, exec, connected, reaped>>
      /\ handling' \in {handling, None}
  BY DEF AuditReaps
<1>2. {} \in SUBSET Containers  OBVIOUS
<1> QED  BY <1>1, <1>2, TerminateKeeps

\* A broken stream loses events; their containers are noted as missed.
LEMMA BreaksKeep ==
  ASSUME RunInv, StreamBreaks PROVE RunInv'
<1>1. /\ stream' = <<>> /\ missed' = missed \cup {stream[i].c : i \in DOMAIN stream}
      /\ connected' = FALSE /\ UNCHANGED <<rows, box, exec, reaped, handling>>
  BY DEF StreamBreaks
<1>2. Len(stream) \in Nat /\ \A i \in 1..Len(stream) : stream[i].c \in Containers  BY EventsOf
<1>3. DOMAIN stream = 1..Len(stream)  BY LenProperties DEF RunInv, RenovateTypeOK
<1>4. missed' \subseteq Containers /\ missed \subseteq missed'
  BY <1>1, <1>2, <1>3 DEF RunInv, RenovateTypeOK
<1>5. RenovateTypeOK'
  <2>1. <<>> \in Seq(EventType)  BY EmptySeq
  <2> QED  BY <1>1, <1>4, <2>1 DEF RunInv, RenovateTypeOK
<1>6. BoxKept  BY <1>1 DEF BoxKept, Over
<1>7. EventInv'
  <2>1. EventInv  BY DEF RunInv
  <2>2. 1..Len(stream') = {}  BY <1>1
  <2>3. \A c : Announced(c, Len(stream)) => c \in missed'
    BY <1>1, <1>3 DEF Announced
  <2>4. \A c \in Containers : box'[c].phase = "exited" => c \in missed' \cup reaped'
    BY <2>1, <2>3, <1>1, <1>4 DEF EventInv
  <2>5. handling' # None =>
          ToldThen(handling') /\ (handling'.action = "destroy" => handling'.c \in missed')
    BY <2>1, <1>1, <1>4, <1>6, ToldKept DEF EventInv
  <2> QED  BY <2>2, <2>4, <2>5, EventsThen
<1> QED  BY <1>1, <1>4, <1>5, <1>6, <1>7, ExecsKept, OutcomesKept DEF RunInv

\* A new stream has the events that are still to come.
LEMMA ReconnectsKeep ==
  ASSUME RunInv, Reconnect PROVE RunInv'
<1>1. UNCHANGED <<rows, box, exec, stream, reaped, handling, missed>> /\ connected' = TRUE
  BY DEF Reconnect
<1>2. BoxKept  BY <1>1 DEF BoxKept, Over
<1>3. RenovateTypeOK'  BY <1>1 DEF RunInv, RenovateTypeOK
<1> QED  BY <1>1, <1>2, <1>3, ExecsKept, OutcomesKept, StreamStays DEF RunInv

\* The deduplicator lets the first event of a container pass.
LEMMA ReceivesKeep ==
  ASSUME RunInv, Receive PROVE RunInv'
<1> DEFINE ev == Head(stream)
<1>1. /\ stream # <<>> /\ stream' = Tail(stream) /\ reaped' = reaped \cup {ev.c}
      /\ handling' = (IF ev.c \notin reaped THEN ev ELSE None)
      /\ UNCHANGED <<rows, box, exec, connected, missed>>
  BY DEF Receive, ShouldReap
<1>2. stream \in Seq(EventType) /\ EventInv  BY DEF RunInv, RenovateTypeOK
<1>3. /\ stream' \in Seq(EventType) /\ Len(stream') = Len(stream) - 1 /\ ev = stream[1]
      /\ \A i \in 1..Len(stream') : stream'[i] = stream[i + 1]
  BY <1>1, <1>2, HeadTailProperties
<1>4. Len(stream) \in Nat /\ 1 \in 1..Len(stream) /\ ev \in EventType /\ ev.c \in Containers
  BY <1>1, <1>2, <1>3, EventsOf, EmptySeq
<1>5. BoxKept  BY <1>1 DEF BoxKept, Over
<1>6. \A i \in 1..Len(stream') : i + 1 \in 1..Len(stream) /\ stream'[i] = stream[i + 1]
  BY <1>3, <1>4
<1> HIDE DEF ev
<1>7. RenovateTypeOK'
  BY <1>1, <1>3, <1>4 DEF RunInv, RenovateTypeOK
<1>8. \A c, n : n \in Nat /\ Announced(c, n + 1) /\ n + 1 \in 1..Len(stream)
                => c \in reaped' \/ AnnouncedThen(c, n)
  <2> SUFFICES ASSUME NEW c, NEW n \in Nat, n + 1 \in 1..Len(stream), c \notin reaped',
                      NEW i \in 1..(n + 1), stream[i].c = c, stream[i].action = "die"
      PROVE  AnnouncedThen(c, n)
    BY DEF Announced
  <2>1. i # 1  BY <1>1, <1>3
  <2>2. i - 1 \in 1..n /\ i - 1 \in 1..Len(stream') /\ (i - 1) + 1 = i  BY <2>1, <1>3, <1>4
  <2>3. stream'[i - 1] = stream[i]  BY <2>2, <1>6
  <2> QED  BY <2>2, <2>3 DEF AnnouncedThen
<1>9. EventInv'
  <2>1. \A i \in 1..Len(stream') : ToldThen(stream'[i])  BY <1>5, <1>6, ToldKept
  <2>2. \A i \in 1..Len(stream') :
          stream'[i].action = "destroy" =>
            stream'[i].c \in missed' \cup reaped' \/ AnnouncedThen(stream'[i].c, i - 1)
    <3> SUFFICES ASSUME NEW i \in 1..Len(stream'), stream'[i].action = "destroy"
        PROVE  stream'[i].c \in missed' \cup reaped' \/ AnnouncedThen(stream'[i].c, i - 1)
      OBVIOUS
    <3>1. i + 1 \in 1..Len(stream) /\ stream'[i] = stream[i + 1]  BY <1>6
    <3>2. stream[i + 1].c \in missed \cup reaped \/ Announced(stream[i + 1].c, (i + 1) - 1)
      BY <3>1, <1>2 DEF EventInv
    <3>3. i - 1 \in Nat /\ (i - 1) + 1 = (i + 1) - 1 /\ (i - 1) + 1 \in 1..Len(stream)
      BY <1>3, <1>4
    <3> QED  BY <3>1, <3>2, <3>3, <1>1, <1>8
  <2>3. \A c \in Containers :
          box'[c].phase = "exited" =>
            c \in missed' \cup reaped' \/ AnnouncedThen(c, Len(stream'))
    <3>1. Len(stream') \in Nat /\ Len(stream') + 1 = Len(stream)
          /\ Len(stream') + 1 \in 1..Len(stream)
      BY <1>3, <1>4
    <3> QED  BY <3>1, <1>1, <1>2, <1>8 DEF EventInv
  <2>4. handling' # None =>
          ToldThen(handling') /\ (handling'.action = "destroy" => handling'.c \in missed')
    <3> SUFFICES ASSUME handling' # None
        PROVE  ToldThen(ev) /\ (ev.action = "destroy" => ev.c \in missed) /\ handling' = ev
      BY <1>1
    <3>1. handling' = ev /\ ev.c \notin reaped  BY <1>1
    <3>2. ToldThen(ev)  BY <1>3, <1>4, <1>5, ToldKept
    <3>3. ev.action = "destroy" => ev.c \in missed \cup reaped \/ Announced(ev.c, 1 - 1)
      BY <1>2, <1>3, <1>4 DEF EventInv
    <3>4. ~Announced(ev.c, 1 - 1)  BY DEF Announced
    <3> QED  BY <3>1, <3>2, <3>3, <3>4
  <2> QED  BY <2>1, <2>2, <2>3, <2>4, EventsThen
<1> QED  BY <1>1, <1>5, <1>7, <1>9, ExecsKept, OutcomesKept DEF RunInv

\* It forgets a container once no event of it can come.
LEMMA PrunesKeep ==
  ASSUME RunInv, NEW c \in Containers, PruneReaped(c) PROVE RunInv'
<1>1. /\ box[c].phase = "gone" /\ \A i \in DOMAIN stream : stream[i].c # c
      /\ reaped' = reaped \ {c}
      /\ UNCHANGED <<rows, box, exec, stream, connected, handling, missed>>
  BY DEF PruneReaped
<1>2. BoxKept /\ EventInv /\ stream \in Seq(EventType)
  BY <1>1 DEF BoxKept, Over, RunInv, RenovateTypeOK
<1>3. DOMAIN stream = 1..Len(stream)  BY <1>2, LenProperties
<1>4. RenovateTypeOK'  BY <1>1 DEF RunInv, RenovateTypeOK
<1>5. \A d, n : AnnouncedThen(d, n) <=> Announced(d, n)
  BY <1>1 DEF Announced, AnnouncedThen
<1>6. EventInv'
  <2>1. \A i \in 1..Len(stream') :
          stream'[i].action = "destroy" =>
            stream'[i].c \in missed' \cup reaped' \/ AnnouncedThen(stream'[i].c, i - 1)
    BY <1>1, <1>2, <1>3, <1>5 DEF EventInv
  <2>2. \A d \in Containers :
          box'[d].phase = "exited" =>
            d \in missed' \cup reaped' \/ AnnouncedThen(d, Len(stream'))
    BY <1>1, <1>2, <1>5 DEF EventInv
  <2>3. \A i \in 1..Len(stream') : ToldThen(stream'[i])  BY <1>1, <1>2, ToldKept
  <2>4. handling' # None =>
          ToldThen(handling') /\ (handling'.action = "destroy" => handling'.c \in missed')
    BY <1>1, <1>2, ToldKept DEF EventInv
  <2> QED  BY <2>1, <2>2, <2>3, <2>4, EventsThen
<1> QED  BY <1>1, <1>2, <1>4, <1>6, ExecsKept, OutcomesKept DEF RunInv

\* The handler completes the row with the exit code it was told.
LEMMA HandlesKeep ==
  ASSUME RunInv, HandleContainerEvent PROVE RunInv'
<1> DEFINE c == handling.c
<1>1. /\ handling # None /\ TerminateRunner(c, {}) /\ handling' = None
      /\ UNCHANGED <<exec, connected, reaped>>
  BY DEF HandleContainerEvent
<1>2. handling \in EventType /\ c \in Containers /\ handling.code \in 0..1
      /\ handling.action \in {"die", "destroy"}
  BY <1>1, EventsOf DEF EventType
<1>3. /\ Over(c)
      /\ handling.action = "die" => handling.code = box[c].code
      /\ handling.action = "destroy" => c \in missed
  BY <1>1 DEF RunInv, EventInv, Told
<1> HIDE DEF c
<1>4. {} \in SUBSET Containers /\ handling' \in {handling, None}  BY <1>1
<1>5. /\ EventInv' /\ BoxKept /\ missed \subseteq missed' /\ missed' \subseteq Containers
      /\ stream' \in Seq(EventType) /\ box' \in [Containers -> BoxType]
      /\ UNCHANGED rows => RunInv'
  BY <1>1, <1>2, <1>4, TerminateKeeps
<1>6. ASSUME NEW i \in RunOf(c), Complete(i, Outcome(handling.code)) PROVE RunInv'
  <2> DEFINE r == [rows[i] EXCEPT !.status = Outcome(handling.code)]
  <2>1. i \in DOMAIN rows /\ rows[i].cid = c /\ rows \in Seq(RowType)
    BY DEF RunOf, RunInv, RenovateTypeOK
  <2>2. /\ r \in RowType /\ r.status = Outcome(handling.code) /\ r.cid = c
    <3>1. rows[i] \in RowType  BY <2>1, ElementOfSeq, LenProperties
    <3>2. Outcome(handling.code) \in {"success", "failure"}  BY DEF Outcome
    <3> QED  BY <2>1, <3>1, <3>2 DEF RowType
  <2>3. rows' = [rows EXCEPT ![i] = r]  BY <1>6 DEF Complete
  <2> HIDE DEF r
  <2>4. /\ rows' \in Seq(RowType) /\ Len(rows') = Len(rows) /\ DOMAIN rows' = DOMAIN rows
        /\ rows'[i] = r /\ \A j \in DOMAIN rows : j # i => rows'[j] = rows[j]
    BY <2>1, <2>2, <2>3, RowIs
  <2>5. /\ EventInv' /\ BoxKept /\ missed \subseteq missed' /\ missed' \subseteq Containers
        /\ stream' \in Seq(EventType) /\ box' \in [Containers -> BoxType]
    BY <1>5
  <2>6. RenovateTypeOK'  BY <1>1, <2>4, <2>5 DEF RunInv, RenovateTypeOK
  <2>7. ExecInv'
    BY <1>1, <2>1, <2>2, <2>4 DEF RunInv, ExecInv, Recording
  <2>8. OutcomeInv'
    <3> SUFFICES ASSUME NEW j \in DOMAIN rows, rows'[j].status = "success"
        PROVE  /\ rows'[j].cid \in Containers /\ box'[rows'[j].cid].phase \in {"exited", "gone"}
               /\ rows'[j].cid \in missed' \/ box'[rows'[j].cid].code = 0
      BY <2>4 DEF OutcomeInv, Over
    <3>1. CASE j # i
      BY <3>1, <2>4, <2>5 DEF RunInv, OutcomeInv, BoxKept, Over
    <3>2. CASE j = i
      <4>1. handling.code = 0  BY <3>2, <2>2, <2>4 DEF Outcome
      <4>2. c \in missed \/ box[c].code = 0  BY <4>1, <1>2, <1>3
      <4>3. box'[c].phase \in {"exited", "gone"} /\ box'[c].code = box[c].code
        BY <1>2, <1>3, <2>5 DEF BoxKept
      <4> QED  BY <3>2, <4>2, <4>3, <1>2, <2>2, <2>4, <2>5
    <3> QED  BY <3>1, <3>2
  <2> QED  BY <2>5, <2>6, <2>7, <2>8 DEF RunInv
<1> QED  BY <1>5, <1>6 DEF HandleContainerEvent, c

\* A handler that stops before the row is written counts as a missed event.
LEMMA DropsKeep ==
  ASSUME RunInv, DropContainerEvent PROVE RunInv'
<1> DEFINE c == handling.c
<1>1. /\ handling # None /\ handling' = None /\ UNCHANGED <<rows, exec, connected, reaped>>
  BY DEF DropContainerEvent
<1>2. c \in Containers  BY <1>1, EventsOf
<1> HIDE DEF c
<1>3. CASE TerminateRunner(c, {c})
  <2>1. {c} \in SUBSET Containers /\ handling' \in {handling, None}  BY <1>1, <1>2
  <2> QED  BY <1>1, <1>2, <1>3, <2>1, TerminateKeeps
<1>4. CASE missed' = missed \cup {c} /\ UNCHANGED <<box, stream>>
  <2>1. BoxKept  BY <1>4 DEF BoxKept, Over
  <2>2. RenovateTypeOK'  BY <1>1, <1>2, <1>4 DEF RunInv, RenovateTypeOK
  <2>3. \A d, n : AnnouncedThen(d, n) <=> Announced(d, n)
    BY <1>4 DEF Announced, AnnouncedThen
  <2>4. EventInv'
    BY <1>1, <1>4, <2>1, <2>3, ToldKept, EventsThen DEF RunInv, EventInv
  <2> QED  BY <1>1, <1>4, <2>1, <2>2, <2>4, ExecsKept, OutcomesKept DEF RunInv
<1> QED  BY <1>3, <1>4 DEF DropContainerEvent, c

\* Nothing of this depends on the rest of the records.
LEMMA RunsStay ==
  ASSUME RunInv, UNCHANGED renovateVars PROVE RunInv'
<1>1. BoxKept  BY DEF BoxKept, Over, renovateVars
<1>2. RenovateTypeOK'  BY DEF RunInv, RenovateTypeOK, renovateVars
<1>3. EventInv' /\ OutcomeInv' /\ ExecInv'
  BY <1>1, StreamStays, OutcomesKept, ExecsKept DEF renovateVars
<1> QED  BY <1>2, <1>3 DEF RunInv

\* Every step of Renovate runs keeps their invariant.
LEMMA RunsKeep ==
  ASSUME RunInv, RenovateNext PROVE RunInv'
<1>1. ASSUME NEW e \in Execs, ExecStep(e) PROVE RunInv'
  BY <1>1, TokensKeep, CreatesKeep, SpawnsKeep, RecordsKeep DEF ExecStep
<1>2. CASE Listen
  BY <1>2, ReconnectsKeep, ReceivesKeep, HandlesKeep, DropsKeep DEF Listen
<1> QED
  BY <1>1, <1>2, EntersKeep, ReapsKeep, PrunesKeep, ExitsKeep, BreaksKeep
  DEF RenovateNext, Execs

\* At first nothing has run.
LEMMA RunsInit == ASSUME RenovateInit PROVE RunInv
<1>1. /\ rows = <<>> /\ box = [c \in Containers |-> [phase |-> "none", code |-> 0]]
      /\ exec = [e \in Execs |-> Quiet] /\ stream = <<>> /\ connected = TRUE
      /\ reaped = {} /\ handling = None /\ missed = {}
  BY DEF RenovateInit
<1>2. [phase |-> "none", code |-> 0] \in BoxType  BY DEF BoxType
<1>3. \A c \in Containers : box[c].phase = "none"  BY <1>1
<1>4. \A e \in Execs : exec[e].pc = "idle"  BY <1>1, QuietIs
<1>5. <<>> \in Seq(RowType) /\ <<>> \in Seq(EventType) /\ Len(<<>>) = 0
      /\ DOMAIN <<>> = {} /\ 1..Len(<<>>) = {}
  OBVIOUS
<1>6. RenovateTypeOK
  BY <1>1, <1>2, <1>5, QuietIs, RenovateAssumption DEF RenovateTypeOK
<1>7. ExecInv  BY <1>4 DEF ExecInv, Recording
<1>8. EventInv  BY <1>1, <1>3, <1>5 DEF EventInv
<1>9. OutcomeInv  BY <1>1, <1>5 DEF OutcomeInv
<1> QED  BY <1>6, <1>7, <1>8, <1>9 DEF RunInv

\* The inductive invariant of Renovate runs holds whatever else is kept.
THEOREM RunInvariance == Spec => []RunInv
<1>1. Init => RunInv  BY RunsInit DEF Init
<1>2. RunInv /\ [Next]_vars => RunInv'
  BY RunsStay, RunsKeep DEF Next, Renovates, Seeds, Snapshots, Histories, vars
<1> QED  BY <1>1, <1>2, PTL DEF Spec

\* A run is recorded as a success only if its container exited with code 0, or
\* an event of the container was missed.
THEOREM OutcomesTruthful == Spec => []OutcomeTruthful
<1>1. RunInv => OutcomeTruthful  BY DEF RunInv, OutcomeInv, OutcomeTruthful
<1> QED  BY <1>1, RunInvariance, PTL

----------------------------------------------------------------------------
(* Backups.  A file that somebody is about to delete has retentionCount    *)
(* newer ones; deleting another leaves it that many, because whoever       *)
(* deletes knows of as many that are newer still.                          *)

Newer(s) == {f \in Files : f > s}

BackupInv ==
  /\ BackupTypeOK
  /\ ~collided =>
       /\ \A w \in Writers : \A s \in writer[w].doomed : Cardinality(Newer(s)) >= Retention
       /\ \A w \in Writers : At(w, "write") /\ dir[writer[w].name] = "none" =>
                             Cardinality(Files) >= Retention
       /\ safe => (\E s \in Seconds : dir[s] = "whole") \/ Cardinality(Files) >= Retention

\* There are finitely many files, now ...
LEMMA FilesFinite ==
  /\ \A S : S \subseteq Files => IsFiniteSet(S) /\ Cardinality(S) \in Nat
                               /\ Cardinality(S) <= Cardinality(Files)
  /\ Cardinality(Files) \in Nat
<1>1. IsFiniteSet(Seconds)  BY FS_Interval, BackupsAssumption DEF Seconds
<1>2. IsFiniteSet(Files)  BY <1>1, FS_Subset DEF Files
<1> QED  BY <1>2, FS_Subset, FS_CardinalityType

\* ... and after a step.
LEMMA FilesFiniteThen ==
  /\ \A S : S \subseteq Files' => IsFiniteSet(S) /\ Cardinality(S) \in Nat
                                /\ Cardinality(S) <= Cardinality(Files')
  /\ Cardinality(Files') \in Nat
<1>1. IsFiniteSet(Seconds)  BY FS_Interval, BackupsAssumption DEF Seconds
<1>2. IsFiniteSet(Files')  BY <1>1, FS_Subset DEF Files
<1> QED  BY <1>2, FS_Subset, FS_CardinalityType

\* A step that removes no file, or only one that has enough newer ones.
LEMMA FilesKept ==
  ASSUME BackupInv, ~collided, Files \subseteq Files'
  PROVE  /\ Cardinality(Files) >= Retention => Cardinality(Files') >= Retention
         /\ \A s : Cardinality(Newer(s)) >= Retention => Cardinality(Newer(s)') >= Retention
<1>1. Cardinality(Files) <= Cardinality(Files')  BY FilesFiniteThen
<1>2. \A s : Cardinality(Newer(s)) <= Cardinality(Newer(s)')
  <2> TAKE s
  <2>1. Newer(s) \subseteq Newer(s)' /\ Newer(s)' \subseteq Files'  BY DEF Newer
  <2>2. IsFiniteSet(Newer(s)')  BY <2>1, FilesFiniteThen
  <2> QED  BY <2>1, <2>2, FS_Subset
<1>3. /\ Cardinality(Files) \in Nat /\ Cardinality(Files') \in Nat /\ Retention \in Nat
      /\ \A s : Cardinality(Newer(s)) \in Nat /\ Cardinality(Newer(s)') \in Nat
  <2>1. \A s : Newer(s) \subseteq Files /\ Newer(s)' \subseteq Files'  BY DEF Newer
  <2> QED  BY <2>1, FilesFinite, FilesFiniteThen, BackupsAssumption
<1> QED  BY <1>1, <1>2, <1>3

\* Removing a file that is doomed leaves as many newer ones as are retained.
LEMMA DeletesKeep ==
  ASSUME BackupInv, ~collided, NEW w \in Writers, NEW x \in writer[w].doomed,
         Files \ {x} \subseteq Files'
  PROVE  /\ Cardinality(Files') >= Retention
         /\ \A s \in Seconds : Cardinality(Newer(s)) >= Retention
                              => Cardinality(Newer(s)') >= Retention
<1>1. Cardinality(Newer(x)) >= Retention /\ x \in Seconds
  BY DEF BackupInv, BackupTypeOK
<1>2. Newer(x) \subseteq Newer(x)' /\ Newer(x)' \subseteq Files'
  BY <1>1 DEF Newer, Seconds
<1>3. \A s \in Seconds : /\ s < x => Newer(x) \subseteq Newer(s)'
                         /\ ~(s < x) => Newer(s) \subseteq Newer(s)'
                         /\ Newer(s)' \subseteq Files' /\ Newer(s) \subseteq Files
  BY <1>1 DEF Newer, Seconds, Files
<1>4. \A S, T : S \subseteq T /\ T \subseteq Files' => Cardinality(S) <= Cardinality(T)
                                                    /\ Cardinality(T) \in Nat
  BY FilesFiniteThen, FS_Subset
<1>5. \A s \in Seconds : Cardinality(Newer(s)) \in Nat /\ Newer(x) \subseteq Files
  BY FilesFinite DEF Newer
<1>6. Cardinality(Newer(x)) \in Nat /\ Retention \in Nat
  BY <1>1, <1>5, BackupsAssumption
<1>7. Cardinality(Files') >= Retention
  BY <1>1, <1>2, <1>4, <1>6, FilesFiniteThen
<1>8. ASSUME NEW s \in Seconds, Cardinality(Newer(s)) >= Retention
      PROVE  Cardinality(Newer(s)') >= Retention
  <2>1. CASE s < x  BY <2>1, <1>1, <1>3, <1>4, <1>6
  <2>2. CASE ~(s < x)  BY <2>2, <1>3, <1>4, <1>5, <1>6, <1>8
  <2> QED  BY <2>1, <2>2
<1> QED  BY <1>7, <1>8

SnapshotType == [pc : {"idle", "vacuum", "write", "prune", "delete"},
                 name : Seconds, doomed : SUBSET Seconds]

WholeThen == \E s \in Seconds : dir'[s] = "whole"

\* The types BackupInv gives.
LEMMA BackupTypes ==
  ASSUME BackupInv
  PROVE  /\ writer \in [Writers -> SnapshotType] /\ second \in Seconds
         /\ dir \in [Seconds -> {"none", "part", "whole"}]
         /\ safe \in BOOLEAN /\ collided \in BOOLEAN
  BY DEF BackupInv, BackupTypeOK, SnapshotType

\* A writer moves and no file is removed.
LEMMA WriterMoves ==
  ASSUME BackupInv, NEW w \in Writers, NEW x \in SnapshotType,
         writer' = [writer EXCEPT ![w] = x], UNCHANGED <<second, collided>>,
         dir' \in [Seconds -> {"none", "part", "whole"}], safe' \in BOOLEAN,
         \A s \in Seconds : dir[s] # "none" => dir'[s] # "none",
         \A s \in Seconds : dir[s] = "whole" => dir'[s] = "whole",
         ~collided => \A s \in x.doomed : Cardinality(Newer(s)) >= Retention,
         x.pc = "write" => dir'[x.name] # "none",
         ~collided /\ safe' => safe \/ WholeThen \/ Cardinality(Files') >= Retention
  PROVE  BackupInv'
<1>1. BackupTypeOK'  BY BackupTypes DEF BackupTypeOK, SnapshotType
<1>2. writer'[w] = x /\ \A v \in Writers : v # w => writer'[v] = writer[v]  BY BackupTypes
<1>3. Files \subseteq Files'  BY DEF Files
<1> SUFFICES ASSUME ~collided
    PROVE  /\ \A v \in Writers : \A s \in writer'[v].doomed : Cardinality(Newer(s)') >= Retention
           /\ \A v \in Writers : writer'[v].pc = "write" /\ dir'[writer'[v].name] = "none" =>
                                 Cardinality(Files') >= Retention
           /\ safe' => WholeThen \/ Cardinality(Files') >= Retention
  BY <1>1 DEF BackupInv, WholeThen, At
<1>4. /\ Cardinality(Files) >= Retention => Cardinality(Files') >= Retention
      /\ \A s : Cardinality(Newer(s)) >= Retention => Cardinality(Newer(s)') >= Retention
  BY <1>3, FilesKept
<1>5. \A v \in Writers : \A s \in writer'[v].doomed : Cardinality(Newer(s)') >= Retention
  BY <1>2, <1>4 DEF BackupInv
<1>6. ASSUME NEW v \in Writers, writer'[v].pc = "write", dir'[writer'[v].name] = "none"
      PROVE  Cardinality(Files') >= Retention
  <2>1. v # w /\ writer'[v] = writer[v]  BY <1>2, <1>6
  <2>2. writer[v].name \in Seconds  BY BackupTypes DEF SnapshotType
  <2>3. dir[writer[v].name] = "none" /\ At(v, "write")  BY <1>6, <2>1, <2>2 DEF At
  <2> QED  BY <2>3, <1>4 DEF BackupInv
<1>7. safe' => WholeThen \/ Cardinality(Files') >= Retention
  BY <1>4 DEF BackupInv, WholeThen
<1> QED  BY <1>5, <1>6, <1>7

\* A writer that does nothing dooms nothing.
LEMMA NoSnapshotIs ==
  NoSnapshot \in SnapshotType /\ NoSnapshot.pc = "idle" /\ NoSnapshot.doomed = {}
  BY BackupsAssumption DEF NoSnapshot, SnapshotType, Seconds

\* One lemma per step of a writer: it returns, ...
LEMMA ReturnsKeep ==
  ASSUME BackupInv, NEW w \in Writers, Returns(w), UNCHANGED <<second, dir, safe, collided>>
  PROVE  BackupInv'
<1>1. writer' = [writer EXCEPT ![w] = NoSnapshot]  BY DEF Returns
<1>2. \A s \in NoSnapshot.doomed : Cardinality(Newer(s)) >= Retention  BY NoSnapshotIs
<1>3. NoSnapshot.pc # "write"  BY NoSnapshotIs
<1>4. dir' \in [Seconds -> {"none", "part", "whole"}] /\ safe' \in BOOLEAN  BY BackupTypes
<1> QED  BY <1>1, <1>2, <1>3, <1>4, NoSnapshotIs, WriterMoves

\* ... it begins, ...
LEMMA SnapshotKeeps ==
  ASSUME BackupInv, NEW w \in Writers, Snapshot(w) PROVE BackupInv'
<1> DEFINE x == [pc |-> "vacuum", name |-> second, doomed |-> {}]
<1>1. x \in SnapshotType /\ x.doomed = {} /\ x.pc = "vacuum"  BY BackupTypes DEF SnapshotType
<1>2. /\ writer' = [writer EXCEPT ![w] = x] /\ dir' = [dir EXCEPT ![second] = "none"]
      /\ UNCHANGED <<second, safe>>
      /\ collided' \in BOOLEAN /\ (~collided' => ~collided /\ dir[second] = "none")
  BY DEF Snapshot
<1> HIDE DEF x
<1>3. CASE collided'
  BY <1>1, <1>2, <1>3, BackupTypes DEF BackupInv, BackupTypeOK, SnapshotType
<1>4. CASE ~collided'
  <2>1. dir' = dir /\ UNCHANGED collided  BY <1>2, <1>4, BackupTypes
  <2>2. \A s \in x.doomed : Cardinality(Newer(s)) >= Retention  BY <1>1
  <2>3. x.pc # "write"  BY <1>1
  <2>4. dir' \in [Seconds -> {"none", "part", "whole"}] /\ safe' \in BOOLEAN
    BY <1>2, <2>1, BackupTypes
  <2> QED  BY <1>1, <1>2, <2>1, <2>2, <2>3, <2>4, WriterMoves
<1> QED  BY <1>3, <1>4

\* ... writes its file, which is partial until it ends, ...
LEMMA VacuumsKeep ==
  ASSUME BackupInv, NEW w \in Writers, VacuumBegins(w) \/ VacuumEnds(w) PROVE BackupInv'
<1> DEFINE n == writer[w].name
<1>1. writer[w] \in SnapshotType /\ n \in Seconds /\ UNCHANGED <<second, collided>>
      /\ writer \in [Writers -> SnapshotType]
  BY BackupTypes DEF SnapshotType, VacuumBegins, VacuumEnds
<1>2. CASE Returns(w) /\ UNCHANGED <<dir, safe>>
  BY <1>1, <1>2, ReturnsKeep
<1>3. ASSUME NEW pc \in {"write", "prune"}, Goes(w, pc), NEW file \in {"part", "whole", "none"},
             dir' = [dir EXCEPT ![n] = file], dir[n] = "whole" => file = "whole",
             dir[n] # "none" => file # "none", pc = "write" => file # "none", safe' \in BOOLEAN,
             ~collided /\ safe' => safe \/ file = "whole" \/ Cardinality(Files') >= Retention
      PROVE  BackupInv'
  <2> DEFINE x == [writer[w] EXCEPT !.pc = pc]
  <2>1. x \in SnapshotType /\ x.pc = pc /\ x.name = n /\ x.doomed = writer[w].doomed
    BY <1>1, <1>3 DEF SnapshotType
  <2>2. writer' = [writer EXCEPT ![w] = x]  BY <1>3 DEF Goes
  <2> HIDE DEF x
  <2>3. /\ dir' \in [Seconds -> {"none", "part", "whole"}] /\ dir'[n] = file
        /\ \A s \in Seconds : s # n => dir'[s] = dir[s]
    BY <1>1, <1>3, BackupTypes
  <2>4. ~collided => \A s \in x.doomed : Cardinality(Newer(s)) >= Retention
    BY <2>1 DEF BackupInv
  <2>5. x.pc = "write" => dir'[x.name] # "none"  BY <1>3, <2>1, <2>3
  <2>6. ~collided /\ safe' => safe \/ WholeThen \/ Cardinality(Files') >= Retention
    BY <1>1, <1>3, <2>3 DEF WholeThen
  <2>7. /\ \A s \in Seconds : dir[s] # "none" => dir'[s] # "none"
        /\ \A s \in Seconds : dir[s] = "whole" => dir'[s] = "whole"
    BY <1>3, <2>3
  <2> QED  BY <1>1, <1>3, <2>1, <2>2, <2>3, <2>4, <2>5, <2>6, <2>7, WriterMoves
<1>4. CASE VacuumBegins(w) /\ dir[n] = "none"
  <2>1. /\ Goes(w, "write") /\ dir' = [dir EXCEPT ![n] = "part"] /\ safe' = safe
        /\ safe' \in BOOLEAN
    BY <1>4, BackupTypes DEF VacuumBegins
  <2> QED  BY <1>3, <1>4, <2>1
<1>5. CASE VacuumEnds(w) /\ Goes(w, "prune")
           /\ dir' = [dir EXCEPT ![n] = IF @ = "part" THEN "whole" ELSE @] /\ safe' = TRUE
  <2> DEFINE file == IF dir[n] = "part" THEN "whole" ELSE dir[n]
  <2>1. dir \in [Seconds -> {"none", "part", "whole"}]  BY BackupTypes
  <2>2. dir' = [dir EXCEPT ![n] = file]  BY <1>5
  <2>3. /\ file \in {"part", "whole", "none"} /\ (dir[n] = "whole" => file = "whole")
        /\ (dir[n] # "none" => file = "whole") /\ (dir[n] = "none" => file = "none")
    BY <1>1, <2>1
  <2> HIDE DEF file
  <2>4. CASE dir[n] # "none"
    BY <1>3, <1>5, <2>2, <2>3, <2>4
  <2>5. CASE dir[n] = "none"
    <3>1. dir' = dir  BY <2>1, <2>2, <2>3, <2>5
    <3>2. ~collided => Cardinality(Files) >= Retention
      BY <1>5, <2>5 DEF BackupInv, VacuumEnds
    <3>3. Files' = Files  BY <3>1 DEF Files
    <3> QED  BY <1>3, <1>5, <2>2, <2>3, <2>5, <3>2, <3>3
  <2> QED  BY <2>4, <2>5
<1> QED  BY <1>2, <1>4, <1>5 DEF VacuumBegins, VacuumEnds

\* ... decides what is too old, ...
LEMMA PruneKeeps ==
  ASSUME BackupInv, NEW w \in Writers, Prune(w) PROVE BackupInv'
<1> DEFINE D == Files \ Newest(Files, Retention)
           x == [writer[w] EXCEPT !.pc = "delete", !.doomed = D]
<1>1. D \subseteq Seconds  BY DEF Files
<1>2. \A s \in D : Cardinality(Newer(s)) >= Retention
  <2> TAKE s \in D
  <2>1. Newer(s) = {g \in Files : g > s} /\ Newer(s) \subseteq Files  BY DEF Newer
  <2>2. ~(Cardinality(Newer(s)) < Retention)  BY <2>1 DEF Newest
  <2> QED  BY <2>1, <2>2, FilesFinite, BackupsAssumption
<1>3. writer[w] \in SnapshotType  BY BackupTypes
<1>4. writer' = [writer EXCEPT ![w] = x] /\ UNCHANGED <<second, dir, safe, collided>>
  BY DEF Prune
<1> HIDE DEF D
<1>5. x \in SnapshotType /\ x.pc = "delete" /\ x.doomed = D
  BY <1>1, <1>3 DEF SnapshotType
<1> HIDE DEF x
<1>6. dir' \in [Seconds -> {"none", "part", "whole"}] /\ safe' \in BOOLEAN  BY <1>4, BackupTypes
<1> QED  BY <1>2, <1>4, <1>5, <1>6, WriterMoves

\* ... and deletes it.
LEMMA DeleteKeeps ==
  ASSUME BackupInv, NEW w \in Writers, Delete(w) PROVE BackupInv'
<1>1. UNCHANGED <<second, safe, collided>>  BY DEF Delete
<1>2. CASE Returns(w) /\ UNCHANGED dir
  BY <1>1, <1>2, ReturnsKeep
<1>3. ASSUME NEW s \in writer[w].doomed, writer' = [writer EXCEPT ![w].doomed = @ \ {s}],
             NEW left \in {"none", dir[s]}, dir' = [dir EXCEPT ![s] = left]
      PROVE  BackupInv'
  <2> DEFINE x == [writer[w] EXCEPT !.doomed = @ \ {s}]
  <2>1. writer[w] \in SnapshotType /\ writer \in [Writers -> SnapshotType]
        /\ dir \in [Seconds -> {"none", "part", "whole"}]
    BY BackupTypes
  <2>2. x \in SnapshotType /\ x.pc = writer[w].pc /\ x.doomed = writer[w].doomed \ {s}
        /\ x.name = writer[w].name /\ s \in Seconds
    BY <2>1 DEF SnapshotType
  <2>3. writer' = [writer EXCEPT ![w] = x]  BY <1>3
  <2> HIDE DEF x
  <2>4. writer'[w] = x /\ \A v \in Writers : v # w => writer'[v] = writer[v]  BY <2>1, <2>3
  <2>5. dir' \in [Seconds -> {"none", "part", "whole"}] /\ \A f \in Seconds : f # s => dir'[f] = dir[f]
    BY <1>3, <2>1, <2>2
  <2>6. BackupTypeOK'
    BY <1>1, <2>1, <2>2, <2>3, <2>5, BackupTypes DEF BackupTypeOK, SnapshotType
  <2>7. CASE ~collided
    <3>1. Files \ {s} \subseteq Files'  BY <2>5 DEF Files
    <3>2. /\ Cardinality(Files') >= Retention
          /\ \A f \in Seconds : Cardinality(Newer(f)) >= Retention
                               => Cardinality(Newer(f)') >= Retention
      BY <2>7, <3>1, DeletesKeep
    <3>3. \A v \in Writers : writer'[v].doomed \subseteq writer[v].doomed
                            /\ writer[v].doomed \subseteq Seconds
      BY <2>1, <2>2, <2>4 DEF SnapshotType
    <3>4. \A v \in Writers : \A f \in writer'[v].doomed : Cardinality(Newer(f)') >= Retention
      BY <2>7, <3>2, <3>3 DEF BackupInv
    <3> QED  BY <2>6, <3>2, <3>4 DEF BackupInv
  <2> QED  BY <1>1, <2>6, <2>7 DEF BackupInv
<1> QED  BY <1>2, <1>3 DEF Delete

\* The clock and the other records do not matter.
LEMMA BackupsStay ==
  ASSUME BackupInv, UNCHANGED <<dir, writer, safe, collided>>, second' \in Seconds
  PROVE  BackupInv'
  BY DEF BackupInv, BackupTypeOK, Newer, Files, At

\* Every step of the backups keeps their invariant.
LEMMA BackupsKeep ==
  ASSUME BackupInv, BackupNext PROVE BackupInv'
<1>1. ASSUME NEW w \in Writers, WriterDies(w) PROVE BackupInv'
  BY <1>1, ReturnsKeep DEF WriterDies
<1>2. CASE SecondPasses
  <2>1. second' \in Seconds
    BY <1>2, BackupTypes, BackupsAssumption DEF SecondPasses, Seconds
  <2> QED  BY <1>2, <2>1, BackupsStay DEF SecondPasses
<1> QED
  BY <1>1, <1>2, SnapshotKeeps, VacuumsKeep, PruneKeeps, DeleteKeeps DEF BackupNext

\* At first there are none.
LEMMA BackupsInit == ASSUME BackupInit PROVE BackupInv
<1>1. BackupTypeOK
  <2>1. 0 \in Seconds  BY BackupsAssumption DEF Seconds
  <2>2. writer \in [Writers -> SnapshotType]  BY NoSnapshotIs DEF BackupInit
  <2> QED  BY <2>1, <2>2 DEF BackupInit, BackupTypeOK, SnapshotType
<1>2. \A w \in Writers : writer[w] = NoSnapshot  BY DEF BackupInit
<1> QED  BY <1>1, <1>2, NoSnapshotIs DEF BackupInit, BackupInv, At

\* The inductive invariant of backups holds whatever else is kept.
THEOREM BackupInvariance == Spec => []BackupInv
<1>1. Init => BackupInv  BY BackupsInit DEF Init
<1>2. ASSUME BackupInv, UNCHANGED backupVars PROVE BackupInv'
  BY <1>2, BackupsStay, BackupTypes DEF backupVars
<1>3. BackupInv /\ [Next]_vars => BackupInv'
  BY <1>2, BackupsKeep DEF Next, Renovates, Seeds, Snapshots, Histories, vars
<1> QED  BY <1>1, <1>3, PTL DEF Spec

\* Once a snapshot was taken a whole one is on disk, as long as fewer than
\* retentionCount files are unfinished and no two snapshots shared a second,
\* however many writers there are and whichever of them are killed.
THEOREM GoodBackupsKept == Spec => []GoodBackupKept
<1>1. BackupInv => GoodBackupKept
  <2> SUFFICES ASSUME BackupInv, safe, ~collided,
                      Cardinality({s \in Seconds : dir[s] = "part"}) < Retention,
                      \A s \in Seconds : dir[s] # "whole"
      PROVE  FALSE
    BY DEF GoodBackupKept
  <2>1. Files = {s \in Seconds : dir[s] = "part"}  BY BackupTypes DEF Files
  <2>2. Cardinality(Files) >= Retention  BY DEF BackupInv
  <2> QED  BY <2>1, <2>2, FilesFinite, BackupsAssumption
<1> QED  BY <1>1, BackupInvariance, PTL

----------------------------------------------------------------------------
(* The tables.  No statement adds or loses a table, a setting or a counter *)
(* of identifiers.                                                         *)

IsTables(t) ==
  /\ t = [settings |-> t.settings, profiles |-> t.profiles, pools |-> t.pools,
          targets |-> t.targets, renovate |-> t.renovate, jobs |-> t.jobs, ids |-> t.ids]
  /\ t.settings = [seed_imported |-> t.settings.seed_imported,
                   total_allowed_runners |-> t.settings.total_allowed_runners,
                   job_retention_days |-> t.settings.job_retention_days]
  /\ t.ids = [profile |-> t.ids.profile, pool |-> t.ids.pool, job |-> t.ids.job]

\* What a statement of import or administration makes of the tables t.
Edits(t, u) == /\ IsTables(u)
               /\ u.jobs \subseteq t.jobs
               /\ u.settings.seed_imported = t.settings.seed_imported

\* Two edits are one.
LEMMA EditsCompose ==
  ASSUME NEW t, NEW u, NEW v, Edits(t, u), Edits(u, v) PROVE Edits(t, v)
  BY DEF Edits

\* One column of tables after the other.
LEMMA ColumnEdits ==
  ASSUME NEW t, IsTables(t), NEW s
  PROVE  /\ Edits(t, [t EXCEPT !.profiles = s]) /\ Edits(t, [t EXCEPT !.pools = s])
         /\ Edits(t, [t EXCEPT !.targets = s]) /\ Edits(t, [t EXCEPT !.renovate = s])
         /\ [t EXCEPT !.profiles = s].jobs = t.jobs /\ [t EXCEPT !.pools = s].jobs = t.jobs
         /\ [t EXCEPT !.targets = s].jobs = t.jobs /\ [t EXCEPT !.renovate = s].jobs = t.jobs
         /\ s \subseteq t.jobs => Edits(t, [t EXCEPT !.jobs = s])
         /\ Edits(t, [t EXCEPT !.ids.profile = s]) /\ Edits(t, [t EXCEPT !.ids.pool = s])
<1>1. /\ Edits(t, [t EXCEPT !.profiles = s]) /\ Edits(t, [t EXCEPT !.pools = s])
      /\ Edits(t, [t EXCEPT !.targets = s]) /\ Edits(t, [t EXCEPT !.renovate = s])
      /\ [t EXCEPT !.profiles = s].jobs = t.jobs /\ [t EXCEPT !.pools = s].jobs = t.jobs
      /\ [t EXCEPT !.targets = s].jobs = t.jobs /\ [t EXCEPT !.renovate = s].jobs = t.jobs
  BY DEF Edits, IsTables
<1>2. s \subseteq t.jobs => Edits(t, [t EXCEPT !.jobs = s])  BY DEF Edits, IsTables
<1>3. ASSUME NEW i, i = [profile |-> i.profile, pool |-> i.pool, job |-> i.job]
      PROVE  Edits(t, [t EXCEPT !.ids = i])
  BY <1>3 DEF Edits, IsTables
<1>4. /\ [t.ids EXCEPT !.profile = s] = [profile |-> s, pool |-> t.ids.pool, job |-> t.ids.job]
      /\ [t.ids EXCEPT !.pool = s] = [profile |-> t.ids.profile, pool |-> s, job |-> t.ids.job]
  BY DEF IsTables
<1>5. /\ [t EXCEPT !.ids.profile = s] = [t EXCEPT !.ids = [t.ids EXCEPT !.profile = s]]
      /\ [t EXCEPT !.ids.pool = s] = [t EXCEPT !.ids = [t.ids EXCEPT !.pool = s]]
  OBVIOUS
<1> QED  BY <1>1, <1>2, <1>3, <1>4, <1>5

\* Several columns at once.
LEMMA ColumnsEdits ==
  ASSUME NEW t, IsTables(t), NEW a, NEW b, NEW c, NEW d, d \subseteq t.jobs
  PROVE  Edits(t, [t EXCEPT !.pools = a, !.targets = b, !.renovate = c, !.jobs = d])
<1> DEFINE u == [t EXCEPT !.pools = a]
           v == [u EXCEPT !.targets = b]
           w == [v EXCEPT !.renovate = c]
<1>1. [t EXCEPT !.pools = a, !.targets = b, !.renovate = c, !.jobs = d] = [w EXCEPT !.jobs = d]
  OBVIOUS
<1>2. Edits(t, u) /\ u.jobs = t.jobs  BY ColumnEdits
<1>3. IsTables(u)  BY <1>2 DEF Edits
<1> HIDE DEF u
<1>4. Edits(u, v) /\ v.jobs = t.jobs  BY <1>2, <1>3, ColumnEdits
<1>5. IsTables(v)  BY <1>4 DEF Edits
<1> HIDE DEF v
<1>6. Edits(v, w) /\ w.jobs = t.jobs  BY <1>4, <1>5, ColumnEdits
<1>7. IsTables(w)  BY <1>6 DEF Edits
<1> HIDE DEF w
<1>8. Edits(w, [w EXCEPT !.jobs = d])  BY <1>6, <1>7, ColumnEdits
<1> QED  BY <1>1, <1>2, <1>4, <1>6, <1>8, EditsCompose

\* Settings.
LEMMA SettingEdits ==
  ASSUME NEW t, IsTables(t), NEW value
  PROVE  /\ Edits(t, SetAppSetting(t, "total_allowed_runners", value))
         /\ Edits(t, SetAppSetting(t, "job_retention_days", value))
         /\ IsTables(MarkSeedImported(t))
         /\ MarkSeedImported(t).jobs = t.jobs
         /\ MarkSeedImported(t).settings.seed_imported = 1
<1>1. ASSUME NEW r, r = [seed_imported |-> r.seed_imported,
                         total_allowed_runners |-> r.total_allowed_runners,
                         job_retention_days |-> r.job_retention_days]
      PROVE  /\ IsTables([t EXCEPT !.settings = r]) /\ [t EXCEPT !.settings = r].settings = r
             /\ [t EXCEPT !.settings = r].jobs = t.jobs
  BY <1>1 DEF IsTables
<1> DEFINE s == t.settings
           a == [s EXCEPT !["total_allowed_runners"] = value]
           b == [s EXCEPT !["job_retention_days"] = value]
           c == [s EXCEPT !["seed_imported"] = 1]
<1>2. /\ a = [seed_imported |-> s.seed_imported, total_allowed_runners |-> value,
              job_retention_days |-> s.job_retention_days]
      /\ b = [seed_imported |-> s.seed_imported,
              total_allowed_runners |-> s.total_allowed_runners, job_retention_days |-> value]
      /\ c = [seed_imported |-> 1, total_allowed_runners |-> s.total_allowed_runners,
              job_retention_days |-> s.job_retention_days]
  BY DEF IsTables
<1>3. /\ SetAppSetting(t, "total_allowed_runners", value) = [t EXCEPT !.settings = a]
      /\ SetAppSetting(t, "job_retention_days", value) = [t EXCEPT !.settings = b]
      /\ MarkSeedImported(t) = [t EXCEPT !.settings = c]
  BY DEF SetAppSetting, MarkSeedImported
<1> HIDE DEF a, b, c
<1>4. /\ a = [seed_imported |-> a.seed_imported,
              total_allowed_runners |-> a.total_allowed_runners,
              job_retention_days |-> a.job_retention_days]
      /\ a.seed_imported = s.seed_imported
  BY <1>2
<1>5. /\ b = [seed_imported |-> b.seed_imported,
              total_allowed_runners |-> b.total_allowed_runners,
              job_retention_days |-> b.job_retention_days]
      /\ b.seed_imported = s.seed_imported
  BY <1>2
<1>6. /\ c = [seed_imported |-> c.seed_imported,
              total_allowed_runners |-> c.total_allowed_runners,
              job_retention_days |-> c.job_retention_days]
      /\ c.seed_imported = 1
  BY <1>2
<1>7. Edits(t, [t EXCEPT !.settings = a])  BY <1>1, <1>4 DEF Edits
<1>8. Edits(t, [t EXCEPT !.settings = b])  BY <1>1, <1>5 DEF Edits
<1>9. /\ IsTables([t EXCEPT !.settings = c]) /\ [t EXCEPT !.settings = c].jobs = t.jobs
      /\ [t EXCEPT !.settings = c].settings.seed_imported = 1
  BY <1>1, <1>6
<1> QED  BY <1>3, <1>7, <1>8, <1>9

\* Profiles.
LEMMA ProfileEdits ==
  ASSUME NEW t, IsTables(t), NEW p, NEW id
  PROVE  Edits(t, CreateAuthProfile(t, p)) /\ Edits(t, DeleteAuthProfile(t, id))
<1>1. ASSUME NEW n, NEW s
      PROVE  Edits(t, [t EXCEPT !.ids.profile = n, !.profiles = s])
  <2>1. Edits(t, [t EXCEPT !.ids.profile = n])  BY ColumnEdits
  <2>2. IsTables([t EXCEPT !.ids.profile = n])  BY <2>1 DEF Edits
  <2> QED  BY <2>1, <2>2, ColumnEdits, EditsCompose
<1>2. ASSUME NEW s PROVE Edits(t, [t EXCEPT !.profiles = s])  BY ColumnEdits
<1>3. Edits(t, t)  BY DEF Edits
<1> QED  BY <1>1, <1>2, <1>3 DEF CreateAuthProfile, DeleteAuthProfile

\* Pools with their targets and configurations.
LEMMA PoolEdits ==
  ASSUME NEW t, IsTables(t), NEW p, NEW id, NEW url, NEW c
  PROVE  /\ Edits(t, CreateRunnerPool(t, p)) /\ Edits(t, DeleteRunnerPool(t, id))
         /\ Edits(t, UpdateRunnerPool(t, id, p))
         /\ Edits(t, AddPoolTarget(t, id, url)) /\ Edits(t, DeletePoolTargetsByPoolId(t, id))
         /\ Edits(t, CreateRenovateConfig(t, id, c))
         /\ Edits(t, UpdateRenovateConfig(t, id, c))
<1>1. ASSUME NEW n, NEW s PROVE Edits(t, [t EXCEPT !.ids.pool = n, !.pools = s])
  <2>1. Edits(t, [t EXCEPT !.ids.pool = n])  BY ColumnEdits
  <2>2. IsTables([t EXCEPT !.ids.pool = n])  BY <2>1 DEF Edits
  <2> QED  BY <2>1, <2>2, ColumnEdits, EditsCompose
<1>2. Edits(t, t)  BY DEF Edits
<1>3. Edits(t, CreateRunnerPool(t, p))  BY <1>1, <1>2 DEF CreateRunnerPool
<1>4. ASSUME NEW s PROVE /\ Edits(t, [t EXCEPT !.targets = s])
                         /\ Edits(t, [t EXCEPT !.renovate = s])
                         /\ Edits(t, [t EXCEPT !.pools = s])
  BY ColumnEdits
<1>5. Edits(t, DeleteRunnerPool(t, id))  BY ColumnsEdits DEF DeleteRunnerPool
<1>6. /\ Edits(t, AddPoolTarget(t, id, url)) /\ Edits(t, CreateRenovateConfig(t, id, c))
      /\ Edits(t, DeletePoolTargetsByPoolId(t, id))
  BY <1>4 DEF AddPoolTarget, CreateRenovateConfig, DeletePoolTargetsByPoolId
<1>7. Edits(t, UpdateRunnerPool(t, id, p))  BY <1>4 DEF UpdateRunnerPool
<1>8. Edits(t, UpdateRenovateConfig(t, id, c))  BY <1>4 DEF UpdateRenovateConfig
<1> QED  BY <1>3, <1>5, <1>6, <1>7, <1>8

\* Imports.
LEMMA ImportEdits ==
  ASSUME NEW t, IsTables(t), NEW cfg, NEW mode
  PROVE  Edits(t, ImportSeedConfig(t, cfg, mode))
<1> DEFINE n == IF cfg.global["total_allowed_runners"] > 0
                  THEN SetAppSetting(t, "total_allowed_runners", cfg.global["total_allowed_runners"])
                  ELSE t
           u == IF cfg.global["job_retention_days"] > 0
                  THEN SetAppSetting(n, "job_retention_days", cfg.global["job_retention_days"])
                  ELSE n
<1>1. ImportSettings(t, cfg.global) = u  BY DEF ImportSettings
<1>2. Edits(t, t)  BY DEF Edits
<1>3. Edits(t, n)  BY <1>2, SettingEdits
<1> HIDE DEF n
<1>4. IsTables(n)  BY <1>3 DEF Edits
<1>5. Edits(n, n)  BY <1>4 DEF Edits
<1>6. Edits(n, u)  BY <1>4, <1>5, SettingEdits
<1>7. Edits(t, u)  BY <1>3, <1>6, EditsCompose
<1> HIDE DEF u
<1>8. ASSUME NEW a, NEW b, NEW c, NEW d, NEW e, e \subseteq u.jobs, NEW f, NEW g
      PROVE  Edits(u, [u EXCEPT !.profiles = a, !.pools = b, !.targets = c, !.renovate = d,
                                !.jobs = e, !.ids.profile = f, !.ids.pool = g])
  <2> DEFINE q == [u EXCEPT !.profiles = a]
             v == [q EXCEPT !.pools = b, !.targets = c, !.renovate = d, !.jobs = e]
             w == [v EXCEPT !.ids.profile = f]
  <2>1. Edits(u, v)
    <3>1. IsTables(u)  BY <1>7 DEF Edits
    <3>2. Edits(u, q) /\ q.jobs = u.jobs  BY <3>1, ColumnEdits
    <3>3. IsTables(q)  BY <3>2 DEF Edits
    <3> HIDE DEF q
    <3>4. Edits(q, v)  BY <3>2, <3>3, <1>8, ColumnsEdits
    <3> QED  BY <3>2, <3>4, EditsCompose
  <2>2. IsTables(v)  BY <2>1 DEF Edits
  <2>3. [u EXCEPT !.profiles = a, !.pools = b, !.targets = c, !.renovate = d,
                  !.jobs = e, !.ids.profile = f, !.ids.pool = g]
          = [w EXCEPT !.ids.pool = g]
    OBVIOUS
  <2> HIDE DEF v
  <2>4. Edits(v, w)  BY <2>2, ColumnEdits
  <2>5. IsTables(w)  BY <2>4 DEF Edits
  <2> HIDE DEF w
  <2>6. Edits(w, [w EXCEPT !.ids.pool = g])  BY <2>5, ColumnEdits
  <2> QED  BY <2>1, <2>3, <2>4, <2>6, EditsCompose
<1>9. Edits(u, ImportSeedConfig(t, cfg, mode))  BY <1>1, <1>8 DEF ImportSeedConfig
<1> QED  BY <1>7, <1>9, EditsCompose

----------------------------------------------------------------------------
(* Seeding: the inductive invariant.                                       *)

\* There is configuration, and nobody is about to mark it as imported.
Configuration == tables.pools # {} \/ tables.profiles # {}
Unmarked == importer = "idle" /\ boot # "mark"
Marked == tables.settings.seed_imported = 1

SeedInv ==
  /\ IsTables(tables)
  /\ boot \in {"off", "setting", "pools", "profiles", "import", "mark", "up"}
  /\ importer \in {"idle", "mark"}
  /\ passed \in BOOLEAN /\ overlooked \in BOOLEAN
  /\ mix # "seed" => boot \in {"off", "up"}
  /\ mix = "seed" /\ ~overlooked =>
       /\ Configuration /\ Unmarked => Marked
       /\ passed /\ importer = "idle" => Marked
       /\ boot \in {"pools", "profiles", "import", "mark"} => ~passed
       /\ boot = "up" => passed

----------------------------------------------------------------------------
(* History: the inductive invariant.                                       *)

\* A row's log is its own: it was captured once.
Owns(r) == r.path # NoLog /\ r.path \notin again

\* The rows that are there, and the deleted ones whose files are still to go.
Known == tables.jobs \cup pruner.rows

LogInv ==
  /\ IsTables(tables)
  /\ alive \subseteq Runners
  /\ output \in [Runners -> Outputs]
  /\ DOMAIN logs = Runners /\ logs = [r \in Runners |-> logs[r]]
  /\ hung = [pc |-> hung.pc, runner |-> hung.runner, path |-> hung.path]
  /\ pruner = [pc |-> pruner.pc, cutoff |-> pruner.cutoff, rows |-> pruner.rows]
  /\ pruner.pc # "files" => pruner.rows = {}
  /\ \A r \in Known : r.path \in Runners \cup {NoLog}
  /\ \A r \in Known : Owns(r) => logs[r.path] # NoLog
  /\ \A r, q \in Known : Owns(r) /\ r.path = q.path => r = q
  /\ \A r \in tables.jobs \cap pruner.rows : ~Owns(r)
  /\ hung.pc = "record" => hung.runner \in Runners
  /\ hung.pc = "record" /\ hung.path /\ hung.runner \notin again =>
       /\ logs[hung.runner] # NoLog
       /\ \A r \in Known : r.path # hung.runner

----------------------------------------------------------------------------
(* Seeding: the steps.                                                     *)

\* The tables of an installation are tables.
LEMMA TablesInit == ASSUME Init PROVE IsTables(tables) /\ tables.jobs = {}
<1>1. /\ IsTables(EmptyTables) /\ EmptyTables.jobs = {}  BY DEF EmptyTables, IsTables
<1>2. IsTables(OnePool) /\ OnePool.jobs = {}
  <2> DEFINE profile == [name |-> "ci", method |-> "pat", app |-> 0, key |-> "", token |-> "t"]
             pool == [name |-> "web", provider |-> "github", url |-> "u", scope |-> "repo",
                      auth |-> 1, idle |-> 1, max |-> 1,
                      labels |-> [form |-> "comma", labels |-> {{"a"}}], image |-> "aio"]
             t == CreateAuthProfile(EmptyTables, profile)
             u == CreateRunnerPool(t, pool)
  <2>1. OnePool = SetAppSetting(u, "job_retention_days", 1)  BY DEF OnePool
  <2> HIDE DEF profile, pool
  <2>2. Edits(EmptyTables, t)  BY <1>1, ProfileEdits
  <2>3. IsTables(t)  BY <2>2 DEF Edits
  <2> HIDE DEF t
  <2>4. Edits(t, u)  BY <2>3, PoolEdits
  <2>5. IsTables(u)  BY <2>4 DEF Edits
  <2> HIDE DEF u
  <2>6. Edits(u, SetAppSetting(u, "job_retention_days", 1))  BY <2>5, SettingEdits
  <2>7. Edits(EmptyTables, OnePool)  BY <2>1, <2>2, <2>4, <2>6, EditsCompose
  <2> QED  BY <2>7, <1>1 DEF Edits
<1> QED  BY <1>1, <1>2 DEF Init

\* What the booting daemon reads.
LEMMA ReadsKeep ==
  ASSUME SeedInv, mix = "seed", UNCHANGED mix, NEW pc, Reads(pc),
         pc \in {"setting", "pools", "profiles", "import", "mark", "up"},
         boot \in {"off", "setting", "pools", "profiles"},
         ~overlooked /\ importer = "idle" =>
            \/ pc = "setting"
            \/ pc = "up" /\ Marked
            \/ pc \in {"pools", "profiles", "import"} /\ ~passed
            \/ pc = "mark" /\ ~passed
  PROVE  SeedInv'
<1>1. /\ boot' = pc /\ passed' = (passed \/ pc = "up")
      /\ overlooked' = (overlooked \/ importer = "mark")
      /\ UNCHANGED <<tables, importer, exporter>>
  BY DEF Reads
<1>2. passed' \in BOOLEAN /\ overlooked' \in BOOLEAN  BY <1>1
<1>3. ~overlooked' => ~overlooked /\ importer = "idle"  BY <1>1 DEF SeedInv
<1>4. passed' <=> passed \/ pc = "up"  BY <1>1
<1> QED  BY <1>1, <1>2, <1>3, <1>4 DEF SeedInv, Configuration, Unmarked, Marked

\* A boot imports only if nothing says that one did before.
LEMMA BootsKeep ==
  ASSUME SeedInv, mix = "seed", UNCHANGED mix, Boots PROVE SeedInv'
<1>1. CASE BootStarts
  BY <1>1, ReadsKeep DEF BootStarts
<1>2. CASE ReadSeedImported
  <2> DEFINE found == GetAppSetting(tables, "seed_imported") = 1
  <2>1. CASE boot = "setting" /\ Reads("up") /\ found
    BY <2>1, ReadsKeep DEF GetAppSetting, Marked
  <2>2. CASE boot = "setting" /\ Reads("pools") /\ ~found
    <3>1. ~overlooked /\ importer = "idle" => ~passed
      BY <2>2 DEF SeedInv, GetAppSetting, Marked
    <3> QED  BY <2>2, <3>1, ReadsKeep
  <2>3. CASE boot' = "pools" /\ overlooked' = TRUE /\ UNCHANGED <<tables, importer, passed>>
    BY <2>3 DEF SeedInv
  <2> QED  BY <1>2, <2>1, <2>2, <2>3 DEF ReadSeedImported
<1>3. CASE CountPools
  <2>1. boot = "pools"  BY <1>3 DEF CountPools
  <2>2. ~overlooked => ~passed  BY <2>1 DEF SeedInv
  <2>3. CASE CountRunnerPools(tables) = 0
    BY <1>3, <2>1, <2>2, <2>3, ReadsKeep DEF CountPools
  <2>4. CASE CountRunnerPools(tables) # 0
    <3>1. tables.pools # {}  BY <2>4, FS_EmptySet DEF CountRunnerPools
    <3>2. ~overlooked /\ importer = "idle" => Marked
      BY <2>1, <3>1 DEF SeedInv, Configuration, Unmarked
    <3>3. Reads("up")  BY <1>3, <2>4 DEF CountPools
    <3> QED  BY <2>1, <3>2, <3>3, ReadsKeep
  <2> QED  BY <2>3, <2>4
<1>4. CASE CountProfiles
  <2>1. boot = "profiles"  BY <1>4 DEF CountProfiles
  <2>2. ~overlooked => ~passed  BY <2>1 DEF SeedInv
  <2>3. CASE CountAuthProfiles(tables) = 0
    <3>1. Reads("mark") \/ Reads("import")  BY <1>4, <2>3 DEF CountProfiles
    <3> QED  BY <2>1, <2>2, <3>1, ReadsKeep
  <2>4. CASE CountAuthProfiles(tables) # 0
    <3>1. tables.profiles # {}  BY <2>4, FS_EmptySet DEF CountAuthProfiles
    <3>2. ~overlooked /\ importer = "idle" => Marked
      BY <2>1, <3>1 DEF SeedInv, Configuration, Unmarked
    <3>3. Reads("up")  BY <1>4, <2>4 DEF CountProfiles
    <3> QED  BY <2>1, <3>2, <3>3, ReadsKeep
  <2> QED  BY <2>3, <2>4
<1>5. CASE BootImports
  <2>1. boot = "import" /\ UNCHANGED <<importer, passed, overlooked>>  BY <1>5 DEF BootImports
  <2>2. ASSUME NEW file, Writes(ImportSeedConfig(tables, file, "merge")), boot' = "mark"
        PROVE  SeedInv'
    <3>1. tables' = ImportSeedConfig(tables, file, "merge")  BY <2>2 DEF Writes
    <3>2. Edits(tables, tables')
      BY <3>1, ImportEdits DEF SeedInv
    <3>3. IsTables(tables') /\ (Marked => Marked')
      BY <3>2 DEF Edits, SeedInv, Marked
    <3> QED  BY <2>1, <2>2, <3>3 DEF SeedInv, Unmarked
  <2>3. ASSUME boot' = "off", UNCHANGED tables PROVE SeedInv'
    BY <2>1, <2>3 DEF SeedInv, Configuration, Unmarked, Marked
  <2> QED  BY <1>5, <2>2, <2>3 DEF BootImports
<1>6. CASE BootMarks
  <2>1. /\ boot = "mark" /\ boot' = "up" /\ passed' = TRUE /\ UNCHANGED <<importer, overlooked>>
        /\ tables' = MarkSeedImported(tables)
    BY <1>6 DEF BootMarks, Writes
  <2>2. IsTables(tables') /\ Marked'  BY <2>1, SettingEdits DEF SeedInv, Marked
  <2> QED  BY <2>1, <2>2 DEF SeedInv
<1>7. CASE BootEnds
  <2>1. /\ boot # "off" /\ boot' = "off" /\ UNCHANGED <<tables, importer, passed>>
        /\ overlooked' = (overlooked \/ boot = "mark")
    BY <1>7 DEF BootEnds
  <2>2. overlooked' \in BOOLEAN /\ (~overlooked' => ~overlooked /\ boot # "mark")  BY <2>1
  <2> QED  BY <2>1, <2>2 DEF SeedInv, Configuration, Unmarked, Marked
<1> QED  BY <1>1, <1>2, <1>3, <1>4, <1>5, <1>6, <1>7 DEF Boots

\* Commands and the administrator: what they do to the tables.
LEMMA AdministerEdits ==
  ASSUME IsTables(tables), Administer PROVE Edits(tables, tables')
<1>1. ASSUME NEW p, Writes(CreateAuthProfile(tables, p)) PROVE Edits(tables, tables')
  BY <1>1, ProfileEdits DEF Writes
<1>2. ASSUME NEW id, Writes(DeleteAuthProfile(tables, id)) PROVE Edits(tables, tables')
  BY <1>2, ProfileEdits DEF Writes
<1>3. ASSUME NEW id, Writes(DeleteRunnerPool(tables, id)) PROVE Edits(tables, tables')
  BY <1>3, PoolEdits DEF Writes
<1>4. ASSUME NEW p, NEW q, NEW c, NEW id, NEW url,
             LET t1 == CreateRunnerPool(tables, q)
                 t2 == IF p.renovate.image = "none" THEN t1
                       ELSE CreateRenovateConfig(t1, t1.ids.pool, p.renovate)
             IN  Writes(AddPoolTarget(t2, t1.ids.pool, url))
      PROVE  Edits(tables, tables')
  <2> DEFINE t1 == CreateRunnerPool(tables, q)
             t2 == IF p.renovate.image = "none" THEN t1
                   ELSE CreateRenovateConfig(t1, t1.ids.pool, p.renovate)
  <2>1. tables' = AddPoolTarget(t2, t1.ids.pool, url)  BY <1>4 DEF Writes
  <2>2. Edits(tables, t1)  BY PoolEdits
  <2>3. IsTables(t1)  BY <2>2 DEF Edits
  <2> HIDE DEF t1
  <2>4. Edits(t1, t1)  BY <2>3 DEF Edits
  <2>5. Edits(t1, t2)  BY <2>3, <2>4, PoolEdits
  <2>6. IsTables(t2)  BY <2>5 DEF Edits
  <2> HIDE DEF t2
  <2>7. Edits(t2, tables')  BY <2>1, <2>6, PoolEdits
  <2> QED  BY <2>2, <2>5, <2>7, EditsCompose
<1>5. ASSUME NEW p, NEW q, NEW id, NEW url,
             LET t1 == UpdateRunnerPool(tables, id, q)
                 t2 == IF p.renovate.image = "none" THEN t1
                       ELSE UpdateRenovateConfig(t1, id, p.renovate)
             IN  Writes(AddPoolTarget(DeletePoolTargetsByPoolId(t2, id), id, url))
      PROVE  Edits(tables, tables')
  <2> DEFINE t1 == UpdateRunnerPool(tables, id, q)
             t2 == IF p.renovate.image = "none" THEN t1
                   ELSE UpdateRenovateConfig(t1, id, p.renovate)
             t3 == DeletePoolTargetsByPoolId(t2, id)
  <2>1. tables' = AddPoolTarget(t3, id, url)  BY <1>5 DEF Writes
  <2>2. Edits(tables, t1)  BY PoolEdits
  <2>3. IsTables(t1)  BY <2>2 DEF Edits
  <2> HIDE DEF t1
  <2>4. Edits(t1, t1)  BY <2>3 DEF Edits
  <2>5. Edits(t1, t2)  BY <2>3, <2>4, PoolEdits
  <2>6. IsTables(t2)  BY <2>5 DEF Edits
  <2> HIDE DEF t2
  <2>7. Edits(t2, t3)  BY <2>6, PoolEdits
  <2>8. IsTables(t3)  BY <2>7 DEF Edits
  <2> HIDE DEF t3
  <2>9. Edits(t3, tables')  BY <2>1, <2>8, PoolEdits
  <2> QED  BY <2>2, <2>5, <2>7, <2>9, EditsCompose
<1> QED
  BY <1>1, <1>2, <1>3, <1>4, <1>5
  DEF Administer, AddProfile, RemoveProfile, AddPool, ChangePool, RemovePool

\* So does a command.
LEMMA ImportsKeep ==
  ASSUME SeedInv, mix \in {"seed", "export"}, UNCHANGED mix, Imports PROVE SeedInv'
<1>1. ASSUME NEW mode, ImportCommand(mode) PROVE SeedInv'
  <2>1. /\ importer = "idle" /\ importer' = "mark" /\ UNCHANGED <<boot, passed, overlooked>>
        /\ Edits(tables, tables')
    BY <1>1, ImportEdits DEF ImportCommand, Writes, SeedInv
  <2>2. IsTables(tables')  BY <2>1 DEF Edits
  <2> QED  BY <2>1, <2>2 DEF SeedInv, Unmarked
<1>2. CASE ImportCommandMarks
  <2>1. importer = "mark" /\ importer' = "idle" /\ UNCHANGED <<boot, passed>>
    BY <1>2 DEF ImportCommandMarks
  <2>2. CASE Writes(MarkSeedImported(tables)) /\ UNCHANGED overlooked
    <3>1. IsTables(tables') /\ Marked'  BY <2>2, SettingEdits DEF Writes, SeedInv, Marked
    <3> QED  BY <2>1, <2>2, <3>1 DEF SeedInv
  <2>3. CASE UNCHANGED tables /\ overlooked' = TRUE
    BY <2>1, <2>3 DEF SeedInv
  <2> QED  BY <1>2, <2>2, <2>3 DEF ImportCommandMarks
<1>3. CASE Administer
  <2>1. boot = "up" /\ UNCHANGED <<boot, importer, passed, overlooked>>  BY <1>3 DEF Administer
  <2>2. Edits(tables, tables')  BY <1>3, AdministerEdits DEF SeedInv
  <2>3. IsTables(tables') /\ (Marked => Marked')  BY <2>2 DEF Edits, Marked
  <2> QED  BY <2>1, <2>3 DEF SeedInv, Unmarked
<1> QED  BY <1>1, <1>2, <1>3 DEF Imports

\* Who neither imports nor boots does not matter.
LEMMA SeedsStay ==
  ASSUME SeedInv, UNCHANGED <<boot, importer, passed, overlooked, mix>>,
         IsTables(tables'), mix = "seed" => UNCHANGED tables
  PROVE  SeedInv'
  BY DEF SeedInv, Configuration, Unmarked, Marked

----------------------------------------------------------------------------
(* History: the steps.                                                     *)

\* Rows go and logs come, if they change at all.
LEMMA LogsStay ==
  ASSUME LogInv, IsTables(tables'), tables'.jobs \subseteq tables.jobs,
         UNCHANGED <<alive, output, logs, hung, pruner, again>>
  PROVE  LogInv'
  BY DEF LogInv, Known, Owns

\* A captured log is there, and a second capture is noted.
LEMMA CaptureIs ==
  ASSUME LogInv, NEW r \in Runners, Capture(r)
  PROVE  /\ DOMAIN logs' = Runners /\ logs' = [x \in Runners |-> logs'[x]]
         /\ logs'[r] # NoLog /\ again \subseteq again'
         /\ \A x \in Runners : x # r => logs'[x] = logs[x]
         /\ logs[r] # NoLog => r \in again'
<1>1. output[r] \in Outputs  BY DEF LogInv
<1>2. CaptureAndCompressLogs(output[r]) # NoLog  BY <1>1, HistoryAssumption
<1>3. logs' = [logs EXCEPT ![r] = CaptureAndCompressLogs(output[r])]
      /\ again' = (IF logs[r] = NoLog THEN again ELSE again \cup {r})
  BY DEF Capture
<1>4. logs = [x \in Runners |-> logs[x]]  BY DEF LogInv
<1>5. logs' = [x \in Runners |-> IF x = r THEN CaptureAndCompressLogs(output[r]) ELSE logs[x]]
  BY <1>3, <1>4
<1> QED  BY <1>2, <1>3, <1>5

\* A log is captured, or not, while no row is about to be created.
LEMMA LogsCome ==
  ASSUME LogInv, NEW r \in Runners, Capture(r) \/ Uncaptured, hung.pc = "idle",
         UNCHANGED <<tables, output, pruner>>
  PROVE  /\ DOMAIN logs' = Runners /\ logs' = [x \in Runners |-> logs'[x]]
         /\ \A q \in Known : Owns(q)' => Owns(q) /\ logs'[q.path] # NoLog
         /\ Capture(r) => logs'[r] # NoLog
         /\ Capture(r) /\ r \notin again' => \A q \in Known : q.path # r
<1>1. /\ \A q \in Known : q.path \in Runners \cup {NoLog}
      /\ \A q \in Known : Owns(q) => logs[q.path] # NoLog
      /\ DOMAIN logs = Runners /\ logs = [x \in Runners |-> logs[x]]
  BY DEF LogInv
<1>2. CASE Capture(r)
  <2>1. /\ DOMAIN logs' = Runners /\ logs' = [x \in Runners |-> logs'[x]]
        /\ logs'[r] # NoLog /\ again \subseteq again'
        /\ \A x \in Runners : x # r => logs'[x] = logs[x]
        /\ logs[r] # NoLog => r \in again'
    BY <1>2, CaptureIs
  <2>2. \A q \in Known : Owns(q)' => Owns(q) /\ logs'[q.path] # NoLog
    BY <1>1, <2>1 DEF Owns
  <2>3. r \notin again' => \A q \in Known : q.path # r
    BY <1>1, <2>1, HistoryAssumption DEF Owns
  <2> QED  BY <2>1, <2>2, <2>3
<1>3. CASE ~Capture(r)
  BY <1>1, <1>3 DEF Uncaptured, Owns
<1> QED  BY <1>2, <1>3

\* One lemma per step: the reaper captures a log, ...
LEMMA ReapContainerKeeps ==
  ASSUME LogInv, NEW r, ReapContainer(r) PROVE LogInv'
<1>1. /\ r \in Runners /\ hung.pc = "idle" /\ (Capture(r) \/ Uncaptured)
      /\ UNCHANGED <<tables, output, hung, pruner>> /\ alive' \subseteq Runners
  BY DEF ReapContainer, LogInv
<1>2. /\ DOMAIN logs' = Runners /\ logs' = [x \in Runners |-> logs'[x]]
      /\ \A q \in Known : Owns(q)' => Owns(q) /\ logs'[q.path] # NoLog
  BY <1>1, LogsCome
<1>3. Known' = Known  BY <1>1 DEF Known
<1>4. \A q \in Known : Owns(q)' => Owns(q)  BY <1>2
<1>5. /\ \A q, x \in Known' : Owns(q)' /\ q.path = x.path => q = x
      /\ \A q \in tables'.jobs \cap pruner'.rows : ~Owns(q)'
      /\ \A q \in Known' : q.path \in Runners \cup {NoLog}
      /\ \A q \in Known' : Owns(q)' => logs'[q.path] # NoLog
  BY <1>1, <1>2, <1>3, <1>4 DEF LogInv, Known
<1> QED  BY <1>1, <1>2, <1>5 DEF LogInv

\* ... the check for hung runners keeps what it captured for its row, ...
LEMMA HungTerminatesKeeps ==
  ASSUME LogInv, NEW r, HungTerminates(r) PROVE LogInv'
<1>1. /\ r \in Runners /\ hung.pc = "idle" /\ (Capture(r) \/ Uncaptured)
      /\ UNCHANGED <<tables, output, pruner>> /\ alive' \subseteq Runners
  BY DEF HungTerminates, LogInv
<1>2. \/ Capture(r) /\ hung' = [pc |-> "record", runner |-> r, path |-> TRUE]
      \/ hung' = [pc |-> "record", runner |-> r, path |-> FALSE]
  BY DEF HungTerminates
<1>3. /\ DOMAIN logs' = Runners /\ logs' = [x \in Runners |-> logs'[x]]
      /\ \A q \in Known : Owns(q)' => Owns(q) /\ logs'[q.path] # NoLog
      /\ Capture(r) => logs'[r] # NoLog
      /\ Capture(r) /\ r \notin again' => \A q \in Known : q.path # r
  BY <1>1, LogsCome
<1>4. Known' = Known  BY <1>1 DEF Known
<1>5. /\ hung' = [pc |-> hung'.pc, runner |-> hung'.runner, path |-> hung'.path]
      /\ hung'.runner = r /\ (hung'.path => Capture(r))
  BY <1>2
<1>6. \A q \in Known : Owns(q)' => Owns(q)  BY <1>3
<1>7. /\ \A q, x \in Known' : Owns(q)' /\ q.path = x.path => q = x
      /\ \A q \in tables'.jobs \cap pruner'.rows : ~Owns(q)'
      /\ \A q \in Known' : q.path \in Runners \cup {NoLog}
      /\ \A q \in Known' : Owns(q)' => logs'[q.path] # NoLog
  BY <1>1, <1>3, <1>4, <1>6 DEF LogInv, Known
<1>8. hung'.path /\ hung'.runner \notin again' =>
         logs'[hung'.runner] # NoLog /\ \A q \in Known' : q.path # hung'.runner
  BY <1>3, <1>4, <1>5
<1> QED  BY <1>1, <1>3, <1>5, <1>7, <1>8 DEF LogInv

\* The row that is created.
LEMMA CreatedIs ==
  ASSUME LogInv, NEW r, NEW path
  PROVE  LET u == CreateJobHistory(tables, 1, r, "timeout", path, day)
         IN  /\ IsTables(u)
             /\ \/ u.jobs = tables.jobs
                \/ \E q : q.path = path /\ u.jobs = tables.jobs \cup {q}
<1> DEFINE u == CreateJobHistory(tables, 1, r, "timeout", path, day)
           id == tables.ids.job + 1
           q == [id |-> id, pool |-> 1, runner |-> r, status |-> "timeout", path |-> path, at |-> day]
<1>1. IsTables(tables)  BY DEF LogInv
<1>2. CASE \A p \in tables.pools : p.id # 1
  BY <1>1, <1>2 DEF CreateJobHistory
<1>3. CASE ~ \A p \in tables.pools : p.id # 1
  <2>1. u = [tables EXCEPT !.ids.job = id, !.jobs = tables.jobs \cup {q}]
    BY <1>1, <1>3 DEF CreateJobHistory, IsTables
  <2>2. [tables.ids EXCEPT !.job = id]
          = [profile |-> tables.ids.profile, pool |-> tables.ids.pool, job |-> id]
    BY <1>1 DEF IsTables
  <2>3. ASSUME NEW i, i = [profile |-> i.profile, pool |-> i.pool, job |-> i.job]
        PROVE  IsTables([tables EXCEPT !.ids = i])
    BY <1>1, <2>3 DEF IsTables
  <2>4. IsTables([tables EXCEPT !.ids.job = id])
    <3> DEFINE i == [tables.ids EXCEPT !.job = id]
    <3>1. i = [profile |-> i.profile, pool |-> i.pool, job |-> i.job]  BY <2>2
    <3>2. [tables EXCEPT !.ids.job = id] = [tables EXCEPT !.ids = i]  OBVIOUS
    <3> HIDE DEF i
    <3> QED  BY <3>1, <3>2, <2>3
  <2>5. ASSUME NEW t, IsTables(t), NEW s
        PROVE  IsTables([t EXCEPT !.jobs = s]) /\ [t EXCEPT !.jobs = s].jobs = s
    BY <2>5 DEF IsTables
  <2>6. u = [[tables EXCEPT !.ids.job = id] EXCEPT !.jobs = tables.jobs \cup {q}]  BY <2>1
  <2>7. q.path = path  OBVIOUS
  <2> HIDE DEF q, u
  <2>8. IsTables(u) /\ u.jobs = tables.jobs \cup {q}  BY <2>4, <2>5, <2>6
  <2> QED  BY <2>7, <2>8 DEF u
<1> QED  BY <1>2, <1>3

\* ... and a row names the log that was captured for it.
LEMMA RecordKeeps ==
  ASSUME LogInv, NEW r, NEW path, RecordJobTimeout(r, path), path \in Runners \cup {NoLog},
         path = NoLog \/ path \in again \/ (/\ logs[path] # NoLog
                                            /\ \A q \in Known : q.path # path),
         hung' = NoHung \/ (UNCHANGED hung /\ path = NoLog)
  PROVE  LogInv'
<1>1. /\ tables' = CreateJobHistory(tables, 1, r, "timeout", path, day)
      /\ UNCHANGED <<alive, output, logs, pruner, again>>
  BY DEF RecordJobTimeout
<1>2. /\ IsTables(tables')
      /\ tables'.jobs = tables.jobs \/ \E q : q.path = path /\ tables'.jobs = tables.jobs \cup {q}
  BY <1>1, CreatedIs
<1>3. /\ hung' = [pc |-> hung'.pc, runner |-> hung'.runner, path |-> hung'.path]
      /\ hung'.pc = "record" => UNCHANGED hung /\ path = NoLog
  BY DEF NoHung, LogInv
<1>4. CASE tables'.jobs = tables.jobs
  BY <1>1, <1>2, <1>3, <1>4 DEF LogInv, Known, Owns
<1>5. ASSUME NEW q, q.path = path, tables'.jobs = tables.jobs \cup {q} PROVE LogInv'
  <2>1. \A x : Owns(x)' <=> Owns(x)  BY <1>1 DEF Owns
  <2>2. \A x \in Known' : x \in Known \/ x = q  BY <1>1, <1>5 DEF Known
  <2>3. Owns(q) => logs[path] # NoLog /\ \A x \in Known : x.path # path
    BY <1>5 DEF Owns
  <2>4. \A x \in Known : Owns(x) => x.path # path
    BY <2>3, <1>5 DEF Owns
  <2>5. /\ \A x \in Known' : x.path \in Runners \cup {NoLog}
        /\ \A x \in Known' : Owns(x)' => logs'[x.path] # NoLog
    BY <1>1, <1>5, <2>1, <2>2, <2>3 DEF LogInv
  <2>6. \A x, y \in Known' : Owns(x)' /\ x.path = y.path => x = y
    BY <1>5, <2>1, <2>2, <2>3, <2>4 DEF LogInv
  <2>7. \A x \in tables'.jobs \cap pruner'.rows : ~Owns(x)'
    BY <1>1, <1>5, <2>1, <2>3 DEF LogInv, Known
  <2>8. hung'.pc = "record" /\ hung'.path /\ hung'.runner \notin again' =>
           logs'[hung'.runner] # NoLog /\ \A x \in Known' : x.path # hung'.runner
    BY <1>1, <1>3, <1>5, <2>2, HistoryAssumption DEF LogInv
  <2> QED  BY <1>1, <1>2, <1>3, <2>5, <2>6, <2>7, <2>8 DEF LogInv
<1> QED  BY <1>2, <1>4, <1>5

\* The check for hung runners records last.
LEMMA HungRecordsKeeps ==
  ASSUME LogInv, HungRecords PROVE LogInv'
<1> DEFINE path == IF hung.path THEN hung.runner ELSE NoLog
<1>1. hung.pc = "record" /\ hung' = NoHung  BY DEF HungRecords
<1>2. /\ path \in Runners \cup {NoLog}
      /\ path = NoLog \/ path \in again \/ (/\ logs[path] # NoLog
                                           /\ \A q \in Known : q.path # path)
  BY <1>1 DEF LogInv
<1>3. CASE RecordJobTimeout(hung.runner, path)
  <2> HIDE DEF path
  <2> QED  BY <1>1, <1>2, <1>3, RecordKeeps
<1>4. CASE UNCHANGED <<tables, day, alive, output, logs, pruner, pager, stats, again, cascaded>>
  <2>1. hung'.pc = "idle" /\ hung' = [pc |-> hung'.pc, runner |-> hung'.runner, path |-> hung'.path]
    BY <1>1 DEF NoHung
  <2> QED  BY <1>4, <2>1 DEF LogInv, Known, Owns
<1> QED  BY <1>3, <1>4 DEF HungRecords

\* The retention scheduler.
LEMMA PruneRowsKeeps ==
  ASSUME LogInv, PruneRows PROVE LogInv'
<1>1. pruner.pc = "rows" /\ UNCHANGED <<alive, output, logs, hung, again>>  BY DEF PruneRows
<1>2. pruner.rows = {} /\ IsTables(tables)  BY <1>1 DEF LogInv
<1>3. CASE UNCHANGED tables /\ pruner' = NoPrune
  <2>1. pruner'.rows = {} /\ pruner' = [pc |-> pruner'.pc, cutoff |-> pruner'.cutoff, rows |-> pruner'.rows]
    BY <1>3 DEF NoPrune
  <2> QED  BY <1>1, <1>2, <1>3, <2>1 DEF LogInv, Known, Owns
<1>4. CASE /\ tables' = PruneJobHistoryOlderThan(tables, pruner.cutoff)
           /\ pruner' = [pruner EXCEPT !.pc = "files", !.rows = Expired(tables, pruner.cutoff)]
  <2> DEFINE E == Expired(tables, pruner.cutoff)
  <2>1. tables' = [tables EXCEPT !.jobs = tables.jobs \ E]
    BY <1>2, <1>4 DEF PruneJobHistoryOlderThan, IsTables
  <2>2. E \subseteq tables.jobs  BY DEF Expired
  <2> HIDE DEF E
  <2>3. IsTables(tables') /\ tables'.jobs = tables.jobs \ E
    BY <1>2, <2>1 DEF IsTables
  <2>4. /\ pruner' = [pc |-> pruner'.pc, cutoff |-> pruner'.cutoff, rows |-> pruner'.rows]
        /\ pruner'.rows = E /\ pruner'.pc = "files"
    <3>1. pruner' = [pc |-> "files", cutoff |-> pruner.cutoff, rows |-> E]
      BY <1>4 DEF LogInv, E
    <3> QED  BY <3>1
  <2>5. Known' = Known  BY <1>2, <2>2, <2>3, <2>4 DEF Known
  <2> QED  BY <1>1, <2>3, <2>4, <2>5 DEF LogInv, Owns
<1> QED  BY <1>3, <1>4 DEF PruneRows

\* Log files go only after their rows.
LEMMA PruneFilesKeeps ==
  ASSUME LogInv, PruneFiles PROVE LogInv'
<1>1. pruner.pc = "files" /\ UNCHANGED <<tables, alive, output, hung, again>>  BY DEF PruneFiles
<1>2. CASE pruner' = NoPrune /\ UNCHANGED logs
  <2>1. pruner'.rows = {} /\ pruner' = [pc |-> pruner'.pc, cutoff |-> pruner'.cutoff, rows |-> pruner'.rows]
    BY <1>2 DEF NoPrune
  <2> QED  BY <1>1, <1>2, <2>1 DEF LogInv, Known, Owns
<1>3. ASSUME NEW r \in pruner.rows, pruner' = [pruner EXCEPT !.rows = @ \ {r}],
             \/ r.path # NoLog /\ logs' = [logs EXCEPT ![r.path] = NoLog]
             \/ UNCHANGED logs
      PROVE  LogInv'
  <2>1. pruner' = [pc |-> "files", cutoff |-> pruner.cutoff, rows |-> pruner.rows \ {r}]
    BY <1>1, <1>3 DEF LogInv
  <2>2. /\ pruner' = [pc |-> pruner'.pc, cutoff |-> pruner'.cutoff, rows |-> pruner'.rows]
        /\ pruner'.rows = pruner.rows \ {r} /\ pruner'.pc = "files"
    BY <2>1
  <2>3. Known' \subseteq Known /\ r \in Known  BY <1>1, <2>2 DEF Known
  <2>4. r.path \in Runners \cup {NoLog} /\ logs = [x \in Runners |-> logs[x]]
    BY <2>3 DEF LogInv
  <2>5. /\ DOMAIN logs' = Runners /\ logs' = [x \in Runners |-> logs'[x]]
        /\ \A x \in Runners : logs'[x] = logs[x] \/ (r.path # NoLog /\ x = r.path)
    BY <1>3, <2>4
  <2>6. \A q \in Known' : Owns(q) => q.path # r.path
    <3> SUFFICES ASSUME NEW q \in Known', Owns(q), q.path = r.path PROVE FALSE  OBVIOUS
    <3>1. q = r  BY <2>3 DEF LogInv
    <3>2. r \in tables.jobs  BY <1>1, <2>2, <3>1 DEF Known
    <3> QED  BY <1>3, <3>1, <3>2 DEF LogInv
  <2>7. \A q : Owns(q)' <=> Owns(q)  BY <1>1 DEF Owns
  <2>8. \A q \in Known' : Owns(q) => logs'[q.path] = logs[q.path]
    BY <2>3, <2>5, <2>6 DEF LogInv, Owns
  <2>9. hung'.pc = "record" /\ hung'.path /\ hung'.runner \notin again' =>
           logs'[hung'.runner] # NoLog /\ \A q \in Known' : q.path # hung'.runner
    BY <1>1, <2>3, <2>5 DEF LogInv
  <2>10. \A q \in tables'.jobs \cap pruner'.rows : ~Owns(q)'
    BY <1>1, <2>2, <2>7 DEF LogInv
  <2> QED  BY <1>1, <2>2, <2>3, <2>5, <2>7, <2>8, <2>9, <2>10 DEF LogInv
<1> QED  BY <1>2, <1>3 DEF PruneFiles

\* Every step of the history keeps its invariant.
LEMMA HistoriesKeep ==
  ASSUME LogInv, Histories PROVE LogInv'
<1>1. ASSUME UNCHANGED <<tables, alive, output, logs, hung, pruner, again>> PROVE LogInv'
  BY <1>1, LogsStay DEF LogInv
<1>2. CASE PruneStarts(0)
  <2>1. /\ UNCHANGED <<tables, alive, output, logs, hung, again>>
        /\ pruner.pc = "idle" /\ \E c : pruner' = [pc |-> "rows", cutoff |-> c, rows |-> {}]
    BY <1>2 DEF PruneStarts
  <2>2. pruner'.rows = {} /\ pruner' = [pc |-> pruner'.pc, cutoff |-> pruner'.cutoff, rows |-> pruner'.rows]
    BY <2>1
  <2> QED  BY <2>1, <2>2 DEF LogInv, Known, Owns
<1>3. CASE HistoryCrash
  <2>1. UNCHANGED <<tables, alive, output, logs, again>> /\ hung' = NoHung /\ pruner' = NoPrune
    BY <1>3 DEF HistoryCrash
  <2>2. /\ pruner'.rows = {} /\ hung'.pc = "idle"
        /\ pruner' = [pc |-> pruner'.pc, cutoff |-> pruner'.cutoff, rows |-> pruner'.rows]
        /\ hung' = [pc |-> hung'.pc, runner |-> hung'.runner, path |-> hung'.path]
    BY <2>1 DEF NoPrune, NoHung
  <2> QED  BY <2>1, <2>2 DEF LogInv, Known, Owns
<1>4. CASE Retaining
  BY <1>1, <1>2, <1>4, PruneRowsKeeps, PruneFilesKeeps DEF Retaining, DayPasses
<1>5. CASE Capturing
  BY <1>3, <1>5, ReapContainerKeeps, HungTerminatesKeeps, HungRecordsKeeps DEF Capturing
<1>6. CASE Recorded
  <2>1. ASSUME NEW r, RecordJobTimeout(r, NoLog), UNCHANGED hung PROVE LogInv'
    BY <2>1, RecordKeeps
  <2>2. CASE PoolDeleted
    <3>1. Edits(tables, DeleteRunnerPool(tables, 1))  BY PoolEdits DEF LogInv
    <3> QED  BY <2>2, <3>1, LogsStay DEF PoolDeleted, Edits
  <2> QED  BY <1>6, <2>1, <2>2 DEF Recorded
<1>7. CASE Browsing
  BY <1>1, <1>7 DEF Browsing, GetJobHistory, ReadPage, NextPage, PagerEnds
<1>8. CASE Watching
  BY <1>1, <1>8 DEF Watching, GetSystemStats, ReadTrend, StatsEnd
<1> QED  BY <1>4, <1>5, <1>6, <1>7, <1>8, ReapContainerKeeps DEF Histories

----------------------------------------------------------------------------
(* Seeding and history together: both use the tables.                      *)

TableInv == SeedInv /\ LogInv

\* An installation satisfies it.
LEMMA TablesStart == ASSUME Init PROVE TableInv
<1>1. IsTables(tables) /\ tables.jobs = {}  BY TablesInit
<1>2. SeedInv
  <2>1. mix = "seed" => tables = EmptyTables /\ boot = "off"  BY DEF Init
  <2>2. EmptyTables.pools = {} /\ EmptyTables.profiles = {}  BY DEF EmptyTables
  <2>3. boot \in {"off", "up"} /\ importer = "idle" /\ passed = FALSE /\ overlooked = FALSE
    BY DEF Init, SeedInit
  <2> QED  BY <1>1, <2>1, <2>2, <2>3 DEF SeedInv, Configuration
<1>3. LogInv
  <2>1. \E o \in Outputs : output = [r \in Runners |-> o]
    BY HistoryAssumption DEF Init
  <2>2. output \in [Runners -> Outputs]  BY <2>1
  <2>3. /\ alive = Runners /\ logs = [r \in Runners |-> NoLog] /\ hung = NoHung
        /\ pruner = NoPrune
    BY DEF Init, HistoryInit
  <2>4. DOMAIN logs = Runners /\ logs = [r \in Runners |-> logs[r]]  BY <2>3
  <2>5. /\ pruner.rows = {} /\ hung.pc = "idle"
        /\ pruner = [pc |-> pruner.pc, cutoff |-> pruner.cutoff, rows |-> pruner.rows]
        /\ hung = [pc |-> hung.pc, runner |-> hung.runner, path |-> hung.path]
    BY <2>3 DEF NoPrune, NoHung
  <2>6. Known = {}  BY <1>1, <2>5 DEF Known
  <2> QED  BY <1>1, <2>2, <2>3, <2>4, <2>5, <2>6 DEF LogInv
<1> QED  BY <1>2, <1>3 DEF TableInv

\* No step of seeding adds a row to the history.
LEMMA SeedsEdit ==
  ASSUME TableInv, Seeds PROVE IsTables(tables') /\ tables'.jobs \subseteq tables.jobs
<1>1. IsTables(tables)  BY DEF TableInv, SeedInv
<1>2. ASSUME UNCHANGED tables PROVE IsTables(tables') /\ tables'.jobs \subseteq tables.jobs
  BY <1>1, <1>2
<1>3. ASSUME tables' = MarkSeedImported(tables)
      PROVE  IsTables(tables') /\ tables'.jobs \subseteq tables.jobs
  BY <1>1, <1>3, SettingEdits
<1>4. ASSUME NEW cfg, NEW mode, tables' = ImportSeedConfig(tables, cfg, mode)
      PROVE  IsTables(tables') /\ tables'.jobs \subseteq tables.jobs
  BY <1>1, <1>4, ImportEdits DEF Edits
<1>5. CASE Boots
  BY <1>2, <1>3, <1>4, <1>5
  DEF Boots, BootStarts, ReadSeedImported, CountPools, CountProfiles, Reads, BootImports,
      BootMarks, BootEnds, Writes
<1>6. CASE Administer
  BY <1>1, <1>6, AdministerEdits DEF Edits
<1>7. CASE Imports
  BY <1>2, <1>3, <1>4, <1>6, <1>7 DEF Imports, ImportCommand, ImportCommandMarks, Writes
<1>8. CASE Exporting
  BY <1>2, <1>8
  DEF Exporting, ExportCommand, ExportProfiles, ExportPools, ExportRenovate, ExportEnds, Exports
<1> QED  BY <1>5, <1>7, <1>8 DEF Seeds

\* Every step of seeds keeps the invariant of the tables.
LEMMA SeedsKeep ==
  ASSUME TableInv, Seeds PROVE TableInv'
<1>1. IsTables(tables') /\ tables'.jobs \subseteq tables.jobs  BY SeedsEdit
<1>2. UNCHANGED <<historyVars, mix>>  BY DEF Seeds
<1>3. LogInv'  BY <1>1, <1>2, LogsStay DEF TableInv, historyVars
<1> SUFFICES SeedInv'  BY <1>3 DEF TableInv
<1>4. CASE mix = "seed" /\ Boots  BY <1>2, <1>4, BootsKeep DEF TableInv
<1>5. CASE mix \in {"seed", "export"} /\ Imports  BY <1>2, <1>5, ImportsKeep DEF TableInv
<1>6. CASE mix = "export" /\ Exporting
  <2>1. UNCHANGED <<tables, boot, importer, passed, overlooked>>
    BY <1>6
    DEF Exporting, ExportCommand, ExportProfiles, ExportPools, ExportRenovate, ExportEnds, Exports
  <2> QED  BY <1>1, <1>2, <2>1, SeedsStay DEF TableInv
<1> QED  BY <1>4, <1>5, <1>6 DEF Seeds

\* The inductive invariant of the tables, for whoever imports, administers,
\* exports, records or prunes.
THEOREM TableInvariance == Spec => []TableInv
<1>1. Init => TableInv  BY TablesStart
<1>2. ASSUME TableInv, Histories PROVE TableInv'
  <2>1. LogInv'  BY <1>2, HistoriesKeep DEF TableInv
  <2>2. IsTables(tables') /\ mix # "seed"  BY <1>2, <2>1 DEF LogInv, Histories
  <2>3. SeedInv'  BY <1>2, <2>2, SeedsStay DEF TableInv, Histories, seedVars
  <2> QED  BY <2>1, <2>3 DEF TableInv
<1>3. ASSUME TableInv, UNCHANGED <<tables, seedVars, historyVars, mix>> PROVE TableInv'
  <2>1. IsTables(tables)  BY <1>3 DEF TableInv, SeedInv
  <2> QED  BY <1>3, <2>1, SeedsStay, LogsStay DEF TableInv, seedVars, historyVars
<1>4. TableInv /\ [Next]_vars => TableInv'
  BY <1>2, <1>3, SeedsKeep DEF Next, Renovates, Snapshots, vars
<1> QED  BY <1>1, <1>4, PTL DEF Spec

----------------------------------------------------------------------------
(* The order of the rows.                                                  *)

\* A row's place in ORDER BY id DESC.
Rank(js, r) == Cardinality(RowsBefore(js, r))

Identified(js) ==
  /\ IsFiniteSet(js)
  /\ \A r \in js : r.id \in Nat
  /\ \A r, q \in js : r.id = q.id => r = q

\* The rank of a row is a number below the number of rows.
LEMMA RankIs ==
  ASSUME NEW js, Identified(js), NEW r \in js
  PROVE  /\ IsFiniteSet(RowsBefore(js, r)) /\ Rank(js, r) \in Nat
         /\ Rank(js, r) < Cardinality(js) /\ Cardinality(js) \in Nat
<1> DEFINE B == RowsBefore(js, r)
<1>1. IsFiniteSet(js) /\ r.id \in Nat  BY DEF Identified
<1>2. B \in SUBSET js /\ r \notin B  BY <1>1 DEF RowsBefore
<1> HIDE DEF B
<1>3. IsFiniteSet(B) /\ Cardinality(B) <= Cardinality(js) /\ Cardinality(js) # Cardinality(B)
  BY <1>1, <1>2, FS_Subset
<1>4. Cardinality(B) \in Nat /\ Cardinality(js) \in Nat  BY <1>1, <1>3, FS_CardinalityType
<1> QED  BY <1>3, <1>4 DEF B, Rank

\* No two rows have one place.
LEMMA RankOrders ==
  ASSUME NEW js, Identified(js), NEW r \in js, NEW q \in js, q.id > r.id
  PROVE  Rank(js, q) < Rank(js, r)
<1> DEFINE B == RowsBefore(js, r)
           C == RowsBefore(js, q)
<1>1. \A x \in js : x.id \in Nat  BY DEF Identified
<1>2. C \in SUBSET B /\ q \in B /\ q \notin C  BY <1>1 DEF RowsBefore
<1>3. IsFiniteSet(B) /\ IsFiniteSet(C)  BY RankIs
<1> HIDE DEF B, C
<1>4. Cardinality(C) <= Cardinality(B) /\ Cardinality(B) # Cardinality(C)
  BY <1>2, <1>3, FS_Subset
<1>5. Cardinality(B) \in Nat /\ Cardinality(C) \in Nat  BY <1>3, FS_CardinalityType
<1> QED  BY <1>4, <1>5 DEF B, C, Rank

\* No two rows of the table have the same rank.
LEMMA RankOne ==
  ASSUME NEW js, Identified(js), NEW r \in js, NEW q \in js, Rank(js, q) = Rank(js, r)
  PROVE  r = q
<1>1. Rank(js, r) \in Nat /\ r.id \in Nat /\ q.id \in Nat  BY RankIs DEF Identified
<1>2. ~(Rank(js, q) < Rank(js, r)) /\ ~(Rank(js, r) < Rank(js, q))  BY <1>1
<1>3. ~(q.id > r.id) /\ ~(r.id > q.id)  BY <1>2, RankOrders
<1>4. r.id = q.id  BY <1>1, <1>3
<1> QED  BY <1>4 DEF Identified

\* Of some rows, one is the oldest.
LEMMA OldestRow ==
  ASSUME NEW js, js # {}, \A r \in js : r.id \in Nat
  PROVE  \E q \in js : \A x \in js : q.id <= x.id
<1> DEFINE ids == {x.id : x \in js}
<1>1. PICK r \in js : TRUE  OBVIOUS
<1>2. ids \in SUBSET Nat /\ r.id \in ids  OBVIOUS
<1>3. PICK n \in ids : \A m \in ids : n <= m
  <2>1. ids # {}  BY <1>2
  <2> HIDE DEF ids
  <2> QED  BY <1>2, <2>1, LeastNumber
<1>4. PICK q \in js : n = q.id  OBVIOUS
<1>5. \A x \in js : x.id \in ids  OBVIOUS
<1> QED  BY <1>3, <1>4, <1>5

\* Every place up to the number of rows is taken.
LEMMA RankOnto ==
  ASSUME NEW js, Identified(js), NEW k \in Nat, k < Cardinality(js)
  PROVE  \E r \in js : Rank(js, r) = k
<1> DEFINE n == Cardinality(js)
           Taken(m) == \E r \in js : Rank(js, r) = m
           T == {m \in Nat : m < n => Taken((n - 1) - m)}
<1>1. IsFiniteSet(js) /\ n \in Nat  BY FS_CardinalityType DEF Identified
<1>2. n > 0  BY <1>1
<1>3. 0 \in T
  <2>1. js # {}  BY <1>1, <1>2, FS_EmptySet
  <2>2. PICK q \in js : \A x \in js : q.id <= x.id  BY <2>1, OldestRow DEF Identified
  <2>3. RowsBefore(js, q) = js \ {q}
    <3>1. \A x \in js : x.id \in Nat /\ (x.id = q.id => x = q)  BY DEF Identified
    <3>2. \A x \in js : x.id > q.id <=> x # q  BY <2>2, <3>1
    <3> QED  BY <3>2 DEF RowsBefore
  <2>4. Cardinality(js \ {q}) = n - 1  BY <1>1, FS_RemoveElement
  <2>5. Rank(js, q) = (n - 1) - 0  BY <1>1, <2>3, <2>4 DEF Rank
  <2>6. Taken((n - 1) - 0)  BY <2>5
  <2> QED  BY <2>6
<1>4. ASSUME NEW m \in Nat, m \in T PROVE m + 1 \in T
  <2> SUFFICES ASSUME m + 1 < n PROVE Taken((n - 1) - (m + 1))  OBVIOUS
  <2>1. m < n  BY <1>1
  <2>2. PICK r \in js : Rank(js, r) = (n - 1) - m  BY <1>4, <2>1
  <2> DEFINE B == RowsBefore(js, r)
  <2>3. IsFiniteSet(B) /\ Cardinality(B) = (n - 1) - m  BY <2>2, RankIs DEF Rank
  <2>4. B # {}
    <3>1. Cardinality(B) # 0  BY <1>1, <2>3
    <3> HIDE DEF B
    <3> QED  BY <3>1, FS_EmptySet
  <2>5. \A x \in B : x \in js /\ x.id \in Nat /\ x.id > r.id  BY DEF RowsBefore, Identified
  <2>6. PICK q \in B : \A x \in B : q.id <= x.id
    <3> HIDE DEF B
    <3> QED  BY <2>4, <2>5, OldestRow
  <2>7. RowsBefore(js, q) = B \ {q}
    <3>1. \A x \in js : x.id \in Nat /\ (x.id = q.id => x = q)  BY <2>5 DEF Identified
    <3>2. q \in js /\ q.id > r.id /\ r.id \in Nat  BY <2>5 DEF Identified
    <3>3. \A x \in js : x.id > q.id <=> x \in B /\ x # q
      <4> TAKE x \in js
      <4>1. x.id \in Nat /\ q.id \in Nat  BY <3>1, <3>2
      <4>2. ASSUME x.id > q.id PROVE x \in B /\ x # q
        <5>1. x.id > r.id  BY <3>2, <4>1, <4>2
        <5>2. x # q  BY <4>1, <4>2
        <5> QED  BY <5>1, <5>2 DEF RowsBefore
      <4>3. ASSUME x \in B, x # q PROVE x.id > q.id
        <5>1. q.id <= x.id  BY <2>6, <4>3
        <5>2. x.id # q.id  BY <3>1, <4>3
        <5> QED  BY <4>1, <5>1, <5>2
      <4> QED  BY <4>2, <4>3
    <3>4. B \subseteq js  BY <2>5
    <3> HIDE DEF B
    <3> QED  BY <3>3, <3>4 DEF RowsBefore
  <2> HIDE DEF B
  <2>8. Cardinality(B \ {q}) = ((n - 1) - m) - 1  BY <2>3, FS_RemoveElement
  <2>9. Rank(js, q) = (n - 1) - (m + 1)  BY <1>1, <2>7, <2>8 DEF Rank
  <2> QED  BY <2>5, <2>9
<1>5. (n - 1) - k \in Nat /\ (n - 1) - k < n /\ (n - 1) - ((n - 1) - k) = k  BY <1>1
<1>6. (n - 1) - k \in T
  <2> HIDE DEF T
  <2> QED  BY <1>3, <1>4, <1>5, NatSet
<1> QED  BY <1>5, <1>6

\* The rows of a page: as many as were asked for, if there is a row after it.
LEMMA FullPage ==
  ASSUME NEW js, Identified(js), NEW o \in Nat, NEW l \in Nat \ {0},
         NEW r \in js, Rank(js, r) >= o + l
  PROVE  Cardinality({x \in js : Rank(js, x) \in o..(o + l - 1)}) = l
<1> DEFINE P == {x \in js : Rank(js, x) \in o..(o + l - 1)}
           I == o..(o + l - 1)
           f == [x \in P |-> Rank(js, x)]
<1>1. Rank(js, r) \in Nat /\ Cardinality(js) \in Nat /\ Rank(js, r) < Cardinality(js)  BY RankIs
<1>2. IsFiniteSet(I) /\ Cardinality(I) = l  BY FS_Interval
<1>3. f \in [P -> I]  OBVIOUS
<1>4. \A x, y \in P : f[x] = f[y] => x = y  BY RankOne
<1>5. ASSUME NEW k \in I PROVE \E x \in P : f[x] = k
  <2>1. k \in Nat /\ k < Cardinality(js)  BY <1>1
  <2>2. PICK x \in js : Rank(js, x) = k  BY <2>1, RankOnto
  <2> QED  BY <2>2
<1> HIDE DEF P, I, f
<1>6. Cardinality(P) = Cardinality(I)  BY <1>2, <1>3, <1>4, <1>5, SameSize
<1> QED  BY <1>2, <1>6 DEF P, I

\* The trend of the rows js, and what its hours add up to.
Trend(js) == [h \in {r.at : r \in js} |-> Counts({r \in js : r.at = h})]
TrendTotal(hours) ==
  Cardinality(UNION {{<<h, n>> : n \in 1..hours[h].total} : h \in DOMAIN hours})

\* The hours of the trend add up to the rows.
LEMMA TrendAddsUp ==
  ASSUME NEW js, Identified(js), NEW hours, hours = Trend(js)
  PROVE  Cardinality(js) = TrendTotal(hours)
<1> DEFINE J(h) == {r \in js : r.at = h}
           U == UNION {{<<h, n>> : n \in 1..hours[h].total} : h \in DOMAIN hours}
           f == [r \in js |-> <<r.at, Rank(J(r.at), r) + 1>>]
<1>1. \A h : Identified(J(h)) /\ IsFiniteSet(J(h)) /\ Cardinality(J(h)) \in Nat
  <2> TAKE h
  <2>1. J(h) \in SUBSET js /\ IsFiniteSet(js)  BY DEF Identified
  <2>2. IsFiniteSet(J(h))  BY <2>1, FS_Subset
  <2>3. Cardinality(J(h)) \in Nat  BY <2>2, FS_CardinalityType
  <2>4. Identified(J(h))  BY <2>2 DEF Identified
  <2> QED  BY <2>2, <2>3, <2>4
<1>2. DOMAIN hours = {r.at : r \in js} /\ \A h \in DOMAIN hours : hours[h].total = Cardinality(J(h))
  <2>1. ASSUME NEW k PROVE Counts(k).total = Cardinality(k)
    <3> DEFINE a == Cardinality(k)
               b == Cardinality({r \in k : r.status = "success"})
               c == Cardinality({r \in k : r.status = "failure"})
    <3>1. Counts(k) = [total |-> a, successful |-> b, failed |-> c]  BY DEF Counts
    <3> HIDE DEF b, c
    <3> QED  BY <3>1
  <2>2. hours = [h \in {r.at : r \in js} |-> Counts(J(h))]  BY Zenon DEF Trend
  <2> HIDE DEF J
  <2> QED  BY <2>1, <2>2
<1>3. \A r \in js : r \in J(r.at) /\ r.at \in DOMAIN hours  BY <1>2
<1>4. \A r \in js : Rank(J(r.at), r) \in Nat /\ Rank(J(r.at), r) < Cardinality(J(r.at))
  <2> HIDE DEF J
  <2> QED  BY <1>1, <1>3, RankIs
<1>5. \A h, r : r \in J(h) => r \in js /\ r.at = h  OBVIOUS
<1> DEFINE Within(h, n) == h \in DOMAIN hours /\ n \in 1..hours[h].total
<1>6. /\ \A z \in U : \E h, n : Within(h, n) /\ z = <<h, n>>
      /\ \A h, n : Within(h, n) => <<h, n>> \in U
  <2> DEFINE N(h) == 1..hours[h].total
             part(h) == {<<h, n>> : n \in N(h)}
  <2>1. U = UNION {part(h) : h \in DOMAIN hours}  OBVIOUS
  <2>2. \A h : \A z \in part(h) : \E n \in N(h) : z = <<h, n>>  OBVIOUS
  <2>3. \A h : \A n \in N(h) : <<h, n>> \in part(h)  OBVIOUS
  <2>7. \A h, n : Within(h, n) <=> h \in DOMAIN hours /\ n \in N(h)  OBVIOUS
  <2> HIDE DEF part, U, N, Within
  <2>4. \A z : z \in U <=> \E h \in DOMAIN hours : z \in part(h)  BY <2>1
  <2>5. ASSUME NEW z \in U PROVE \E h, n : Within(h, n) /\ z = <<h, n>>
    <3>1. PICK h \in DOMAIN hours : z \in part(h)  BY <2>4
    <3>2. PICK n \in N(h) : z = <<h, n>>  BY <2>2, <3>1
    <3> QED  BY <2>7, <3>2
  <2>6. ASSUME NEW h, NEW n, Within(h, n) PROVE <<h, n>> \in U
    <3>1. <<h, n>> \in part(h)  BY <2>3, <2>6, <2>7
    <3> QED  BY <2>4, <2>6, <2>7, <3>1
  <2> QED  BY <2>5, <2>6, Zenon
<1> HIDE DEF J, U
<1>7. ASSUME NEW r \in js PROVE f[r] \in U
  <2> DEFINE n == Rank(J(r.at), r) + 1
  <2>1. n \in 1..hours[r.at].total  BY <1>1, <1>2, <1>3, <1>4
  <2>2. f[r] = <<r.at, n>>  OBVIOUS
  <2> HIDE DEF n, f
  <2>3. Within(r.at, n)  BY <1>3, <2>1
  <2> HIDE DEF Within
  <2> QED  BY <1>6, <2>2, <2>3, Zenon
<1>8. f \in [js -> U]  BY <1>7
<1>9. ASSUME NEW x \in js, NEW y \in js, f[x] = f[y] PROVE x = y
  <2>1. x.at = y.at /\ Rank(J(x.at), x) + 1 = Rank(J(y.at), y) + 1  BY <1>9
  <2>2. Rank(J(x.at), x) = Rank(J(x.at), y)  BY <1>4, <2>1
  <2>3. x \in J(x.at) /\ y \in J(x.at)  BY <1>3, <2>1
  <2> QED  BY <1>1, <2>2, <2>3, RankOne
<1>10. ASSUME NEW z \in U PROVE \E x \in js : f[x] = z
  <2>1. PICK h, n : Within(h, n) /\ z = <<h, n>>
    <3> HIDE DEF Within
    <3> QED  BY <1>6, Zenon
  <2>2. n - 1 \in Nat /\ n - 1 < Cardinality(J(h))  BY <1>1, <1>2, <2>1
  <2>3. PICK x \in J(h) : Rank(J(h), x) = n - 1  BY <1>1, <2>2, RankOnto
  <2>4. x \in js /\ x.at = h  BY <1>5
  <2>5. f[x] = <<h, (n - 1) + 1>>  BY <2>3, <2>4
  <2>6. (n - 1) + 1 = n  BY <1>1, <1>2, <2>1
  <2> QED  BY <2>1, <2>4, <2>5, <2>6
<1>11. IsFiniteSet(js)  BY DEF Identified
<1> HIDE DEF f
<1>12. Cardinality(js) = Cardinality(U)  BY <1>8, <1>9, <1>10, <1>11, SameSize
<1> QED  BY <1>12, Zenon DEF TrendTotal, U

----------------------------------------------------------------------------
(* Readers of the history.                                                 *)

HistoryMixes == {"logs", "outputs", "browse", "watch"}

\* The rows have identifiers of their own, and a later one is of no earlier
\* day: what the retention takes are the last rows of the order.
Ordered(t, d) ==
  /\ t.ids.job \in Nat /\ t.settings.job_retention_days \in Int
  /\ Identified(t.jobs)
  /\ \A r \in t.jobs : r.id <= t.ids.job /\ r.at \in Int /\ r.at <= d
  /\ \A r, q \in t.jobs : r.id < q.id => r.at <= q.at

\* A row that the client p has seen, has in its hands or will see: it is not
\* before the place where the client goes on.
Reached(p, js, r) ==
  \/ r.id \in p.seen
  \/ p.pc = "search" /\ Rank(js, r) >= p.offset
  \/ /\ p.pc = "names"
     /\ \/ r.id \in {x.id : x \in p.jobs}
        \/ Cardinality(p.jobs) = Limit(PageSize) /\ Rank(js, r) >= p.offset + Limit(PageSize)

PagerInv(p, t, c) ==
  /\ p = [pc |-> p.pc, offset |-> p.offset, seen |-> p.seen, first |-> p.first, jobs |-> p.jobs]
  /\ p.offset \in Nat
  /\ \A i \in p.first : i \in Nat /\ i <= t.ids.job
  /\ ~c => \A r \in t.jobs : r.id \in p.first => Reached(p, t.jobs, r)

\* The totals are still those of the tables, or the answer is of two moments.
StatsInv(s, t) ==
  /\ s = [pc |-> s.pc, totals |-> s.totals, hours |-> s.hours, clean |-> s.clean]
  /\ s.pc = "hours" /\ s.clean => s.totals = GetJobStatsSince(t, s.hours)
  /\ s.pc = "done" /\ s.clean =>
       s.totals.total =
         Cardinality(UNION {{<<h, n>> : n \in 1..s.hours[h].total} : h \in DOMAIN s.hours})

ReaderInv ==
  /\ pruner.cutoff \in Int
  /\ mix \in HistoryMixes =>
       day \in Nat /\ Ordered(tables, day) /\ PagerInv(pager, tables, cascaded)
  /\ StatsInv(stats, tables)
  /\ mix \notin HistoryMixes => pager = NoPage /\ stats = NoStats

\* What the statements of the history leave alone.
LEMMA HistoryEdits ==
  ASSUME NEW t, IsTables(t), NEW id, NEW c
  PROVE  /\ DeleteRunnerPool(t, id).jobs \subseteq t.jobs
         /\ DeleteRunnerPool(t, id).ids = t.ids
         /\ DeleteRunnerPool(t, id).settings = t.settings
         /\ PruneJobHistoryOlderThan(t, c).jobs = t.jobs \ Expired(t, c)
         /\ PruneJobHistoryOlderThan(t, c).ids = t.ids
         /\ PruneJobHistoryOlderThan(t, c).settings = t.settings
<1>2. ASSUME NEW e, NEW u, u = [t EXCEPT !.jobs = e]
      PROVE  u.jobs = e /\ u.ids = t.ids /\ u.settings = t.settings
  BY <1>2 DEF IsTables
<1>3. /\ DeleteRunnerPool(t, id).jobs = {r \in t.jobs : r.pool # id}
      /\ DeleteRunnerPool(t, id).ids = t.ids /\ DeleteRunnerPool(t, id).settings = t.settings
  <2> DEFINE a == {r \in t.pools : r.id # id}
             b == {r \in t.targets : r.pool # id}
             d == {r \in t.renovate : r.pool # id}
             e == {r \in t.jobs : r.pool # id}
             u == DeleteRunnerPool(t, id)
  <2>1. u = [t EXCEPT !.pools = a, !.targets = b, !.renovate = d, !.jobs = e]
    BY DEF DeleteRunnerPool
  <2> HIDE DEF a, b, d, u
  <2>2. u.jobs = e /\ u.ids = t.ids /\ u.settings = t.settings
    <3> HIDE DEF e
    <3> QED  BY <2>1 DEF IsTables
  <2> QED  BY <2>2 DEF u
<1>4. /\ PruneJobHistoryOlderThan(t, c).jobs = t.jobs \ Expired(t, c)
      /\ PruneJobHistoryOlderThan(t, c).ids = t.ids
      /\ PruneJobHistoryOlderThan(t, c).settings = t.settings
  BY <1>2 DEF PruneJobHistoryOlderThan
<1> QED  BY <1>3, <1>4

\* The row that is created is the newest.
LEMMA CreatedLast ==
  ASSUME NEW t, IsTables(t), NEW r, NEW path, NEW d, NEW u,
         u = CreateJobHistory(t, 1, r, "timeout", path, d)
  PROVE  \/ u = t
         \/ \E q : /\ q.id = t.ids.job + 1 /\ q.at = d /\ u.jobs = t.jobs \cup {q}
                   /\ u.ids.job = t.ids.job + 1 /\ u.settings = t.settings
<1> DEFINE n == t.ids.job + 1
           q == [id |-> n, pool |-> 1, runner |-> r, status |-> "timeout", path |-> path, at |-> d]
<1>1. CASE \A p \in t.pools : p.id # 1  BY <1>1 DEF CreateJobHistory
<1>2. CASE ~ \A p \in t.pools : p.id # 1
  <2>1. u = [t EXCEPT !.ids.job = n, !.jobs = @ \cup {q}]  BY <1>2 DEF CreateJobHistory
  <2>3. q.id = n /\ q.at = d  OBVIOUS
  <2> HIDE DEF q, n
  <2>4. u.jobs = t.jobs \cup {q} /\ u.ids.job = n /\ u.settings = t.settings
    BY <2>1 DEF IsTables
  <2> QED  BY <2>3, <2>4 DEF n
<1> QED  BY <1>1, <1>2

\* The tables when history is looked at.
LEMMA OnePoolIs ==
  OnePool.ids.job = 0 /\ OnePool.settings.job_retention_days = 1
<1> DEFINE profile == [name |-> "ci", method |-> "pat", app |-> 0, key |-> "", token |-> "t"]
           pool == [name |-> "web", provider |-> "github", url |-> "u", scope |-> "repo",
                    auth |-> 1, idle |-> 1, max |-> 1,
                    labels |-> [form |-> "comma", labels |-> {{"a"}}], image |-> "aio"]
           t == CreateAuthProfile(EmptyTables, profile)
           u == CreateRunnerPool(t, pool)
<1>1. OnePool = SetAppSetting(u, "job_retention_days", 1)  BY DEF OnePool
<1> HIDE DEF profile, pool
<1>2. IsTables(EmptyTables) /\ EmptyTables.ids.job = 0  BY DEF EmptyTables, IsTables
<1>3. ASSUME NEW v, IsTables(v), NEW a, NEW b
      PROVE  /\ [v EXCEPT !.ids.profile = a, !.profiles = b].ids.job = v.ids.job
             /\ [v EXCEPT !.ids.pool = a, !.pools = b].ids.job = v.ids.job
  BY <1>3 DEF IsTables
<1>9. ASSUME NEW v, IsTables(v), NEW p
      PROVE  CreateAuthProfile(v, p).ids.job = v.ids.job /\ CreateRunnerPool(v, p).ids.job = v.ids.job
  <2> DEFINE a == v.ids.profile + 1
             b == v.profiles \cup {[id |-> a, name |-> p.name, method |-> p.method,
                                    app |-> p.app, key |-> p.key, token |-> p.token]}
             c == v.ids.pool + 1
             d == v.pools \cup {PoolRow(c, p)}
  <2>1. CreateAuthProfile(v, p) = IF Named(v.profiles, p.name) # {} THEN v
                                  ELSE [v EXCEPT !.ids.profile = a, !.profiles = b]
    BY DEF CreateAuthProfile
  <2>2. CreateRunnerPool(v, p) =
          IF Named(v.pools, p.name) # {} \/ \A r \in v.profiles : r.id # p.auth THEN v
          ELSE [v EXCEPT !.ids.pool = c, !.pools = d]
    BY DEF CreateRunnerPool
  <2> HIDE DEF a, b, c, d
  <2>3. CreateAuthProfile(v, p).ids.job = v.ids.job  BY <1>3, <1>9, <2>1
  <2>4. CreateRunnerPool(v, p).ids.job = v.ids.job  BY <1>3, <1>9, <2>2
  <2> QED  BY <2>3, <2>4
<1>4. Edits(EmptyTables, t) /\ t.ids.job = 0
  BY <1>2, <1>9, ProfileEdits
<1>5. IsTables(t)  BY <1>4 DEF Edits
<1> HIDE DEF t
<1>6. Edits(t, u) /\ u.ids.job = 0  BY <1>4, <1>5, <1>9, PoolEdits
<1>7. IsTables(u)  BY <1>6 DEF Edits
<1> HIDE DEF u
<1>8. ASSUME NEW v, IsTables(v)
      PROVE  /\ [v EXCEPT !.settings["job_retention_days"] = 1].ids = v.ids
             /\ [v EXCEPT !.settings["job_retention_days"] = 1].settings.job_retention_days = 1
  BY <1>8 DEF IsTables
<1> QED  BY <1>1, <1>6, <1>7, <1>8 DEF SetAppSetting

\* Rows go, and days pass.
LEMMA OrderStays ==
  ASSUME NEW t, NEW d \in Nat, Ordered(t, d), NEW u, u.jobs \subseteq t.jobs,
         u.ids.job = t.ids.job, u.settings = t.settings, NEW e \in Nat, d <= e
  PROVE  Ordered(u, e)
<1>1. Identified(u.jobs)
  <2>1. u.jobs \in SUBSET t.jobs /\ IsFiniteSet(t.jobs)  BY DEF Ordered, Identified
  <2>2. IsFiniteSet(u.jobs)  BY <2>1, FS_Subset
  <2> QED  BY <2>1, <2>2 DEF Ordered, Identified
<1>2. \A r \in u.jobs : r.id <= u.ids.job /\ r.at \in Int /\ r.at <= e
  <2>1. \A r \in t.jobs : r.id <= t.ids.job /\ r.at \in Int /\ r.at <= d  BY DEF Ordered
  <2> QED  BY <2>1
<1> QED  BY <1>1, <1>2 DEF Ordered

\* A row comes.
LEMMA OrderGrows ==
  ASSUME NEW t, NEW d \in Nat, Ordered(t, d), NEW u, NEW q,
         q.id = t.ids.job + 1, q.at = d, u.jobs = t.jobs \cup {q},
         u.ids.job = t.ids.job + 1, u.settings = t.settings
  PROVE  Ordered(u, d) /\ \A r \in t.jobs : r.id < q.id
<1>1. t.ids.job \in Nat /\ u.ids.job \in Nat  BY DEF Ordered
<1>2. \A r \in t.jobs : r.id \in Nat /\ r.id <= t.ids.job /\ r.at \in Int /\ r.at <= d
  BY DEF Ordered, Identified
<1>3. \A r \in t.jobs : r.id < q.id /\ r.id # q.id /\ ~(q.id < r.id)  BY <1>1, <1>2
<1>4. IsFiniteSet(u.jobs)  BY FS_AddElement DEF Ordered, Identified
<1>5. \A r \in u.jobs : r \in t.jobs \/ r = q  OBVIOUS
<1>6. \A r \in u.jobs : r.id \in Nat /\ r.id <= u.ids.job /\ r.at \in Int /\ r.at <= d
  BY <1>1, <1>2, <1>5
<1>7. \A r, x \in u.jobs : r.id = x.id => r = x
  BY <1>3, <1>5 DEF Ordered, Identified
<1>8. \A r, x \in u.jobs : r.id < x.id => r.at <= x.at
  <2> SUFFICES ASSUME NEW r \in u.jobs, NEW x \in u.jobs, r.id < x.id PROVE r.at <= x.at
    OBVIOUS
  <2>1. CASE x \in t.jobs
    <3>1. r \in t.jobs  BY <1>1, <1>3, <1>5, <2>1
    <3> QED  BY <2>1, <3>1 DEF Ordered
  <2>2. CASE x = q
    <3>1. r.at <= d  BY <1>6
    <3> QED  BY <2>2, <3>1
  <2> QED  BY <1>5, <2>1, <2>2
<1>9. Identified(u.jobs)  BY <1>4, <1>6, <1>7 DEF Identified
<1> QED  BY <1>1, <1>3, <1>6, <1>8, <1>9 DEF Ordered

\* The limit of a request is a positive number.
LEMMA LimitIs == Limit(PageSize) \in Nat \ {0}
  BY HistoryAssumption DEF Limit

\* A row that moves to a later place is still ahead of the client.
LEMMA ReachedLater ==
  ASSUME NEW p, p.offset \in Nat, NEW js, NEW ks, NEW r, Reached(p, js, r),
         Rank(js, r) \in Nat, Rank(ks, r) \in Nat, Rank(ks, r) >= Rank(js, r)
  PROVE  Reached(p, ks, r)
<1> DEFINE l == Limit(PageSize)
<1>1. l \in Nat  BY LimitIs
<1> HIDE DEF l
<1>2. /\ Rank(js, r) >= p.offset => Rank(ks, r) >= p.offset
      /\ Rank(js, r) >= p.offset + l => Rank(ks, r) >= p.offset + l
  BY <1>1
<1> QED  BY <1>2 DEF Reached, l

\* A newer row only pushes the unread rows further down the list.
LEMMA PagerAndNewRow ==
  ASSUME NEW t, NEW d \in Nat, Ordered(t, d), NEW u, NEW q,
         q.id = t.ids.job + 1, q.at = d, u.jobs = t.jobs \cup {q},
         u.ids.job = t.ids.job + 1, u.settings = t.settings,
         NEW p, NEW c, PagerInv(p, t, c)
  PROVE  PagerInv(p, u, c)
<1>1. Ordered(u, d) /\ \A r \in t.jobs : r.id < q.id  BY OrderGrows
<1>2. t.ids.job \in Nat  BY DEF Ordered
<1>3. \A i \in p.first : i \in Nat /\ i <= t.ids.job  BY DEF PagerInv
<1>4. (\A i \in p.first : i \in Nat /\ i <= u.ids.job) /\ q.id \notin p.first  BY <1>2, <1>3
<1>5. ASSUME ~c, NEW r \in u.jobs, r.id \in p.first PROVE Reached(p, u.jobs, r)
  <2>1. r \in t.jobs  BY <1>4, <1>5
  <2>2. Reached(p, t.jobs, r) /\ p.offset \in Nat  BY <1>5, <2>1 DEF PagerInv
  <2>3. Identified(t.jobs) /\ Identified(u.jobs)  BY <1>1 DEF Ordered
  <2>4. Rank(t.jobs, r) \in Nat /\ Rank(u.jobs, r) \in Nat /\ IsFiniteSet(RowsBefore(u.jobs, r))
    BY <2>1, <2>3, RankIs
  <2>5. RowsBefore(t.jobs, r) \in SUBSET RowsBefore(u.jobs, r)  BY DEF RowsBefore
  <2>6. Rank(t.jobs, r) <= Rank(u.jobs, r)  BY <2>4, <2>5, FS_Subset DEF Rank
  <2>7. Rank(u.jobs, r) >= Rank(t.jobs, r)  BY <2>4, <2>6
  <2> QED  BY <2>2, <2>4, <2>7, ReachedLater
<1> QED  BY <1>4, <1>5 DEF PagerInv

\* The retention takes the last rows of the order: the others keep their rank.
LEMMA PagerAndPrune ==
  ASSUME NEW t, NEW d \in Nat, Ordered(t, d), NEW u, NEW e \in Int,
         u.jobs = t.jobs \ Expired(t, e), u.ids.job = t.ids.job,
         NEW p, NEW c, PagerInv(p, t, c)
  PROVE  PagerInv(p, u, c)
<1>1. ASSUME NEW r \in u.jobs PROVE RowsBefore(u.jobs, r) = RowsBefore(t.jobs, r)
  <2>1. r \in t.jobs /\ r.at \in Int /\ r.id \in Nat  BY DEF Ordered, Identified
  <2>2. r.at >= e  BY <2>1 DEF Expired
  <2>3. ASSUME NEW x \in t.jobs, x.id > r.id PROVE x \in u.jobs
    <3>1. x.at \in Int /\ x.id \in Nat /\ r.id < x.id  BY <2>1, <2>3 DEF Ordered, Identified
    <3>2. r.at <= x.at  BY <2>1, <3>1 DEF Ordered
    <3>3. ~(x.at < e)  BY <2>1, <2>2, <3>1, <3>2
    <3> QED  BY <3>3 DEF Expired
  <2> QED  BY <2>3 DEF RowsBefore
<1>2. ASSUME ~c, NEW r \in u.jobs, r.id \in p.first PROVE Reached(p, u.jobs, r)
  <2>1. Reached(p, t.jobs, r)  BY <1>2 DEF PagerInv
  <2>2. Rank(u.jobs, r) = Rank(t.jobs, r)  BY <1>1 DEF Rank
  <2> QED  BY <2>1, <2>2 DEF Reached
<1> QED  BY <1>2 DEF PagerInv

\* Once rows went with their pool the client is promised nothing.
LEMMA PagerAndCascade ==
  ASSUME NEW t, NEW u, u.ids.job = t.ids.job, NEW p, NEW c, PagerInv(p, t, c)
  PROVE  PagerInv(p, u, TRUE)
  BY DEF PagerInv

\* A client that has not asked has seen nothing.
LEMMA NoPager == ASSUME NEW t, NEW c PROVE PagerInv(NoPage, t, c)
<1>1. /\ NoPage = [pc |-> NoPage.pc, offset |-> NoPage.offset, seen |-> NoPage.seen,
                   first |-> NoPage.first, jobs |-> NoPage.jobs]
      /\ NoPage.offset = 0 /\ NoPage.first = {}
  BY DEF NoPage
<1> QED  BY <1>1 DEF PagerInv

\* A client asks for the first page, ...
LEMMA PageStarts ==
  ASSUME NEW f, NEW w, w = [NoPage EXCEPT !.pc = "search", !.first = f]
  PROVE  /\ w = [pc |-> w.pc, offset |-> w.offset, seen |-> w.seen, first |-> w.first, jobs |-> w.jobs]
         /\ w.pc = "search" /\ w.offset = 0 /\ w.first = f
  BY DEF NoPage

\* Before the first page every row is still to come.
LEMMA FirstPage ==
  ASSUME NEW t, NEW d \in Nat, Ordered(t, d), NEW c, NEW f, f = {r.id : r \in t.jobs},
         NEW w, /\ w = [pc |-> w.pc, offset |-> w.offset, seen |-> w.seen, first |-> w.first, jobs |-> w.jobs]
                /\ w.pc = "search" /\ w.offset = 0 /\ w.first = f
  PROVE  PagerInv(w, t, c)
<1>1. \A i \in f : i \in Nat /\ i <= t.ids.job  BY DEF Ordered, Identified
<1>2. ASSUME NEW r \in t.jobs PROVE Reached(w, t.jobs, r)
  <2>1. Rank(t.jobs, r) \in Nat  BY RankIs DEF Ordered
  <2>2. Rank(t.jobs, r) >= w.offset /\ w.pc = "search"  BY <2>1
  <2> QED  BY <2>2 DEF Reached
<1> QED  BY <1>1, <1>2 DEF PagerInv

\* ... reads one, which is full if a row is left after it, ...
LEMMA PageRead ==
  ASSUME NEW t, NEW d \in Nat, Ordered(t, d), NEW p, NEW c, PagerInv(p, t, c), p.pc = "search",
         NEW w, w = [p EXCEPT !.pc = "names",
                       !.jobs = SearchJobHistory(t, Everything, Limit(PageSize), p.offset)]
  PROVE  PagerInv(w, t, c)
<1> DEFINE l == Limit(PageSize)
           o == p.offset
           P == {x \in t.jobs : Rank(t.jobs, x) \in o..(o + l - 1)}
<1>1. l \in Nat \ {0} /\ o \in Nat /\ Identified(t.jobs)  BY LimitIs DEF PagerInv, Ordered
<1>2. Searched(t, Everything) = t.jobs
  <2>1. Everything.pool = 0 /\ Everything.status = "" /\ Everything.search = ""  BY DEF Everything
  <2> QED  BY <2>1 DEF Searched
<1>3. SearchJobHistory(t, Everything, l, o) = P  BY <1>2 DEF SearchJobHistory, Rank
<1>4. w = [p EXCEPT !.pc = "names", !.jobs = P]  BY <1>3
<1> HIDE DEF P
<1>5. /\ w = [pc |-> w.pc, offset |-> w.offset, seen |-> w.seen, first |-> w.first, jobs |-> w.jobs]
      /\ w.pc = "names" /\ w.offset = o /\ w.seen = p.seen /\ w.first = p.first /\ w.jobs = P
  BY <1>4 DEF PagerInv
<1>6. ASSUME ~c, NEW r \in t.jobs, r.id \in p.first PROVE Reached(w, t.jobs, r)
  <2>1. r.id \in p.seen \/ Rank(t.jobs, r) >= o  BY <1>6 DEF PagerInv, Reached
  <2>2. Rank(t.jobs, r) \in Nat  BY <1>1, RankIs
  <2>3. CASE r.id \in p.seen  BY <1>5, <2>3 DEF Reached
  <2>4. CASE Rank(t.jobs, r) >= o /\ Rank(t.jobs, r) <= o + l - 1
    <3>1. r \in P  BY <1>1, <2>2, <2>4 DEF P
    <3> QED  BY <1>5, <3>1 DEF Reached
  <2>5. CASE Rank(t.jobs, r) >= o + l
    <3>1. Cardinality(P) = l  BY <1>1, <2>5, FullPage DEF P
    <3> QED  BY <1>5, <2>5, <3>1 DEF Reached
  <2> HIDE DEF l, o
  <2>6. Rank(t.jobs, r) >= o => Rank(t.jobs, r) <= o + l - 1 \/ Rank(t.jobs, r) >= o + l
    BY <1>1, <2>2
  <2> QED  BY <2>1, <2>3, <2>4, <2>5, <2>6
<1> QED  BY <1>1, <1>5, <1>6 DEF PagerInv

\* ... and goes on after a full one.
LEMMA PageTurned ==
  ASSUME NEW t, NEW p, NEW c, PagerInv(p, t, c), p.pc = "names",
         NEW w, w = [p EXCEPT !.pc = IF Cardinality(p.jobs) = Limit(PageSize) THEN "search" ELSE "done",
                       !.jobs = {}, !.seen = @ \cup {r.id : r \in p.jobs},
                       !.offset = @ + Limit(PageSize)]
  PROVE  PagerInv(w, t, c)
<1> DEFINE l == Limit(PageSize)
           o == p.offset
           pc == IF Cardinality(p.jobs) = l THEN "search" ELSE "done"
           S == p.seen \cup {r.id : r \in p.jobs}
<1>1. l \in Nat \ {0} /\ o \in Nat /\ o + l \in Nat  BY LimitIs DEF PagerInv
<1>2. w = [p EXCEPT !.pc = pc, !.jobs = {}, !.seen = S, !.offset = o + l]  OBVIOUS
<1>3. pc = "search" <=> Cardinality(p.jobs) = l  OBVIOUS
<1>4. /\ \A i : i \in p.seen => i \in S
      /\ \A i : i \in {x.id : x \in p.jobs} => i \in S
  OBVIOUS
<1> HIDE DEF pc, S, o, l
<1>5. /\ w = [pc |-> w.pc, offset |-> w.offset, seen |-> w.seen, first |-> w.first, jobs |-> w.jobs]
      /\ w.pc = pc /\ w.offset = o + l /\ w.seen = S /\ w.first = p.first
  BY <1>2 DEF PagerInv
<1>6. ASSUME ~c, NEW r \in t.jobs, r.id \in p.first PROVE Reached(w, t.jobs, r)
  <2>1. \/ r.id \in p.seen \/ r.id \in {x.id : x \in p.jobs}
        \/ Cardinality(p.jobs) = l /\ Rank(t.jobs, r) >= o + l
    BY <1>6 DEF PagerInv, Reached, o, l
  <2> QED  BY <1>3, <1>4, <1>5, <2>1 DEF Reached
<1> QED  BY <1>1, <1>5, <1>6 DEF PagerInv

----------------------------------------------------------------------------

\* A change of the tables spoils the statistics under way.
LEMMA StatsDisturbed ==
  ASSUME NEW s, NEW t, StatsInv(s, t), NEW u, NEW w,
         w = IF s.pc = "idle" THEN s ELSE [s EXCEPT !.clean = FALSE]
  PROVE  StatsInv(w, u)
<1>1. CASE s.pc = "idle"  BY <1>1 DEF StatsInv
<1>2. CASE s.pc # "idle"
  <2>1. w = [s EXCEPT !.clean = FALSE]  BY <1>2
  <2>2. /\ w = [pc |-> w.pc, totals |-> w.totals, hours |-> w.hours, clean |-> w.clean]
        /\ w.clean = FALSE
    BY <2>1 DEF StatsInv
  <2> QED  BY <2>2 DEF StatsInv
<1> QED  BY <1>1, <1>2

\* Before its queries the dashboard shows nothing.
LEMMA NoStatistics == ASSUME NEW t PROVE StatsInv(NoStats, t)
<1>1. /\ NoStats = [pc |-> NoStats.pc, totals |-> NoStats.totals, hours |-> NoStats.hours,
                    clean |-> NoStats.clean]
      /\ NoStats.pc = "idle"
  BY DEF NoStats
<1> QED  BY <1>1 DEF StatsInv

\* The totals are read, ...
LEMMA TotalsRead ==
  ASSUME NEW t, NEW cutoff, NEW w,
         w = [pc |-> "hours", totals |-> GetJobStatsSince(t, cutoff), hours |-> cutoff, clean |-> TRUE]
  PROVE  StatsInv(w, t)
<1>1. /\ w = [pc |-> w.pc, totals |-> w.totals, hours |-> w.hours, clean |-> w.clean]
      /\ w.pc = "hours" /\ w.hours = cutoff /\ w.totals = GetJobStatsSince(t, cutoff)
  OBVIOUS
<1> QED  BY <1>1 DEF StatsInv

\* ... and the trend, which adds up to them.
LEMMA TrendRead ==
  ASSUME NEW t, NEW d, Ordered(t, d), NEW s, StatsInv(s, t), s.pc = "hours", NEW w,
         w = [s EXCEPT !.pc = "done", !.hours = GetHourlyJobStatsSince(t, s.hours)]
  PROVE  StatsInv(w, t)
<1> DEFINE js == {r \in t.jobs : r.at >= s.hours}
           hs == GetHourlyJobStatsSince(t, s.hours)
<1>1. hs = [h \in {r.at : r \in js} |-> Counts({r \in js : r.at = h})]
  BY Zenon DEF GetHourlyJobStatsSince
<1>2. Identified(js)
  <2>1. js \in SUBSET t.jobs /\ IsFiniteSet(t.jobs)  BY DEF Ordered, Identified
  <2>2. IsFiniteSet(js)  BY <2>1, FS_Subset
  <2> QED  BY <2>1, <2>2 DEF Ordered, Identified
<1>3. GetJobStatsSince(t, s.hours).total = Cardinality(js)
  <2> DEFINE b == Cardinality({r \in js : r.status = "success"})
             c == Cardinality({r \in js : r.status = "failure"})
  <2>1. GetJobStatsSince(t, s.hours) = [total |-> Cardinality(js), successful |-> b, failed |-> c]
    BY DEF GetJobStatsSince, Counts
  <2> HIDE DEF b, c, js
  <2> QED  BY <2>1
<1> HIDE DEF js, hs
<1>4. Cardinality(js) = Cardinality(UNION {{<<h, n>> : n \in 1..hs[h].total} : h \in DOMAIN hs})
  <2>1. hs = Trend(js)  BY <1>1, Zenon DEF Trend
  <2>2. Cardinality(js) = TrendTotal(hs)  BY <1>2, <2>1, TrendAddsUp
  <2> QED  BY <2>2, Zenon DEF TrendTotal
<1>5. /\ w = [pc |-> w.pc, totals |-> w.totals, hours |-> w.hours, clean |-> w.clean]
      /\ w.pc = "done" /\ w.totals = s.totals /\ w.hours = hs /\ w.clean = s.clean
  <2>1. w = [s EXCEPT !.pc = "done", !.hours = hs]  BY DEF hs
  <2> QED  BY <2>1 DEF StatsInv
<1>6. s.clean => s.totals = GetJobStatsSince(t, s.hours)  BY DEF StatsInv
<1>7. s.clean => s.totals.total =
         Cardinality(UNION {{<<h, n>> : n \in 1..hs[h].total} : h \in DOMAIN hs})
  BY <1>3, <1>4, <1>6, Zenon
<1>8. w.clean => w.totals.total =
         Cardinality(UNION {{<<h, n>> : n \in 1..w.hours[h].total} : h \in DOMAIN w.hours})
  BY ONLY <1>5, <1>7
<1>9. w.pc # "hours"  BY <1>5
<1> QED  BY <1>5, <1>8, <1>9, Zenon DEF StatsInv

----------------------------------------------------------------------------

\* What is kept if a step of the history keeps the parts.
LEMMA ReaderParts ==
  ASSUME ReaderInv, mix \in HistoryMixes, mix' = mix, pruner'.cutoff \in Int, day' \in Nat,
         Ordered(tables', day'), PagerInv(pager', tables', cascaded'), StatsInv(stats', tables')
  PROVE  ReaderInv'
  BY DEF ReaderInv

\* The tables, the day and the readers are left alone.
LEMMA ReaderStays ==
  ASSUME ReaderInv, UNCHANGED <<tables, day, pager, stats, cascaded, mix>>, pruner'.cutoff \in Int
  PROVE  ReaderInv'
  BY DEF ReaderInv

\* At the start there are neither rows nor readers.
LEMMA ReaderStart == ASSUME Init PROVE ReaderInv
<1>1. /\ pruner = NoPrune /\ pager = NoPage /\ stats = NoStats /\ day = 0
  BY DEF Init, HistoryInit
<1>2. pruner.cutoff \in Int
  <2>1. NoPrune.cutoff = 0  BY DEF NoPrune
  <2> QED  BY <1>1, <2>1
<1>3. ASSUME mix \in HistoryMixes PROVE Ordered(tables, day)
  <2>1. tables = OnePool  BY <1>3 DEF Init, HistoryMixes
  <2>2. tables.jobs = {}  BY TablesInit
  <2>3. IsFiniteSet(tables.jobs)  BY <2>2, FS_EmptySet
  <2>4. Identified(tables.jobs)  BY <2>2, <2>3 DEF Identified
  <2>5. tables.ids.job = 0 /\ tables.settings.job_retention_days = 1  BY <2>1, OnePoolIs
  <2> QED  BY <2>2, <2>4, <2>5 DEF Ordered
<1>4. PagerInv(pager, tables, cascaded) /\ StatsInv(stats, tables)
  BY <1>1, NoPager, NoStatistics
<1> QED  BY <1>1, <1>2, <1>3, <1>4 DEF ReaderInv

\* The scheduler: its cutoff is a day.
LEMMA PruneStartsReads ==
  ASSUME ReaderInv, mix \in HistoryMixes, mix' = mix, PruneStarts(0) PROVE ReaderInv'
<1> DEFINE days == SettingOr("job_retention_days", 30)
<1>0. PICK n \in days : pruner' = [pc |-> "rows", cutoff |-> day - n, rows |-> {}]
  BY DEF PruneStarts
<1> DEFINE c == day - n
<1>1. /\ pruner' = [pc |-> "rows", cutoff |-> c, rows |-> {}]
      /\ UNCHANGED <<tables, day, pager, stats, cascaded>>
  BY <1>0 DEF PruneStarts
<1>2. c \in Int
  <2>1. tables.settings.job_retention_days \in Int /\ day \in Nat  BY DEF ReaderInv, Ordered
  <2>2. n = 30 \/ n = tables.settings.job_retention_days  BY <1>0 DEF SettingOr, GetAppSetting
  <2> QED  BY <2>1, <2>2
<1> HIDE DEF c
<1>3. pruner'.cutoff = c  BY <1>1
<1> QED  BY <1>1, <1>2, <1>3, ReaderStays

\* The deletion of expired rows between two pages or two queries.
LEMMA PruneRowsReads ==
  ASSUME TableInv, ReaderInv, mix \in HistoryMixes, mix' = mix, PruneRows PROVE ReaderInv'
<1>1. CASE pruner' = NoPrune /\ UNCHANGED <<tables, stats>>
  <2>1. NoPrune.cutoff = 0  BY DEF NoPrune
  <2>2. pruner'.cutoff \in Int  BY <1>1, <2>1
  <2> QED  BY <1>1, <2>2, ReaderStays DEF PruneRows
<1>2. CASE /\ tables' = PruneJobHistoryOlderThan(tables, pruner.cutoff)
           /\ pruner' = [pruner EXCEPT !.pc = "files", !.rows = Expired(tables, pruner.cutoff)]
           /\ Disturbs
  <2> DEFINE c == pruner.cutoff
             E == Expired(tables, c)
             u == PruneJobHistoryOlderThan(tables, c)
  <2>1. c \in Int /\ day \in Nat /\ Ordered(tables, day) /\ PagerInv(pager, tables, cascaded)
        /\ StatsInv(stats, tables)
    BY DEF ReaderInv
  <2>2. u.jobs = tables.jobs \ E /\ u.ids = tables.ids /\ u.settings = tables.settings
    BY HistoryEdits DEF TableInv, LogInv
  <2>3. pruner'.cutoff = c
    <3>1. pruner' = [pruner EXCEPT !.pc = "files", !.rows = E]  BY <1>2
    <3> HIDE DEF E
    <3> QED  BY <3>1 DEF TableInv, LogInv
  <2>4. tables' = u /\ UNCHANGED <<day, pager, cascaded>>  BY <1>2 DEF PruneRows
  <2> HIDE DEF u
  <2>5. u.jobs \subseteq tables.jobs /\ u.ids.job = tables.ids.job /\ day <= day  BY <2>1, <2>2
  <2>6. Ordered(u, day)  BY <2>1, <2>2, <2>5, OrderStays
  <2>7. PagerInv(pager, u, cascaded)
    <3> HIDE DEF E, c
    <3> QED  BY <2>1, <2>2, <2>5, PagerAndPrune DEF E
  <2>8. StatsInv(stats', u)  BY <1>2, <2>1, StatsDisturbed DEF Disturbs
  <2> QED  BY <2>1, <2>3, <2>4, <2>6, <2>7, <2>8, ReaderParts
<1> QED  BY <1>1, <1>2 DEF PruneRows

\* The deletion of files, which no reader of rows looks at.
LEMMA PruneFilesReads ==
  ASSUME TableInv, ReaderInv, mix' = mix, PruneFiles PROVE ReaderInv'
<1>1. UNCHANGED <<tables, day, pager, stats, cascaded>>  BY DEF PruneFiles
<1>2. CASE pruner' = NoPrune
  <2>1. NoPrune.cutoff = 0  BY DEF NoPrune
  <2>2. pruner'.cutoff \in Int  BY <1>2, <2>1
  <2> QED  BY <1>1, <2>2, ReaderStays
<1>3. ASSUME NEW r, pruner' = [pruner EXCEPT !.rows = @ \ {r}] PROVE ReaderInv'
  <2>1. pruner'.cutoff = pruner.cutoff  BY <1>3 DEF TableInv, LogInv
  <2> QED  BY <1>1, <2>1, ReaderStays DEF ReaderInv
<1> QED  BY <1>2, <1>3 DEF PruneFiles

\* A day passes: the window of the trend moves.
LEMMA DayPassesReads ==
  ASSUME ReaderInv, mix \in HistoryMixes, mix' = mix, DayPasses PROVE ReaderInv'
<1>1. day' = day + 1 /\ UNCHANGED <<tables, pruner, pager, stats, cascaded>>  BY DEF DayPasses
<1>2. day \in Nat /\ Ordered(tables, day) /\ PagerInv(pager, tables, cascaded)
      /\ StatsInv(stats, tables) /\ pruner.cutoff \in Int
  BY DEF ReaderInv
<1>3. day' \in Nat /\ day <= day'  BY <1>1, <1>2
<1>4. Ordered(tables, day')  BY <1>2, <1>3, OrderStays
<1> QED  BY <1>1, <1>2, <1>3, <1>4, ReaderParts

\* The controller's row is the newest.
LEMMA RecordReads ==
  ASSUME TableInv, ReaderInv, mix \in HistoryMixes, mix' = mix,
         NEW r, NEW path, RecordJobTimeout(r, path)
  PROVE  ReaderInv'
<1>1. /\ tables' = CreateJobHistory(tables, 1, r, "timeout", path, day)
      /\ UNCHANGED <<day, pruner, pager, cascaded>>
      /\ Disturbs
  BY DEF RecordJobTimeout
<1>2. day \in Nat /\ Ordered(tables, day) /\ PagerInv(pager, tables, cascaded)
      /\ StatsInv(stats, tables) /\ pruner.cutoff \in Int
  BY DEF ReaderInv
<1>3. StatsInv(stats', tables')  BY <1>1, <1>2, StatsDisturbed DEF Disturbs
<1>4. CASE tables' = tables  BY <1>1, <1>2, <1>3, <1>4, ReaderParts
<1>5. ASSUME NEW q, q.id = tables.ids.job + 1, q.at = day, tables'.jobs = tables.jobs \cup {q},
             tables'.ids.job = tables.ids.job + 1, tables'.settings = tables.settings
      PROVE  ReaderInv'
  <2>1. Ordered(tables', day)  BY <1>2, <1>5, OrderGrows
  <2>2. PagerInv(pager, tables', cascaded)  BY <1>2, <1>5, PagerAndNewRow
  <2> QED  BY <1>1, <1>2, <1>3, <2>1, <2>2, ReaderParts
<1>6. IsTables(tables)  BY DEF TableInv, LogInv
<1> QED  BY <1>1, <1>4, <1>5, <1>6, CreatedLast

\* A deletion that cascades to the rows of a pool.
LEMMA PoolDeletedReads ==
  ASSUME TableInv, ReaderInv, mix \in HistoryMixes, mix' = mix, PoolDeleted PROVE ReaderInv'
<1> DEFINE u == DeleteRunnerPool(tables, 1)
<1>1. tables' = u /\ UNCHANGED <<day, pruner, pager>> /\ cascaded' = TRUE /\ Disturbs
  BY DEF PoolDeleted
<1>2. day \in Nat /\ Ordered(tables, day) /\ PagerInv(pager, tables, cascaded)
      /\ StatsInv(stats, tables) /\ pruner.cutoff \in Int
  BY DEF ReaderInv
<1>3. u.jobs \subseteq tables.jobs /\ u.ids = tables.ids /\ u.settings = tables.settings
  BY HistoryEdits DEF TableInv, LogInv
<1> HIDE DEF u
<1>4. StatsInv(stats', u)  BY <1>1, <1>2, StatsDisturbed DEF Disturbs
<1>5. u.ids.job = tables.ids.job /\ day <= day  BY <1>2, <1>3
<1>6. Ordered(u, day)  BY <1>2, <1>3, <1>5, OrderStays
<1>7. PagerInv(pager, u, TRUE)  BY <1>2, <1>5, PagerAndCascade
<1> QED  BY <1>1, <1>2, <1>4, <1>6, <1>7, ReaderParts

\* The steps of the controller and a crash.
LEMMA CapturingReads ==
  ASSUME TableInv, ReaderInv, mix \in HistoryMixes, mix' = mix, Capturing PROVE ReaderInv'
<1>1. ASSUME NEW r \in Runners, ReapContainer(r) \/ HungTerminates(r) PROVE ReaderInv'
  <2>1. UNCHANGED <<tables, day, pager, stats, cascaded, pruner>>
    BY <1>1 DEF ReapContainer, HungTerminates
  <2> QED  BY <2>1, ReaderStays DEF ReaderInv
<1>2. CASE HungRecords
  <2>1. CASE UNCHANGED <<tables, day, alive, output, logs, pruner, pager, stats, again, cascaded>>
    BY <2>1, ReaderStays DEF ReaderInv
  <2>2. ASSUME NEW path, RecordJobTimeout(hung.runner, path) PROVE ReaderInv'
    BY <2>2, RecordReads
  <2> QED  BY <1>2, <2>1, <2>2 DEF HungRecords
<1>3. CASE HistoryCrash
  <2>1. /\ UNCHANGED <<tables, day, cascaded>> /\ pruner' = NoPrune /\ pager' = NoPage
        /\ stats' = NoStats
    BY <1>3 DEF HistoryCrash
  <2>2. NoPrune.cutoff = 0  BY DEF NoPrune
  <2>3. pruner'.cutoff \in Int  BY <2>1, <2>2
  <2>4. PagerInv(pager', tables', cascaded') /\ StatsInv(stats', tables')
    BY <2>1, NoPager, NoStatistics
  <2>5. day' \in Nat /\ Ordered(tables', day')  BY <2>1 DEF ReaderInv
  <2> QED  BY <2>3, <2>4, <2>5, ReaderParts
<1> QED  BY <1>1, <1>2, <1>3 DEF Capturing

\* The steps of a client that pages.
LEMMA BrowsingReads ==
  ASSUME ReaderInv, mix \in HistoryMixes, mix' = mix, Browsing PROVE ReaderInv'
<1>1. day \in Nat /\ Ordered(tables, day) /\ PagerInv(pager, tables, cascaded)
      /\ StatsInv(stats, tables) /\ pruner.cutoff \in Int
  BY DEF ReaderInv
<1>2. UNCHANGED <<tables, day, pruner, stats, cascaded>>
  BY DEF Browsing, GetJobHistory, ReadPage, NextPage, PagerEnds
<1>3. CASE GetJobHistory
  <2> DEFINE f == {r.id : r \in tables.jobs}
  <2>1. pager' = [NoPage EXCEPT !.pc = "search", !.first = f]  BY <1>3 DEF GetJobHistory
  <2>2. f = {r.id : r \in tables.jobs}  OBVIOUS
  <2> HIDE DEF f
  <2>3. /\ pager' = [pc |-> pager'.pc, offset |-> pager'.offset, seen |-> pager'.seen,
                     first |-> pager'.first, jobs |-> pager'.jobs]
        /\ pager'.pc = "search" /\ pager'.offset = 0 /\ pager'.first = f
    BY ONLY <2>1 DEF NoPage
  <2>4. PagerInv(pager', tables, cascaded)
    BY <1>1, <2>2, <2>3, FirstPage
  <2> QED  BY <1>1, <1>2, <2>4, ReaderParts
<1>4. CASE ReadPage
  <2>1. PagerInv(pager', tables, cascaded)  BY <1>1, <1>4, PageRead, Zenon DEF ReadPage
  <2> QED  BY <1>1, <1>2, <2>1, ReaderParts
<1>5. CASE NextPage
  <2>1. PagerInv(pager', tables, cascaded)  BY <1>1, <1>5, PageTurned, Zenon DEF NextPage
  <2> QED  BY <1>1, <1>2, <2>1, ReaderParts
<1>6. CASE PagerEnds
  <2>1. PagerInv(pager', tables, cascaded)  BY <1>6, NoPager DEF PagerEnds
  <2> QED  BY <1>1, <1>2, <2>1, ReaderParts
<1> QED  BY <1>3, <1>4, <1>5, <1>6 DEF Browsing

\* The steps of an answer with the statistics.
LEMMA WatchingReads ==
  ASSUME ReaderInv, mix \in HistoryMixes, mix' = mix, Watching PROVE ReaderInv'
<1>1. day \in Nat /\ Ordered(tables, day) /\ PagerInv(pager, tables, cascaded)
      /\ StatsInv(stats, tables) /\ pruner.cutoff \in Int
  BY DEF ReaderInv
<1>2. UNCHANGED <<tables, day, pruner, pager, cascaded>>
  BY DEF Watching, GetSystemStats, ReadTrend, StatsEnd
<1>3. ASSUME NEW cutoff, GetSystemStats(cutoff) PROVE StatsInv(stats', tables)
  BY <1>3, TotalsRead DEF GetSystemStats
<1>4. ASSUME ReadTrend PROVE StatsInv(stats', tables)
  BY <1>1, <1>4, TrendRead, Zenon DEF ReadTrend
<1>5. ASSUME StatsEnd PROVE StatsInv(stats', tables)
  BY <1>5, NoStatistics DEF StatsEnd
<1>6. StatsInv(stats', tables)
  BY <1>3, <1>4, <1>5 DEF Watching
<1> QED  BY <1>1, <1>2, <1>6, ReaderParts

\* Every step of the history keeps what its readers rely on.
LEMMA ReaderKeeps ==
  ASSUME TableInv, ReaderInv, Histories PROVE ReaderInv'
<1>1. mix \in HistoryMixes /\ mix' = mix  BY DEF Histories, HistoryMixes
<1>2. CASE Retaining
  BY <1>1, <1>2, PruneStartsReads, PruneRowsReads, PruneFilesReads, DayPassesReads DEF Retaining
<1>3. ASSUME NEW r, ReapContainer(r) PROVE ReaderInv'
  <2>1. UNCHANGED <<tables, day, pager, stats, cascaded, pruner>>  BY <1>3 DEF ReapContainer
  <2> QED  BY <1>1, <2>1, ReaderStays DEF ReaderInv
<1>4. CASE Recorded  BY <1>1, <1>4, RecordReads, PoolDeletedReads DEF Recorded
<1> QED
  BY <1>1, <1>2, <1>3, <1>4, CapturingReads, BrowsingReads, WatchingReads DEF Histories

\* Where the history is not looked at, nobody reads it.
LEMMA ReaderElsewhere ==
  ASSUME ReaderInv, mix \notin HistoryMixes, mix' = mix, UNCHANGED historyVars PROVE ReaderInv'
<1>1. UNCHANGED <<pager, stats, pruner>>  BY DEF historyVars
<1>2. pager = NoPage /\ stats = NoStats /\ pruner.cutoff \in Int  BY DEF ReaderInv
<1>3. StatsInv(stats', tables')  BY <1>1, <1>2, NoStatistics
<1> QED  BY <1>1, <1>2, <1>3 DEF ReaderInv

\* The history stays in its order, a client that pages is never past a row it
\* has not seen, and the totals of an undisturbed answer are those of the table.
THEOREM ReadersInvariance == Spec => []ReaderInv
<1>1. Init => ReaderInv  BY ReaderStart
<1>2. TableInv /\ ReaderInv /\ [Next]_vars => ReaderInv'
  <2> SUFFICES ASSUME TableInv, ReaderInv, [Next]_vars PROVE ReaderInv'  OBVIOUS
  <2>1. CASE Histories  BY <2>1, ReaderKeeps
  <2>2. CASE Seeds
    <3>1. mix \notin HistoryMixes /\ mix' = mix /\ UNCHANGED historyVars
      BY <2>2 DEF Seeds, HistoryMixes
    <3> QED  BY <3>1, ReaderElsewhere
  <2>3. CASE UNCHANGED <<tables, historyVars, mix>>
    <3>1. UNCHANGED <<tables, day, pager, stats, cascaded, mix, pruner>>  BY <2>3 DEF historyVars
    <3> QED  BY <3>1, ReaderStays DEF ReaderInv
  <2> QED  BY <2>1, <2>2, <2>3 DEF Next, Renovates, Snapshots, vars
<1> QED  BY <1>1, <1>2, TableInvariance, PTL DEF Spec

\* A client that pages through the history until a page is not full has seen
\* every row that was there all the time, unless a pool was deleted; and the
\* trend of an undisturbed answer adds up to its totals.
THEOREM ReadersSeeAll == Spec => []AnalyticsComplete
<1>1. ReaderInv => AnalyticsComplete
  <2> SUFFICES ASSUME ReaderInv PROVE AnalyticsComplete  OBVIOUS
  <2>1. ASSUME pager.pc = "done", ~cascaded, NEW i \in pager.first, NEW r \in tables.jobs, r.id = i
        PROVE  i \in pager.seen
    <3>1. mix \in HistoryMixes
      <4>1. NoPage.pc = "idle"  BY DEF NoPage
      <4> QED  BY <2>1, <4>1 DEF ReaderInv
    <3>2. Reached(pager, tables.jobs, r)  BY <2>1, <3>1 DEF ReaderInv, PagerInv
    <3> QED  BY <2>1, <3>2 DEF Reached
  <2>2. pager.pc = "done" =>
          pager.first \cap {r.id : r \in tables.jobs} \subseteq pager.seen \/ cascaded
    BY <2>1
  <2>3. stats.pc = "done" /\ stats.clean =>
          stats.totals.total =
            Cardinality(UNION {{<<h, n>> : n \in 1..stats.hours[h].total} : h \in DOMAIN stats.hours})
    BY DEF ReaderInv, StatsInv
  <2> QED  BY <2>2, <2>3 DEF AnalyticsComplete
<1> QED  BY <1>1, ReadersInvariance, PTL

----------------------------------------------------------------------------
(* Logs: the order of a stream.                                           *)

\* The numbers of what is of a stream, and what a list of numbers picks.
OfStream(q, s) == {i \in DOMAIN q : q[i].stream = s}
Picked(h, q) == [k \in 1..Len(h) |-> q[h[k]]]

\* Of picks what is of a stream, in its order.
LEMMA OfPicks ==
  ASSUME NEW S, NEW q \in Seq(S), NEW s
  PROVE  \E h : Enumerates(h, OfStream(q, s)) /\ Of(q, s) = Picked(h, q)
<1> DEFINE n == Len(q)
           D == DOMAIN q
           M(d) == CHOOSE x \in d : \A y \in d : x >= y
           op(acc, x) == IF x.stream = s THEN Append(acc, x) ELSE acc
           Fold(g) == [d \in SUBSET D |-> IF d = {} THEN <<>> ELSE op(g[d \ {M(d)}], q[M(d)])]
           iter == CHOOSE g : g = Fold(g)
<1>1. Of(q, s) = iter[D]
  BY Zenon DEF Of, FoldLeft, MapThenFoldSet, Max
<1>2. n \in Nat /\ D = 1..n /\ \A i \in D : q[i] \in S  BY SeqDomain
<1>3. \A d \in SUBSET D : d # {} => M(d) \in d  BY <1>2, GreatestNumber
<1>4. \A x \in Seq(S), y \in S : op(x, y) \in Seq(S)  OBVIOUS
<1>5. IsFiniteSet(D)  BY <1>2, FS_Interval
<1> HIDE DEF D, n, op, M
<1>6. iter = Fold(iter)
  <2> DEFINE pick == [d \in SUBSET D |-> M(d)]
             step == [x \in Seq(S) |-> [i \in D |-> op(x, q[i])]]
  <2>1. \A d \in SUBSET D : d # {} => pick[d] \in d  BY <1>3
  <2>2. step \in [Seq(S) -> [D -> Seq(S)]]  BY <1>2, <1>4
  <2>3. \A x \in Seq(S), i \in D : step[x][i] = op(x, q[i])  OBVIOUS
  <2>4. \A d \in SUBSET D : pick[d] = M(d)  OBVIOUS
  <2>5. <<>> \in Seq(S)  OBVIOUS
  <2> HIDE DEF pick, step
  <2>6. PICK g \in [SUBSET D -> Seq(S)] : IsFold(g, D, <<>>, pick, step)
    BY <1>5, <2>1, <2>2, <2>5, FoldExists
  <2>7. ASSUME NEW d \in SUBSET D, d # {}
        PROVE  step[g[d \ {pick[d]}]][pick[d]] = op(g[d \ {M(d)}], q[M(d)])
    <3>1. d \ {M(d)} \in SUBSET D /\ M(d) \in D  BY <1>3, <2>7
    <3>2. g[d \ {M(d)}] \in Seq(S)  BY <3>1
    <3> QED  BY <2>3, <2>4, <3>1, <3>2
  <2>8. \A d \in SUBSET D : g[d] = IF d = {} THEN <<>> ELSE op(g[d \ {M(d)}], q[M(d)])
    BY <2>6, <2>7 DEF IsFold
  <2>9. g = Fold(g)  BY <2>8
  <2> QED  BY <2>9
<1> HIDE DEF iter
<1>7. iter[1..0] = <<>>  BY <1>2, <1>6
<1>8. ASSUME NEW k \in Nat, k + 1 <= n PROVE iter[1..(k + 1)] = op(iter[1..k], q[k + 1])
  <2>1. 1..(k + 1) \in SUBSET D /\ 1..(k + 1) # {} /\ k + 1 \in Nat \ {0}
    <3>1. 1 \in 1..(k + 1) /\ k + 1 \in Nat \ {0}  OBVIOUS
    <3>2. \A i \in 1..(k + 1) : i \in 1..n  BY <1>2, <1>8
    <3> QED  BY <1>2, <3>1, <3>2
  <2>2. M(1..(k + 1)) = k + 1  BY <2>1, GreatestOf, Zenon DEF M
  <2>3. (1..(k + 1)) \ {k + 1} = 1..k  OBVIOUS
  <2>4. iter[1..(k + 1)] = op(iter[(1..(k + 1)) \ {M(1..(k + 1))}], q[M(1..(k + 1))])
    BY <1>6, <2>1
  <2> QED  BY <2>2, <2>3, <2>4
<1> DEFINE X(k) == {i \in 1..k : q[i].stream = s}
           Good(k) == \E h : Enumerates(h, X(k)) /\ iter[1..k] = Picked(h, q)
           T == {k \in Nat : k <= n => Good(k)}
<1>9. 0 \in T
  <2>1. X(0) = {}  OBVIOUS
  <2>2. Enumerates(<<>>, {})  BY DEF Enumerates
  <2>3. Picked(<<>>, q) = <<>>  BY DEF Picked
  <2>4. Good(0)
    <3> HIDE DEF X
    <3> QED  BY <1>7, <2>1, <2>2, <2>3
  <2> QED  BY <2>4
<1>10. ASSUME NEW k \in Nat, k \in T PROVE k + 1 \in T
  <2> HIDE DEF Good
  <2> SUFFICES ASSUME k + 1 <= n PROVE Good(k + 1)  OBVIOUS
  <2> USE DEF Good
  <2>1. PICK h : Enumerates(h, X(k)) /\ iter[1..k] = Picked(h, q)
    <3>1. k <= n  BY <1>2
    <3>2. Good(k)  BY <1>10, <3>1
    <3> QED  BY <3>2
  <2>2. iter[1..(k + 1)] = op(Picked(h, q), q[k + 1])  BY <1>8, <2>1
  <2>3. CASE q[k + 1].stream # s
    <3>1. X(k + 1) = X(k)  BY <2>3
    <3>2. iter[1..(k + 1)] = Picked(h, q)  BY <2>2, <2>3 DEF op
    <3> HIDE DEF X
    <3> QED  BY <2>1, <3>1, <3>2
  <2>4. CASE q[k + 1].stream = s
    <3>1. X(k + 1) = X(k) \cup {k + 1} /\ \A x \in X(k) : x < k + 1  BY <2>4
    <3> HIDE DEF X
    <3>2. Enumerates(Append(h, k + 1), X(k + 1))  BY <2>1, <3>1, EnumerateMore
    <3>3. h \in Seq(Nat)  BY <2>1 DEF Enumerates
    <3>4. iter[1..(k + 1)] = Append(Picked(h, q), q[k + 1])  BY <2>2, <2>4 DEF op
    <3>5. Append(Picked(h, q), q[k + 1]) = Picked(Append(h, k + 1), q)
      <4> DEFINE a == Append(Picked(h, q), q[k + 1])
                 b == Append(h, k + 1)
                 m == Len(h)
      <4>1. m \in Nat  BY <3>3
      <4>2. /\ Len(b) = m + 1 /\ b[m + 1] = k + 1 /\ \A i \in 1..m : b[i] = h[i]
        BY <3>3
      <4>3. /\ DOMAIN Picked(h, q) = 1..m /\ \A i \in 1..m : Picked(h, q)[i] = q[h[i]]
        BY DEF Picked
      <4>4. ASSUME NEW i \in 1..m PROVE q[h[i]] \in S
        <5>1. h[i] \in X(k)  BY <2>1, <4>4 DEF Enumerates
        <5>2. h[i] \in D  BY <1>2, <5>1 DEF X
        <5> QED  BY <1>2, <5>2
      <4>5. Picked(h, q) \in Seq(S) /\ Len(Picked(h, q)) = m
        <5>1. Picked(h, q) \in [1..m -> S]  BY <4>4 DEF Picked
        <5> QED  BY <4>1, <5>1, AsSequence
      <4>6. q[k + 1] \in S  BY <1>2
      <4>7. /\ DOMAIN a = 1..(m + 1) /\ a[m + 1] = q[k + 1]
            /\ \A i \in 1..m : a[i] = q[h[i]]
            /\ a = [i \in 1..(m + 1) |-> a[i]]
        <5> DEFINE p == Picked(h, q)
        <5> HIDE DEF p
        <5>1. p \in Seq(S) /\ Len(p) = m /\ \A i \in 1..m : p[i] = q[h[i]]  BY <4>3, <4>5 DEF p
        <5>2. /\ Append(p, q[k + 1]) \in Seq(S) /\ Len(Append(p, q[k + 1])) = m + 1
              /\ Append(p, q[k + 1])[m + 1] = q[k + 1]
              /\ \A i \in 1..m : Append(p, q[k + 1])[i] = p[i]
          BY <4>1, <4>6, <5>1
        <5> QED  BY <4>1, <5>1, <5>2 DEF p
      <4> HIDE DEF a, b, m
      <4>8. ASSUME NEW i \in 1..(m + 1) PROVE a[i] = q[b[i]]
        <5>1. i \in 1..m \/ i = m + 1  BY <4>1
        <5> QED  BY <4>2, <4>7, <5>1
      <4>9. Picked(b, q) = [i \in 1..(m + 1) |-> q[b[i]]]  BY <4>2 DEF Picked
      <4>10. a = Picked(b, q)  BY <4>7, <4>8, <4>9
      <4> QED  BY <4>10 DEF a, b
    <3> QED  BY <3>2, <3>4, <3>5
  <2> QED  BY <2>3, <2>4
<1>11. n \in T
  <2> HIDE DEF T
  <2> QED  BY <1>2, <1>9, <1>10, NatSet
<1>12. PICK h : Enumerates(h, X(n)) /\ iter[1..n] = Picked(h, q)
  <2>1. Good(n)  BY <1>2, <1>11
  <2> QED  BY <2>1
<1>13. X(n) = OfStream(q, s)  BY <1>2 DEF OfStream, D
<1> QED  BY <1>1, <1>2, <1>12, <1>13

\* What picks the entries of a stream in their order is Of.
LEMMA PicksOf ==
  ASSUME NEW S, NEW q \in Seq(S), NEW s, NEW h, Enumerates(h, OfStream(q, s))
  PROVE  Of(q, s) = Picked(h, q)
<1>1. PICK g : Enumerates(g, OfStream(q, s)) /\ Of(q, s) = Picked(g, q)  BY OfPicks
<1>2. g = h  BY <1>1, OneEnumeration
<1> QED  BY <1>1, <1>2

\* What Of picks is of the stream.
LEMMA OfTyped ==
  ASSUME NEW S, NEW q \in Seq(S), NEW s
  PROVE  Of(q, s) \in Seq(S) /\ \A k \in 1..Len(Of(q, s)) : Of(q, s)[k].stream = s
<1>1. PICK h : Enumerates(h, OfStream(q, s)) /\ Of(q, s) = Picked(h, q)  BY OfPicks
<1> DEFINE m == Len(h)
<1>2. m \in Nat /\ \A k \in 1..m : h[k] \in OfStream(q, s)  BY <1>1, EnumerationTyped
<1>3. \A k \in 1..m : q[h[k]] \in S /\ q[h[k]].stream = s
  <2>1. \A i \in DOMAIN q : q[i] \in S  BY SeqDomain
  <2> QED  BY <1>2, <2>1 DEF OfStream
<1> HIDE DEF m
<1>4. /\ Picked(h, q) \in [1..m -> S]
      /\ \A k \in 1..m : Picked(h, q)[k] = q[h[k]]
  BY <1>3 DEF Picked, m
<1>5. Picked(h, q) \in Seq(S) /\ Len(Picked(h, q)) = m  BY <1>2, <1>4, AsSequence
<1> QED  BY <1>1, <1>3, <1>4, <1>5

\* Of nothing, nothing is of a stream.
LEMMA OfEmpty == ASSUME NEW s PROVE Of(<<>>, s) = <<>>
<1>1. <<>> \in Seq({}) /\ OfStream(<<>>, s) = {}  BY DEF OfStream
<1>2. Enumerates(<<>>, {})  BY DEF Enumerates
<1>3. Of(<<>>, s) = Picked(<<>>, <<>>)  BY <1>1, <1>2, PicksOf
<1> QED  BY <1>3 DEF Picked

\* Of an entry more.
LEMMA OfAppend ==
  ASSUME NEW S, NEW q \in Seq(S), NEW x \in S, NEW s
  PROVE  Of(Append(q, x), s) = IF x.stream = s THEN Append(Of(q, s), x) ELSE Of(q, s)
<1> DEFINE n == Len(q)
           r == Append(q, x)
<1>1. PICK h : Enumerates(h, OfStream(q, s)) /\ Of(q, s) = Picked(h, q)  BY OfPicks
<1>2. n \in Nat /\ DOMAIN q = 1..n  BY SeqDomain
<1>3. /\ r \in Seq(S) /\ DOMAIN r = 1..(n + 1) /\ r[n + 1] = x
      /\ \A i \in 1..n : r[i] = q[i]
  BY <1>2
<1> HIDE DEF r, n
<1>4. h \in Seq(Nat) /\ Len(h) \in Nat /\ \A k \in 1..Len(h) : h[k] \in 1..n /\ h[k] \in OfStream(q, s)
  <2>1. h \in Seq(Nat)  BY <1>1 DEF Enumerates
  <2>2. Len(h) \in Nat /\ \A k \in 1..Len(h) : h[k] \in OfStream(q, s)  BY <1>1, EnumerationTyped
  <2> QED  BY <1>2, <2>1, <2>2 DEF OfStream
<1>5. Picked(h, r) = Picked(h, q)  BY <1>3, <1>4 DEF Picked
<1>6. CASE x.stream # s
  <2>1. OfStream(r, s) = OfStream(q, s)
    <3>1. \A i \in 1..(n + 1) : i \in 1..n \/ i = n + 1  BY <1>2
    <3>2. \A i \in 1..n : i \in 1..(n + 1)  BY <1>2
    <3> QED  BY <1>2, <1>3, <1>6, <3>1, <3>2 DEF OfStream
  <2>2. Of(r, s) = Picked(h, r)  BY <1>1, <1>3, <2>1, PicksOf
  <2> QED  BY <1>1, <1>5, <1>6, <2>2 DEF r
<1>7. CASE x.stream = s
  <2> DEFINE g == Append(h, n + 1)
             m == Len(h)
  <2>1. OfStream(r, s) = OfStream(q, s) \cup {n + 1} /\ \A i \in OfStream(q, s) : i < n + 1
    <3>1. \A i \in 1..(n + 1) : i \in 1..n \/ i = n + 1  BY <1>2
    <3>2. (\A i \in 1..n : i \in 1..(n + 1) /\ i < n + 1) /\ n + 1 \in 1..(n + 1)  BY <1>2
    <3> QED  BY <1>2, <1>3, <1>7, <3>1, <3>2 DEF OfStream
  <2>2. Enumerates(g, OfStream(r, s))  BY <1>1, <1>2, <2>1, EnumerateMore
  <2>3. Of(r, s) = Picked(g, r)  BY <1>3, <2>2, PicksOf
  <2>4. Len(g) = m + 1 /\ g[m + 1] = n + 1 /\ \A k \in 1..m : g[k] = h[k]  BY <1>2, <1>4
  <2> DEFINE p == Picked(h, q)
             a == Append(p, x)
  <2>5. p \in Seq(S) /\ Len(p) = m /\ \A k \in 1..m : p[k] = q[h[k]]
    <3>1. p \in Seq(S)  BY <1>1, OfTyped
    <3>2. p = [k \in 1..m |-> q[h[k]]]  BY DEF Picked
    <3> HIDE DEF p
    <3>3. Len(p) = m
      <4>1. DOMAIN p = 1..m /\ DOMAIN p = 1..Len(p) /\ Len(p) \in Nat  BY <3>1, <3>2
      <4> QED  BY <1>4, <3>1, <3>2, <4>1
    <3> QED  BY <3>1, <3>2, <3>3
  <2> HIDE DEF p, g, m
  <2>6. /\ a \in Seq(S) /\ Len(a) = m + 1 /\ a[m + 1] = x /\ \A k \in 1..m : a[k] = p[k]
    BY <2>5
  <2>7. m \in Nat  BY <1>4 DEF m
  <2> HIDE DEF a
  <2>8. a = [k \in 1..(m + 1) |-> a[k]]  BY <2>6
  <2>9. ASSUME NEW k \in 1..(m + 1) PROVE a[k] = r[g[k]]
    <3>1. k \in 1..m \/ k = m + 1  BY <2>7
    <3>2. CASE k \in 1..m
      <4>1. h[k] \in 1..n  BY <1>4, <3>2 DEF m
      <4> QED  BY <1>3, <2>4, <2>5, <2>6, <3>2, <4>1
    <3>3. CASE k = m + 1  BY <1>3, <2>4, <2>6, <3>3
    <3> QED  BY <3>1, <3>2, <3>3
  <2>10. Picked(g, r) = [k \in 1..(m + 1) |-> r[g[k]]]  BY <2>4 DEF Picked
  <2>11. Picked(g, r) = a  BY <2>8, <2>9, <2>10
  <2> QED  BY <1>1, <1>7, <2>3, <2>11 DEF r, p, a
<1> QED  BY <1>6, <1>7

----------------------------------------------------------------------------

\* Sorting puts the lines in another order, by time and then by number.
Sorts(p, q) ==
  /\ p \in [DOMAIN q -> DOMAIN q]
  /\ SortStable(q) = [k \in DOMAIN q |-> q[p[k]]]
  /\ \A x \in DOMAIN q : \E k \in DOMAIN q : p[k] = x
  /\ \A k, l \in DOMAIN q : k < l =>
       q[p[k]].ts < q[p[l]].ts \/ (q[p[k]].ts = q[p[l]].ts /\ p[k] < p[l])

\* It does so with all of them.
LEMMA SortOrders ==
  ASSUME NEW S, NEW q \in Seq(S), \A i \in DOMAIN q : q[i].ts \in Nat
  PROVE  \E p : Sorts(p, q)
<1> DEFINE n == Len(q)
           D == DOMAIN q
           Less(i, j) == q[i].ts < q[j].ts \/ (q[i].ts = q[j].ts /\ i < j)
           R == {z \in D \X D : Less(z[1], z[2])}
           rank(i) == Cardinality(Before(q, i))
           p == [k \in D |-> CHOOSE i \in D : rank(i) = k - 1]
<1>1. n \in Nat /\ D = 1..n  BY SeqDomain
<1>2. IsFiniteSet(D) /\ Cardinality(D) = n
  <2>1. IsFiniteSet(1..n) /\ Cardinality(1..n) = IF 1 > n THEN 0 ELSE n - 1 + 1
    BY <1>1, FS_Interval
  <2> QED  BY <1>1, <2>1
<1>3. \A i, j \in D : <<i, j>> \in R <=> Less(i, j)  OBVIOUS
<1>4. \A i \in D : q[i].ts \in Nat /\ i \in Nat  BY <1>1
<1>5. \A i \in D : Before(q, i) = Below(R, D, i)
  <2> HIDE DEF R
  <2> QED  BY <1>3 DEF Before, Below
<1>6. Orders(R, D)
  <2>1. \A i \in D : ~Less(i, i)  BY <1>4
  <2>2. \A i, j \in D : i = j \/ Less(i, j) \/ Less(j, i)  BY <1>4
  <2>3. \A i, j, k \in D : Less(i, j) /\ Less(j, k) => Less(i, k)  BY <1>4
  <2> HIDE DEF R, Less, D
  <2> QED  BY <1>3, <2>1, <2>2, <2>3 DEF Orders
<1> HIDE DEF R, D, n
<1>7. /\ \A i \in D : rank(i) \in 0..(n - 1)
      /\ \A i, j \in D : <<i, j>> \in R => rank(i) < rank(j)
      /\ \A k \in 0..(n - 1) : \E i \in D : rank(i) = k
  <2>1. /\ \A i \in D : Cardinality(Below(R, D, i)) \in 0..(n - 1)
        /\ \A i, j \in D : <<i, j>> \in R =>
              Cardinality(Below(R, D, i)) < Cardinality(Below(R, D, j))
        /\ \A k \in 0..(n - 1) : \E i \in D : Cardinality(Below(R, D, i)) = k
    BY <1>2, <1>6, Ranks
  <2> QED  BY <1>5, <2>1
<1>8. SortStable(q) = [k \in D |-> q[p[k]]]  BY DEF SortStable, D
<1> HIDE DEF rank
<1>9. ASSUME NEW k \in D PROVE p[k] \in D /\ rank(p[k]) = k - 1
  <2>1. k - 1 \in 0..(n - 1)  BY <1>1
  <2>2. \E i \in D : rank(i) = k - 1  BY <1>7, <2>1
  <2> QED  BY <2>2
<1> HIDE DEF p
<1>10. p \in [D -> D]
  <2>1. p = [k \in D |-> p[k]]  BY DEF p
  <2> QED  BY <1>9, <2>1
<1>11. ASSUME NEW x \in D PROVE \E k \in D : p[k] = x
  <2> DEFINE k == rank(x) + 1
  <2>1. rank(x) \in 0..(n - 1) /\ k \in D /\ k - 1 = rank(x)  BY <1>1, <1>7
  <2>2. p[k] \in D /\ rank(p[k]) = rank(x)  BY <1>9, <2>1
  <2>3. \A i, j \in D : rank(i) = rank(j) => i = j
    <3> SUFFICES ASSUME NEW i \in D, NEW j \in D, rank(i) = rank(j), i # j PROVE FALSE  OBVIOUS
    <3>1. <<i, j>> \in R \/ <<j, i>> \in R  BY <1>6 DEF Orders
    <3>2. rank(i) \in 0..(n - 1) /\ rank(j) \in 0..(n - 1)  BY <1>7
    <3>3. rank(i) < rank(j) \/ rank(j) < rank(i)  BY <1>7, <3>1
    <3> QED  BY <1>1, <3>2, <3>3
  <2> QED  BY <2>1, <2>2, <2>3
<1>12. ASSUME NEW k \in D, NEW l \in D, k < l PROVE Less(p[k], p[l])
  <2>1. p[k] \in D /\ p[l] \in D /\ rank(p[k]) = k - 1 /\ rank(p[l]) = l - 1  BY <1>9
  <2>2. ~(rank(p[l]) < rank(p[k])) /\ rank(p[k]) # rank(p[l])  BY <1>1, <1>12, <2>1
  <2>3. <<p[k], p[l]>> \in R  BY <1>6, <1>7, <2>1, <2>2 DEF Orders
  <2> QED  BY <1>3, <2>1, <2>3
<1>13. Sorts(p, q)  BY <1>8, <1>10, <1>11, <1>12 DEF D, Sorts
<1> QED  BY <1>13

\* A stream whose lines are in the order of time stays as it is.
LEMMA SortKeepsStream ==
  ASSUME NEW S, NEW q \in Seq(S), \A i \in DOMAIN q : q[i].ts \in Nat, NEW s,
         \A i, j \in OfStream(q, s) : i <= j => q[i].ts <= q[j].ts
  PROVE  Of(SortStable(q), s) = Of(q, s)
<1> DEFINE n == Len(q)
           e == SortStable(q)
<1>1. n \in Nat /\ DOMAIN q = 1..n /\ \A i \in 1..n : q[i] \in S  BY SeqDomain
<1>2. PICK p : Sorts(p, q)  BY SortOrders
<1>3. /\ p \in [1..n -> 1..n] /\ e = [k \in 1..n |-> q[p[k]]]
      /\ \A x \in 1..n : \E k \in 1..n : p[k] = x
      /\ \A k, l \in 1..n : k < l =>
            q[p[k]].ts < q[p[l]].ts \/ (q[p[k]].ts = q[p[l]].ts /\ p[k] < p[l])
  BY <1>1, <1>2 DEF Sorts
<1>4. \A i \in 1..n : q[i].ts \in Nat /\ i \in Nat  BY <1>1
<1> HIDE DEF e, n
<1>5. e \in [1..n -> S] /\ \A k \in 1..n : e[k] = q[p[k]] /\ p[k] \in 1..n  BY <1>1, <1>3
<1>6. e \in Seq(S) /\ Len(e) = n /\ DOMAIN e = 1..n  BY <1>1, <1>5, AsSequence
<1>7. PICK h : Enumerates(h, OfStream(e, s)) /\ Of(e, s) = Picked(h, e)  BY <1>6, OfPicks
<1> DEFINE m == Len(h)
           g == [k \in 1..m |-> p[h[k]]]
<1>8. m \in Nat /\ \A k \in 1..m : h[k] \in Nat /\ h[k] \in OfStream(e, s)  BY <1>7, EnumerationTyped
<1>9. \A k \in 1..m : h[k] \in 1..n /\ p[h[k]] \in 1..n /\ p[h[k]] \in OfStream(q, s)
  BY <1>1, <1>5, <1>6, <1>8 DEF OfStream
<1>10. \A x \in OfStream(e, s) : \E k \in 1..m : h[k] = x  BY <1>7 DEF Enumerates
<1>11. \A k, l \in 1..m : k < l => h[k] < h[l]  BY <1>7 DEF Enumerates
<1> HIDE DEF m
<1>12. g \in Seq(Nat) /\ Len(g) = m /\ \A k \in 1..m : g[k] = p[h[k]]
  <2>1. g \in [1..m -> Nat]  BY <1>1, <1>9
  <2>2. \A k \in 1..m : g[k] = p[h[k]]  OBVIOUS
  <2> HIDE DEF g
  <2> QED  BY <1>8, <2>1, <2>2, AsSequence
<1> HIDE DEF g
<1>13. ASSUME NEW x \in OfStream(q, s) PROVE \E k \in 1..m : g[k] = x
  <2>1. x \in 1..n /\ q[x].stream = s  BY <1>1 DEF OfStream
  <2>2. PICK j \in 1..n : p[j] = x  BY <1>3, <2>1
  <2>3. j \in OfStream(e, s)  BY <1>5, <1>6, <2>1, <2>2 DEF OfStream
  <2>4. PICK k \in 1..m : h[k] = j  BY <1>10, <2>3
  <2> QED  BY <1>12, <2>2, <2>4
<1>14. ASSUME NEW k \in 1..m, NEW l \in 1..m, k < l PROVE g[k] < g[l]
  <2> DEFINE i == p[h[k]]
             j == p[h[l]]
  <2>1. h[k] < h[l]  BY <1>11, <1>14
  <2>2. q[i].ts < q[j].ts \/ (q[i].ts = q[j].ts /\ i < j)  BY <1>3, <1>9, <2>1
  <2>3. i \in OfStream(q, s) /\ j \in OfStream(q, s) /\ i \in Nat /\ j \in Nat
        /\ q[i].ts \in Nat /\ q[j].ts \in Nat
    BY <1>4, <1>9
  <2> HIDE DEF i, j
  <2>4. j <= i => q[j].ts <= q[i].ts  BY <2>3
  <2>5. i < j  BY <2>2, <2>3, <2>4
  <2> QED  BY <1>12, <2>5 DEF i, j
<1>15. Enumerates(g, OfStream(q, s))  BY <1>9, <1>12, <1>13, <1>14 DEF Enumerates
<1>16. Of(q, s) = Picked(g, q)  BY <1>15, PicksOf
<1>17. Picked(g, q) = Picked(h, e)
  <2>1. Picked(g, q) = [k \in 1..m |-> q[g[k]]]  BY <1>12 DEF Picked
  <2>2. Picked(h, e) = [k \in 1..m |-> e[h[k]]]  BY DEF Picked, m
  <2>3. \A k \in 1..m : q[g[k]] = e[h[k]]  BY <1>5, <1>9, <1>12
  <2> QED  BY <2>1, <2>2, <2>3
<1> QED  BY <1>7, <1>16, <1>17 DEF e

----------------------------------------------------------------------------

\* Frames with a timestamp, the entries of a log, whose texts have timestamps
\* before every word but the first, and what the collectors hold.
Stampeds == {f \in LogFrames : f.ts # 0}
Pieces == [ts : Nat, word : STRING]
LogTexts == {c \in Seq(Pieces) : c # <<>> /\ \A k \in DOMAIN c : c[k].ts = 0 <=> k = 1}
LogEntries == [ts : Nat, frac : {0}, stream : Streams, content : LogTexts]
Collectors == [buf : [Streams -> Seq(Stampeds)], lines : Seq(LogEntries)]

Collected(q) == FoldLeft(CollectorWrite, Collecting, q)

\* A line of stamped frames is not blank: it becomes an entry of its stream.
LEMMA LineParsed ==
  ASSUME NEW line \in Seq(Stampeds), line # <<>>, NEW s \in Streams
  PROVE  /\ ~Blank(line) /\ ParseLogLine(line, s) \in LogEntries
         /\ ParseLogLine(line, s).stream = s /\ ParseLogLine(line, s).content = Content(line)
         /\ ParseLogLine(line, s).ts = line[1].ts
<1> DEFINE n == Len(line)
           w == Content(line)
<1>1. n \in Nat \ {0} /\ DOMAIN line = 1..n /\ \A i \in 1..n : line[i] \in Stampeds
  BY SeqDomain
<1>2. \A i \in 1..n : line[i].ts \in Nat /\ line[i].ts # 0 /\ line[i].word \in STRING
  BY <1>1 DEF Stampeds, LogFrames
<1>3. 1 \in 1..n  BY <1>1
<1>4. ~Blank(line)  BY <1>1, <1>2, <1>3 DEF Blank
<1>5. w \in LogTexts
  <2>1. w \in [1..n -> Pieces]  BY <1>1, <1>2 DEF Content, Pieces
  <2>2. w \in Seq(Pieces)  BY <1>1, <2>1, AsSequence
  <2>3. \A k \in 1..n : w[k].ts = 0 <=> k = 1  BY <1>1, <1>2 DEF Content
  <2>4. DOMAIN w = 1..n /\ 1 \in DOMAIN w  BY <1>3, <2>1
  <2> HIDE DEF w
  <2> QED  BY <2>2, <2>3, <2>4 DEF LogTexts
<1>6. Head(line) = line[1]  OBVIOUS
<1>7. Head(line).ts \in Nat /\ Head(line).ts # 0 /\ Head(line).ts = line[1].ts  BY <1>2, <1>3, <1>6
<1>8. ParseLogLine(line, s) = [ts |-> Head(line).ts, frac |-> 0, stream |-> s, content |-> w]
  BY <1>7 DEF ParseLogLine
<1> HIDE DEF w, n
<1>9. ParseLogLine(line, s) \in LogEntries  BY <1>5, <1>7, <1>8 DEF LogEntries
<1>10. /\ ParseLogLine(line, s).stream = s /\ ParseLogLine(line, s).content = w
       /\ ParseLogLine(line, s).ts = line[1].ts
  BY <1>7, <1>8
<1> QED  BY <1>4, <1>9, <1>10 DEF w

\* A line is appended as its entry; no line adds none.
LEMMA LineAppended ==
  ASSUME NEW line \in Seq(Stampeds), NEW s \in Streams, NEW lines \in Seq(LogEntries)
  PROVE  /\ Appended(lines, line, s) =
              IF line = <<>> THEN lines ELSE Append(lines, ParseLogLine(line, s))
         /\ Appended(lines, line, s) \in Seq(LogEntries)
<1>1. CASE line = <<>>  BY <1>1 DEF Appended
<1>2. CASE line # <<>>
  <2>1. ~Blank(line) /\ ParseLogLine(line, s) \in LogEntries  BY <1>2, LineParsed
  <2> QED  BY <1>2, <2>1 DEF Appended
<1> QED  BY <1>1, <1>2

\* What a frame does to the collectors.
LEMMA CollectorStep ==
  ASSUME NEW c \in Collectors, NEW f \in Stampeds
  PROVE  /\ f.stream \in Streams /\ f.eol \in BOOLEAN
         /\ CollectorWrite(c, f) \in Collectors
         /\ Append(c.buf[f.stream], f) \in Seq(Stampeds) /\ Append(c.buf[f.stream], f) # <<>>
         /\ \A s \in Streams : c.buf[s] \in Seq(Stampeds)
         /\ c.lines \in Seq(LogEntries)
         /\ CollectorWrite(c, f).lines =
              IF f.eol THEN Append(c.lines, ParseLogLine(Append(c.buf[f.stream], f), f.stream))
              ELSE c.lines
         /\ \A s \in Streams : CollectorWrite(c, f).buf[s] =
              IF s # f.stream THEN c.buf[s]
              ELSE IF f.eol THEN <<>> ELSE Append(c.buf[s], f)
<1> DEFINE s0 == f.stream
           line == Append(c.buf[s0], f)
           w == CollectorWrite(c, f)
           e == ParseLogLine(line, s0)
<1>1. s0 \in Streams /\ f.eol \in BOOLEAN  BY DEF Stampeds, LogFrames
<1>2. /\ \A s \in Streams : c.buf[s] \in Seq(Stampeds)
      /\ c.lines \in Seq(LogEntries) /\ c.buf \in [Streams -> Seq(Stampeds)]
      /\ c = [buf |-> c.buf, lines |-> c.lines]
  BY DEF Collectors
<1>3. line \in Seq(Stampeds) /\ line # <<>>
  <2>1. c.buf[s0] \in Seq(Stampeds)  BY <1>1, <1>2
  <2> QED  BY <2>1, Appending
<1>4. e \in LogEntries /\ Appended(c.lines, line, s0) = Append(c.lines, e)
  BY <1>1, <1>2, <1>3, LineParsed, LineAppended
<1>5. CASE f.eol
  <2>1. w = [buf |-> [c.buf EXCEPT ![s0] = <<>>], lines |-> Append(c.lines, e)]
    BY <1>4, <1>5 DEF CollectorWrite
  <2> HIDE DEF w, line, e, s0
  <2>2. w.lines = Append(c.lines, e) /\ w.buf = [c.buf EXCEPT ![s0] = <<>>]  BY <2>1
  <2>3. w.buf \in [Streams -> Seq(Stampeds)] /\ w.lines \in Seq(LogEntries)
    <3>1. w.lines \in Seq(LogEntries)  BY <1>2, <1>4, <2>2, Appending
    <3>2. <<>> \in Seq(Stampeds)  OBVIOUS
    <3>3. w.buf \in [Streams -> Seq(Stampeds)]  BY <1>2, <2>2, <3>2
    <3> QED  BY <3>1, <3>3
  <2>4. w \in Collectors  BY <2>1, <2>2, <2>3 DEF Collectors
  <2>5. \A s \in Streams : w.buf[s] = IF s # s0 THEN c.buf[s] ELSE <<>>  BY <1>2, <2>2
  <2> QED  BY <1>1, <1>2, <1>3, <1>5, <2>2, <2>4, <2>5 DEF w, line, e, s0
<1>6. CASE ~f.eol
  <2>1. w = [c EXCEPT !.buf[s0] = line]  BY <1>6 DEF CollectorWrite
  <2> HIDE DEF w, line, e, s0
  <2>2. w.lines = c.lines /\ w.buf = [c.buf EXCEPT ![s0] = line] /\ w = [buf |-> w.buf, lines |-> w.lines]
    BY <1>2, <2>1
  <2>3. w.buf \in [Streams -> Seq(Stampeds)] /\ w.lines \in Seq(LogEntries)  BY <1>2, <1>3, <2>2
  <2>4. w \in Collectors  BY <2>2, <2>3 DEF Collectors
  <2>5. \A s \in Streams : w.buf[s] = IF s # s0 THEN c.buf[s] ELSE line  BY <1>2, <2>2
  <2> QED  BY <1>1, <1>2, <1>3, <1>6, <2>2, <2>4, <2>5 DEF w, line, e, s0
<1> QED  BY <1>1, <1>5, <1>6

\* The collectors stay collectors.
LEMMA CollectorTyped ==
  Collecting \in Collectors /\ \A c \in Collectors, f \in Stampeds : CollectorWrite(c, f) \in Collectors
<1>1. Collecting \in Collectors
  <2>1. [s \in Streams |-> <<>>] \in [Streams -> Seq(Stampeds)] /\ <<>> \in Seq(LogEntries)  OBVIOUS
  <2> QED  BY <2>1 DEF Collecting, Collectors
<1> QED  BY <1>1, CollectorStep

CollectorRuns(C, q) ==
  /\ C \in [0..Len(q) -> Collectors] /\ C[0] = Collecting
  /\ \A k \in 1..Len(q) : C[k] = CollectorWrite(C[k - 1], q[k])

\* The collectors take one frame after the other.
LEMMA CollectorSteps ==
  ASSUME NEW q \in Seq(Stampeds)
  PROVE  \E C : CollectorRuns(C, q) /\ Collected(q) = C[Len(q)]
<1> DEFINE n == Len(q)
           D == DOMAIN q
           M(d) == CHOOSE x \in d : \A y \in d : x >= y
           op(acc, x) == CollectorWrite(acc, x)
           Fold(g) == [d \in SUBSET D |-> IF d = {} THEN Collecting ELSE op(g[d \ {M(d)}], q[M(d)])]
           iter == CHOOSE g : g = Fold(g)
<1>1. Collected(q) = iter[D]
  BY Zenon DEF Collected, FoldLeft, MapThenFoldSet, Max
<1>2. n \in Nat /\ D = 1..n /\ \A i \in D : q[i] \in Stampeds  BY SeqDomain
<1>3. \A d \in SUBSET D : d # {} => M(d) \in d  BY <1>2, GreatestNumber
<1>4. Collecting \in Collectors /\ \A x \in Collectors, y \in Stampeds : op(x, y) \in Collectors  BY CollectorTyped
<1>5. IsFiniteSet(D)  BY <1>2, FS_Interval
<1> HIDE DEF D, n, op, M
<1>6. iter = Fold(iter)
  <2> DEFINE pick == [d \in SUBSET D |-> M(d)]
             step == [x \in Collectors |-> [i \in D |-> op(x, q[i])]]
  <2>1. \A d \in SUBSET D : d # {} => pick[d] \in d  BY <1>3
  <2>2. step \in [Collectors -> [D -> Collectors]]  BY <1>2, <1>4
  <2>3. \A x \in Collectors, i \in D : step[x][i] = op(x, q[i])  OBVIOUS
  <2>4. \A d \in SUBSET D : pick[d] = M(d)  OBVIOUS
  <2> HIDE DEF pick, step
  <2>5. PICK g \in [SUBSET D -> Collectors] : IsFold(g, D, Collecting, pick, step)
    BY <1>4, <1>5, <2>1, <2>2, FoldExists
  <2>6. ASSUME NEW d \in SUBSET D, d # {}
        PROVE  step[g[d \ {pick[d]}]][pick[d]] = op(g[d \ {M(d)}], q[M(d)])
    <3>1. d \ {M(d)} \in SUBSET D /\ M(d) \in D  BY <1>3, <2>6
    <3>2. g[d \ {M(d)}] \in Collectors  BY <3>1
    <3> QED  BY <2>3, <2>4, <3>1, <3>2
  <2>7. \A d \in SUBSET D : g[d] = IF d = {} THEN Collecting ELSE op(g[d \ {M(d)}], q[M(d)])
    BY <2>5, <2>6 DEF IsFold
  <2>8. g = Fold(g)  BY <2>7
  <2> QED  BY <2>8
<1> HIDE DEF iter
<1>7. iter[1..0] = Collecting  BY <1>2, <1>6
<1>8. ASSUME NEW k \in Nat, k + 1 <= n PROVE iter[1..(k + 1)] = op(iter[1..k], q[k + 1])
  <2>1. 1..(k + 1) \in SUBSET D /\ 1..(k + 1) # {} /\ k + 1 \in Nat \ {0}
    <3>1. 1 \in 1..(k + 1) /\ k + 1 \in Nat \ {0}  OBVIOUS
    <3>2. \A i \in 1..(k + 1) : i \in 1..n  BY <1>2, <1>8
    <3> QED  BY <1>2, <3>1, <3>2
  <2>2. M(1..(k + 1)) = k + 1  BY <2>1, GreatestOf, Zenon DEF M
  <2>3. (1..(k + 1)) \ {k + 1} = 1..k  OBVIOUS
  <2>4. iter[1..(k + 1)] = op(iter[(1..(k + 1)) \ {M(1..(k + 1))}], q[M(1..(k + 1))])
    BY <1>6, <2>1
  <2> QED  BY <2>2, <2>3, <2>4
<1> DEFINE T == {k \in Nat : k <= n => iter[1..k] \in Collectors}
<1>9. 0 \in T  BY <1>4, <1>7
<1>10. ASSUME NEW k \in Nat, k \in T PROVE k + 1 \in T
  <2> SUFFICES ASSUME k + 1 <= n PROVE iter[1..(k + 1)] \in Collectors  OBVIOUS
  <2>1. iter[1..k] \in Collectors /\ q[k + 1] \in Stampeds  BY <1>2, <1>10
  <2> QED  BY <1>4, <1>8, <2>1
<1>11. \A k \in Nat : k \in T
  <2> HIDE DEF T
  <2> QED  BY <1>9, <1>10, NatSet
<1> DEFINE C == [k \in 0..n |-> iter[1..k]]
<1>12. C \in [0..n -> Collectors]  BY <1>2, <1>11
<1>13. ASSUME NEW k \in 1..n PROVE C[k] = CollectorWrite(C[k - 1], q[k])
  <2>1. k - 1 \in Nat /\ k - 1 \in 0..n /\ k \in 0..n /\ (k - 1) + 1 = k /\ (k - 1) + 1 <= n  BY <1>2
  <2>2. iter[1..((k - 1) + 1)] = op(iter[1..(k - 1)], q[(k - 1) + 1])  BY <1>8, <2>1
  <2>3. C[k] = iter[1..k] /\ C[k - 1] = iter[1..(k - 1)]  BY <2>1
  <2> QED  BY <2>1, <2>2, <2>3 DEF op
<1>14. C[0] = Collecting /\ C[n] = iter[D]  BY <1>2, <1>7
<1> HIDE DEF C
<1>15. CollectorRuns(C, q)  BY <1>12, <1>13, <1>14 DEF CollectorRuns, n
<1> QED  BY <1>1, <1>14, <1>15 DEF n

\* Nothing is collected of no frame.
LEMMA CollectedNone == Collected(<<>>) = Collecting
<1>1. <<>> \in Seq(Stampeds) /\ Len(<<>>) = 0  OBVIOUS
<1>2. PICK C : CollectorRuns(C, <<>>) /\ Collected(<<>>) = C[Len(<<>>)]  BY <1>1, CollectorSteps
<1> QED  BY <1>1, <1>2 DEF CollectorRuns

\* A frame more adds to what is collected.
LEMMA CollectedMore ==
  ASSUME NEW q \in Seq(Stampeds), NEW x \in Stampeds
  PROVE  Collected(Append(q, x)) = CollectorWrite(Collected(q), x) /\ Collected(q) \in Collectors
<1> DEFINE r == Append(q, x)
           n == Len(q)
<1>1. n \in Nat /\ r \in Seq(Stampeds) /\ Len(r) = n + 1 /\ r[n + 1] = x /\ \A i \in 1..n : r[i] = q[i]
  BY SeqDomain
<1>2. PICK C : CollectorRuns(C, q) /\ Collected(q) = C[n]  BY CollectorSteps
<1>3. PICK G : CollectorRuns(G, r) /\ Collected(r) = G[Len(r)]  BY <1>1, CollectorSteps
<1> HIDE DEF r, n
<1>4. /\ C[0] = Collecting /\ \A k \in 1..n : C[k] = CollectorWrite(C[k - 1], q[k])
      /\ C \in [0..n -> Collectors]
  BY <1>2 DEF CollectorRuns, n
<1>5. G[0] = Collecting /\ \A k \in 1..(n + 1) : G[k] = CollectorWrite(G[k - 1], r[k])
  BY <1>1, <1>3 DEF CollectorRuns
<1> DEFINE T == {k \in Nat : k <= n => C[k] = G[k]}
<1>6. 0 \in T  BY <1>4, <1>5
<1>7. ASSUME NEW k \in Nat, k \in T PROVE k + 1 \in T
  <2> SUFFICES ASSUME k + 1 <= n PROVE C[k + 1] = G[k + 1]  OBVIOUS
  <2>1. k + 1 \in 1..n /\ k + 1 \in 1..(n + 1) /\ (k + 1) - 1 = k  BY <1>1
  <2>2. C[k] = G[k]  BY <1>1, <1>7
  <2>3. C[k + 1] = CollectorWrite(C[k], q[k + 1])  BY <1>4, <2>1
  <2>4. G[k + 1] = CollectorWrite(G[k], r[k + 1])  BY <1>5, <2>1
  <2> QED  BY <1>1, <2>1, <2>2, <2>3, <2>4
<1>8. n \in T
  <2> HIDE DEF T
  <2> QED  BY <1>1, <1>6, <1>7, NatSet
<1>9. C[n] = G[n] /\ n + 1 \in 1..(n + 1) /\ (n + 1) - 1 = n  BY <1>1, <1>8
<1>10. G[n + 1] = CollectorWrite(G[n], r[n + 1])  BY <1>5, <1>9
<1>11. C[n] \in Collectors  BY <1>1, <1>4
<1> QED  BY <1>1, <1>2, <1>3, <1>9, <1>10, <1>11 DEF r

----------------------------------------------------------------------------

Cuts == [lines : Seq(Seq(Stampeds)), rest : Seq(Stampeds)]
NoCut == [lines |-> <<>>, rest |-> <<>>]
CutUp(q) == FoldLeft(Cut, NoCut, q)

\* What a frame does to the lines.
LEMMA CutStep ==
  ASSUME NEW c \in Cuts, NEW f \in Stampeds
  PROVE  /\ Cut(c, f) \in Cuts /\ c.lines \in Seq(Seq(Stampeds)) /\ c.rest \in Seq(Stampeds)
         /\ Append(c.rest, f) \in Seq(Stampeds)
         /\ Cut(c, f).lines = IF f.eol THEN Append(c.lines, Append(c.rest, f)) ELSE c.lines
         /\ Cut(c, f).rest = IF f.eol THEN <<>> ELSE Append(c.rest, f)
<1> DEFINE line == Append(c.rest, f)
           w == Cut(c, f)
<1>1. /\ c.lines \in Seq(Seq(Stampeds)) /\ c.rest \in Seq(Stampeds)
      /\ c = [lines |-> c.lines, rest |-> c.rest]
  BY DEF Cuts
<1>2. line \in Seq(Stampeds)  BY <1>1
<1>3. CASE f.eol
  <2>1. w = [lines |-> Append(c.lines, line), rest |-> <<>>]  BY <1>3 DEF Cut
  <2> HIDE DEF w, line
  <2>2. w.lines = Append(c.lines, line) /\ w.rest = <<>>  BY <2>1
  <2>3. w.lines \in Seq(Seq(Stampeds)) /\ w.rest \in Seq(Stampeds)  BY <1>1, <1>2, <2>2
  <2>4. w \in Cuts  BY <2>1, <2>2, <2>3 DEF Cuts
  <2> QED  BY <1>1, <1>2, <1>3, <2>2, <2>4 DEF w, line
<1>4. CASE ~f.eol
  <2>1. w = [c EXCEPT !.rest = line]  BY <1>1, <1>4 DEF Cut
  <2> HIDE DEF w, line
  <2>2. w.lines = c.lines /\ w.rest = line /\ w = [lines |-> w.lines, rest |-> w.rest]
    BY <1>1, <2>1
  <2>4. w \in Cuts  BY <1>1, <1>2, <2>2 DEF Cuts
  <2> QED  BY <1>1, <1>2, <1>4, <2>2, <2>4 DEF w, line
<1> QED  BY <1>3, <1>4

\* Lines that are cut stay lines.
LEMMA CutTyped == NoCut \in Cuts /\ \A c \in Cuts, f \in Stampeds : Cut(c, f) \in Cuts
<1>1. NoCut \in Cuts  BY DEF NoCut, Cuts
<1> QED  BY <1>1, CutStep

CutRuns(C, q) ==
  /\ C \in [0..Len(q) -> Cuts] /\ C[0] = NoCut
  /\ \A k \in 1..Len(q) : C[k] = Cut(C[k - 1], q[k])

\* So do the lines of an output.
LEMMA CutSteps ==
  ASSUME NEW q \in Seq(Stampeds)
  PROVE  \E C : CutRuns(C, q) /\ CutUp(q) = C[Len(q)]
<1> DEFINE n == Len(q)
           D == DOMAIN q
           M(d) == CHOOSE x \in d : \A y \in d : x >= y
           op(acc, x) == Cut(acc, x)
           Fold(g) == [d \in SUBSET D |-> IF d = {} THEN NoCut ELSE op(g[d \ {M(d)}], q[M(d)])]
           iter == CHOOSE g : g = Fold(g)
<1>1. CutUp(q) = iter[D]
  BY Zenon DEF CutUp, FoldLeft, MapThenFoldSet, Max
<1>2. n \in Nat /\ D = 1..n /\ \A i \in D : q[i] \in Stampeds  BY SeqDomain
<1>3. \A d \in SUBSET D : d # {} => M(d) \in d  BY <1>2, GreatestNumber
<1>4. NoCut \in Cuts /\ \A x \in Cuts, y \in Stampeds : op(x, y) \in Cuts  BY CutTyped
<1>5. IsFiniteSet(D)  BY <1>2, FS_Interval
<1> HIDE DEF D, n, op, M
<1>6. iter = Fold(iter)
  <2> DEFINE pick == [d \in SUBSET D |-> M(d)]
             step == [x \in Cuts |-> [i \in D |-> op(x, q[i])]]
  <2>1. \A d \in SUBSET D : d # {} => pick[d] \in d  BY <1>3
  <2>2. step \in [Cuts -> [D -> Cuts]]  BY <1>2, <1>4
  <2>3. \A x \in Cuts, i \in D : step[x][i] = op(x, q[i])  OBVIOUS
  <2>4. \A d \in SUBSET D : pick[d] = M(d)  OBVIOUS
  <2> HIDE DEF pick, step
  <2>5. PICK g \in [SUBSET D -> Cuts] : IsFold(g, D, NoCut, pick, step)
    BY <1>4, <1>5, <2>1, <2>2, FoldExists
  <2>6. ASSUME NEW d \in SUBSET D, d # {}
        PROVE  step[g[d \ {pick[d]}]][pick[d]] = op(g[d \ {M(d)}], q[M(d)])
    <3>1. d \ {M(d)} \in SUBSET D /\ M(d) \in D  BY <1>3, <2>6
    <3>2. g[d \ {M(d)}] \in Cuts  BY <3>1
    <3> QED  BY <2>3, <2>4, <3>1, <3>2
  <2>7. \A d \in SUBSET D : g[d] = IF d = {} THEN NoCut ELSE op(g[d \ {M(d)}], q[M(d)])
    BY <2>5, <2>6 DEF IsFold
  <2>8. g = Fold(g)  BY <2>7
  <2> QED  BY <2>8
<1> HIDE DEF iter
<1>7. iter[1..0] = NoCut  BY <1>2, <1>6
<1>8. ASSUME NEW k \in Nat, k + 1 <= n PROVE iter[1..(k + 1)] = op(iter[1..k], q[k + 1])
  <2>1. 1..(k + 1) \in SUBSET D /\ 1..(k + 1) # {} /\ k + 1 \in Nat \ {0}
    <3>1. 1 \in 1..(k + 1) /\ k + 1 \in Nat \ {0}  OBVIOUS
    <3>2. \A i \in 1..(k + 1) : i \in 1..n  BY <1>2, <1>8
    <3> QED  BY <1>2, <3>1, <3>2
  <2>2. M(1..(k + 1)) = k + 1  BY <2>1, GreatestOf, Zenon DEF M
  <2>3. (1..(k + 1)) \ {k + 1} = 1..k  OBVIOUS
  <2>4. iter[1..(k + 1)] = op(iter[(1..(k + 1)) \ {M(1..(k + 1))}], q[M(1..(k + 1))])
    BY <1>6, <2>1
  <2> QED  BY <2>2, <2>3, <2>4
<1> DEFINE T == {k \in Nat : k <= n => iter[1..k] \in Cuts}
<1>9. 0 \in T  BY <1>4, <1>7
<1>10. ASSUME NEW k \in Nat, k \in T PROVE k + 1 \in T
  <2> SUFFICES ASSUME k + 1 <= n PROVE iter[1..(k + 1)] \in Cuts  OBVIOUS
  <2>1. iter[1..k] \in Cuts /\ q[k + 1] \in Stampeds  BY <1>2, <1>10
  <2> QED  BY <1>4, <1>8, <2>1
<1>11. \A k \in Nat : k \in T
  <2> HIDE DEF T
  <2> QED  BY <1>9, <1>10, NatSet
<1> DEFINE C == [k \in 0..n |-> iter[1..k]]
<1>12. C \in [0..n -> Cuts]  BY <1>2, <1>11
<1>13. ASSUME NEW k \in 1..n PROVE C[k] = Cut(C[k - 1], q[k])
  <2>1. k - 1 \in Nat /\ k - 1 \in 0..n /\ k \in 0..n /\ (k - 1) + 1 = k /\ (k - 1) + 1 <= n  BY <1>2
  <2>2. iter[1..((k - 1) + 1)] = op(iter[1..(k - 1)], q[(k - 1) + 1])  BY <1>8, <2>1
  <2>3. C[k] = iter[1..k] /\ C[k - 1] = iter[1..(k - 1)]  BY <2>1
  <2> QED  BY <2>1, <2>2, <2>3 DEF op
<1>14. C[0] = NoCut /\ C[n] = iter[D]  BY <1>2, <1>7
<1> HIDE DEF C
<1>15. CutRuns(C, q)  BY <1>12, <1>13, <1>14 DEF CutRuns, n
<1> QED  BY <1>1, <1>14, <1>15 DEF n

\* Of no frame there is no line.
LEMMA CutNone == CutUp(<<>>) = NoCut
<1>1. <<>> \in Seq(Stampeds) /\ Len(<<>>) = 0  OBVIOUS
<1>2. PICK C : CutRuns(C, <<>>) /\ CutUp(<<>>) = C[Len(<<>>)]  BY <1>1, CutSteps
<1> QED  BY <1>1, <1>2 DEF CutRuns

\* A frame more adds to the lines.
LEMMA CutMore ==
  ASSUME NEW q \in Seq(Stampeds), NEW x \in Stampeds
  PROVE  CutUp(Append(q, x)) = Cut(CutUp(q), x) /\ CutUp(q) \in Cuts
<1> DEFINE r == Append(q, x)
           n == Len(q)
<1>1. n \in Nat /\ r \in Seq(Stampeds) /\ Len(r) = n + 1 /\ r[n + 1] = x /\ \A i \in 1..n : r[i] = q[i]
  BY SeqDomain
<1>2. PICK C : CutRuns(C, q) /\ CutUp(q) = C[n]  BY CutSteps
<1>3. PICK G : CutRuns(G, r) /\ CutUp(r) = G[Len(r)]  BY <1>1, CutSteps
<1> HIDE DEF r, n
<1>4. /\ C[0] = NoCut /\ \A k \in 1..n : C[k] = Cut(C[k - 1], q[k])
      /\ C \in [0..n -> Cuts]
  BY <1>2 DEF CutRuns, n
<1>5. G[0] = NoCut /\ \A k \in 1..(n + 1) : G[k] = Cut(G[k - 1], r[k])
  BY <1>1, <1>3 DEF CutRuns
<1> DEFINE T == {k \in Nat : k <= n => C[k] = G[k]}
<1>6. 0 \in T  BY <1>4, <1>5
<1>7. ASSUME NEW k \in Nat, k \in T PROVE k + 1 \in T
  <2> SUFFICES ASSUME k + 1 <= n PROVE C[k + 1] = G[k + 1]  OBVIOUS
  <2>1. k + 1 \in 1..n /\ k + 1 \in 1..(n + 1) /\ (k + 1) - 1 = k  BY <1>1
  <2>2. C[k] = G[k]  BY <1>1, <1>7
  <2>3. C[k + 1] = Cut(C[k], q[k + 1])  BY <1>4, <2>1
  <2>4. G[k + 1] = Cut(G[k], r[k + 1])  BY <1>5, <2>1
  <2> QED  BY <1>1, <2>1, <2>2, <2>3, <2>4
<1>8. n \in T
  <2> HIDE DEF T
  <2> QED  BY <1>1, <1>6, <1>7, NatSet
<1>9. C[n] = G[n] /\ n + 1 \in 1..(n + 1) /\ (n + 1) - 1 = n  BY <1>1, <1>8
<1>10. G[n + 1] = Cut(G[n], r[n + 1])  BY <1>5, <1>9
<1>11. C[n] \in Cuts  BY <1>1, <1>4
<1> QED  BY <1>1, <1>2, <1>3, <1>9, <1>10, <1>11 DEF r

----------------------------------------------------------------------------

\* The stream s of q is in the order of time; its timestamps.
InTime(q, s) == \A i, j \in OfStream(q, s) : i <= j => q[i].ts <= q[j].ts
Times(q, s) == {q[i].ts : i \in OfStream(q, s)}

\* r is q with x at its end, as far as the stream s can tell.
Extends(r, q, x, s) ==
  /\ OfStream(r, s) = IF x.stream = s THEN OfStream(q, s) \cup {Len(q) + 1} ELSE OfStream(q, s)
  /\ r[Len(q) + 1] = x
  /\ \A i \in OfStream(q, s) : i \in Nat /\ i < Len(q) + 1 /\ r[i] = q[i]

\* What is added at the end is the last of its stream.
LEMMA OfStreamMore ==
  ASSUME NEW S, NEW q \in Seq(S), NEW x \in S, NEW s
  PROVE  Extends(Append(q, x), q, x, s)
<1> DEFINE n == Len(q)
           r == Append(q, x)
<1>1. n \in Nat /\ DOMAIN q = 1..n  BY SeqDomain
<1>2. r \in Seq(S) /\ Len(r) = n + 1 /\ r[n + 1] = x /\ \A i \in 1..n : r[i] = q[i]  BY Appending
<1> HIDE DEF r, n
<1>3. DOMAIN r = 1..(n + 1)  BY <1>2, SeqDomain
<1>4. /\ \A i \in 1..(n + 1) : i \in 1..n \/ i = n + 1
      /\ \A i \in 1..n : i \in 1..(n + 1) /\ i \in Nat /\ i < n + 1
      /\ n + 1 \in 1..(n + 1)
  BY <1>1
<1>5. OfStream(r, s) = IF x.stream = s THEN OfStream(q, s) \cup {n + 1} ELSE OfStream(q, s)
  BY <1>1, <1>2, <1>3, <1>4 DEF OfStream
<1>6. \A i \in OfStream(q, s) : i \in 1..n  BY <1>1 DEF OfStream
<1>7. Extends(r, q, x, s)  BY <1>2, <1>4, <1>5, <1>6 DEF n, Extends
<1> QED  BY <1>7 DEF r

\* An entry that is not earlier keeps the order.
LEMMA InTimeMore ==
  ASSUME NEW S, NEW q \in Seq(S), NEW x \in S, NEW s, InTime(q, s), x.ts \in Nat,
         x.stream # s \/ \A t \in Times(q, s) : t <= x.ts
  PROVE  /\ InTime(Append(q, x), s)
         /\ Times(Append(q, x), s) = IF x.stream = s THEN Times(q, s) \cup {x.ts} ELSE Times(q, s)
<1> DEFINE n == Len(q)
           r == Append(q, x)
           I == OfStream(q, s)
           J == OfStream(r, s)
<1>1. /\ J = IF x.stream = s THEN I \cup {n + 1} ELSE I
      /\ r[n + 1] = x /\ \A i \in I : i \in Nat /\ i < n + 1 /\ r[i] = q[i]
  <2>1. Extends(r, q, x, s)  BY OfStreamMore
  <2> HIDE DEF r
  <2> QED  BY <2>1 DEF Extends
<1>2. n \in Nat  BY SeqDomain
<1>3. (\A i, j \in I : i <= j => q[i].ts <= q[j].ts) /\ Times(q, s) = {q[i].ts : i \in I}
      /\ Times(r, s) = {r[i].ts : i \in J}
  BY DEF InTime, Times
<1> HIDE DEF n, r, I, J
<1>4. CASE x.stream # s
  <2>1. J = I  BY <1>1, <1>4
  <2>2. \A i, j \in J : i <= j => r[i].ts <= r[j].ts  BY <1>1, <1>3, <2>1
  <2>3. Times(r, s) = Times(q, s)  BY <1>1, <1>3, <2>1
  <2> QED  BY <1>4, <2>2, <2>3 DEF InTime, r, J
<1>5. CASE x.stream = s
  <2>1. J = I \cup {n + 1}  BY <1>1, <1>5
  <2>2. \A i \in I : q[i].ts <= x.ts  BY <1>3, <1>5
  <2>3. ASSUME NEW i \in J, NEW j \in J, i <= j PROVE r[i].ts <= r[j].ts
    <3>1. CASE j = n + 1
      <4>1. CASE i = n + 1  BY <1>1, <3>1, <4>1
      <4>2. CASE i \in I  BY <1>1, <2>2, <3>1, <4>2
      <4> QED  BY <2>1, <4>1, <4>2
    <3>2. CASE j \in I
      <4>1. i # n + 1  BY <1>1, <1>2, <2>3, <3>2
      <4>2. i \in I  BY <2>1, <4>1
      <4> QED  BY <1>1, <1>3, <2>3, <3>2, <4>2
    <3> QED  BY <2>1, <3>1, <3>2
  <2>4. Times(r, s) = Times(q, s) \cup {x.ts}  BY <1>1, <1>3, <2>1
  <2> QED  BY <1>5, <2>3, <2>4 DEF InTime, r, J
<1> QED  BY <1>4, <1>5

----------------------------------------------------------------------------
(* The collectors and the lines of a stream.                               *)

Parsed(lines, s) == [i \in 1..Len(lines) |-> ParseLogLine(lines[i], s)]

\* A line more is an entry more.
LEMMA ParsedMore ==
  ASSUME NEW lines \in Seq(Seq(Stampeds)), NEW line \in Seq(Stampeds), NEW s,
         NEW q \in Seq(LogEntries), q = Parsed(lines, s), ParseLogLine(line, s) \in LogEntries
  PROVE  Append(q, ParseLogLine(line, s)) = Parsed(Append(lines, line), s)
<1> DEFINE n == Len(lines)
           m == Append(lines, line)
           e == ParseLogLine(line, s)
           a == Append(q, e)
<1>1. n \in Nat  BY SeqDomain
<1>2. Len(m) = n + 1 /\ m[n + 1] = line /\ \A i \in 1..n : m[i] = lines[i]  BY Appending
<1>3. Len(q) = n /\ \A i \in 1..n : q[i] = ParseLogLine(lines[i], s)
  <2>1. DOMAIN q = 1..n /\ \A i \in 1..n : q[i] = ParseLogLine(lines[i], s)  BY DEF Parsed
  <2>2. Len(q) \in Nat /\ DOMAIN q = 1..Len(q)  BY SeqDomain
  <2>3. Len(q) = n
    <3> HIDE DEF n
    <3> QED  BY <1>1, <2>1, <2>2
  <2> QED  BY <2>1, <2>3
<1>4. /\ a \in Seq(LogEntries) /\ Len(a) = n + 1 /\ a[n + 1] = e /\ \A i \in 1..n : a[i] = q[i]
  BY <1>3, Appending
<1> HIDE DEF n, m, a, e
<1>5. a = [i \in 1..(n + 1) |-> a[i]]  BY <1>4
<1>6. ASSUME NEW i \in 1..(n + 1) PROVE a[i] = ParseLogLine(m[i], s)
  <2>1. i \in 1..n \/ i = n + 1  BY <1>1
  <2> QED  BY <1>2, <1>3, <1>4, <2>1 DEF e
<1>7. Parsed(m, s) = [i \in 1..(n + 1) |-> ParseLogLine(m[i], s)]  BY <1>2 DEF Parsed
<1> QED  BY <1>5, <1>6, <1>7 DEF a, m, e

\* The collectors c have of the stream s what the lines k have, and in time.
Follows(c, k, s) == c.buf[s] = k.rest /\ Of(c.lines, s) = Parsed(k.lines, s)

Timely(c, q, s) ==
  /\ InTime(c.lines, s) /\ Times(c.lines, s) \subseteq Times(q, s)
  /\ c.buf[s] # <<>> =>
       /\ c.buf[s][1].ts \in Times(q, s)
       /\ \A t \in Times(c.lines, s) : t <= c.buf[s][1].ts

\* A frame reaches the collector and the lines of its stream alike.
LEMMA FollowsMore ==
  ASSUME NEW c \in Collectors, NEW k \in Cuts, NEW s \in Streams, Follows(c, k, s),
         NEW f \in Stampeds
  PROVE  Follows(CollectorWrite(c, f), IF f.stream = s THEN Cut(k, f) ELSE k, s)
<1> DEFINE w == CollectorWrite(c, f)
           v == Cut(k, f)
           s0 == f.stream
           line == Append(c.buf[s0], f)
           e == ParseLogLine(line, s0)
<1>1. /\ s0 \in Streams /\ line \in Seq(Stampeds) /\ line # <<>> /\ c.lines \in Seq(LogEntries)
      /\ w.lines = IF f.eol THEN Append(c.lines, e) ELSE c.lines
      /\ w.buf[s] = IF s # s0 THEN c.buf[s] ELSE IF f.eol THEN <<>> ELSE Append(c.buf[s], f)
  BY CollectorStep
<1>2. /\ k.lines \in Seq(Seq(Stampeds)) /\ k.rest \in Seq(Stampeds)
      /\ v.lines = IF f.eol THEN Append(k.lines, Append(k.rest, f)) ELSE k.lines
      /\ v.rest = IF f.eol THEN <<>> ELSE Append(k.rest, f)
  BY CutStep
<1>3. c.buf[s] = k.rest /\ Of(c.lines, s) = Parsed(k.lines, s)  BY DEF Follows
<1>4. e \in LogEntries /\ e.stream = s0  BY <1>1, LineParsed
<1> HIDE DEF w, v, e
<1>5. Of(Append(c.lines, e), s) = IF s0 = s THEN Append(Of(c.lines, s), e) ELSE Of(c.lines, s)
  <2>1. Of(Append(c.lines, e), s) =
          IF e.stream = s THEN Append(Of(c.lines, s), e) ELSE Of(c.lines, s)
    BY <1>1, <1>4, OfAppend, Zenon
  <2> QED  BY <1>4, <2>1
<1>6. CASE s0 # s
  <2>1. Of(w.lines, s) = Of(c.lines, s) /\ w.buf[s] = c.buf[s]  BY <1>1, <1>5, <1>6
  <2> QED  BY <1>3, <1>6, <2>1 DEF Follows, w
<1>7. CASE s0 = s
  <2>1. line = Append(k.rest, f)  BY <1>3, <1>7
  <2>2. Of(c.lines, s) \in Seq(LogEntries)  BY <1>1, OfTyped
  <2>3. Append(Of(c.lines, s), e) = Parsed(Append(k.lines, line), s)
    <3>1. e = ParseLogLine(line, s)  BY <1>7 DEF e
    <3> HIDE DEF line
    <3> QED  BY <1>1, <1>2, <1>3, <1>4, <2>2, <3>1, ParsedMore
  <2>4. Of(w.lines, s) = Parsed(v.lines, s)
    <3> HIDE DEF line
    <3>1. CASE f.eol
      <4>1. w.lines = Append(c.lines, e) /\ v.lines = Append(k.lines, line)  BY <1>1, <1>2, <2>1, <3>1
      <4> QED  BY <1>5, <1>7, <2>3, <4>1
    <3>2. CASE ~f.eol
      <4>1. w.lines = c.lines /\ v.lines = k.lines  BY <1>1, <1>2, <3>2
      <4> QED  BY <1>3, <4>1
    <3> QED  BY <3>1, <3>2
  <2>5. w.buf[s] = v.rest  BY <1>1, <1>2, <1>3, <1>7
  <2> QED  BY <1>7, <2>4, <2>5 DEF Follows, w, v
<1> QED  BY <1>6, <1>7

\* A frame in time keeps the collectors in time.
LEMMA TimelyMore ==
  ASSUME NEW q \in Seq(Stampeds), NEW c \in Collectors, NEW s \in Streams, Timely(c, q, s),
         NEW f \in Stampeds, InTime(Append(q, f), s)
  PROVE  Timely(CollectorWrite(c, f), Append(q, f), s)
<1> DEFINE w == CollectorWrite(c, f)
           s0 == f.stream
           line == Append(c.buf[s0], f)
           e == ParseLogLine(line, s0)
           r == Append(q, f)
           L == Times(c.lines, s)
           F == Times(q, s)
<1>1. /\ s0 \in Streams /\ line \in Seq(Stampeds) /\ line # <<>> /\ c.lines \in Seq(LogEntries)
      /\ \A z \in Streams : c.buf[z] \in Seq(Stampeds)
      /\ w.lines = IF f.eol THEN Append(c.lines, e) ELSE c.lines
      /\ w.buf[s] = IF s # s0 THEN c.buf[s] ELSE IF f.eol THEN <<>> ELSE Append(c.buf[s], f)
  BY CollectorStep
<1>2. e \in LogEntries /\ e.stream = s0 /\ e.ts = line[1].ts  BY <1>1, LineParsed
<1>3. /\ InTime(c.lines, s) /\ L \subseteq F
      /\ c.buf[s] # <<>> => c.buf[s][1].ts \in F /\ \A t \in L : t <= c.buf[s][1].ts
  BY DEF Timely
<1>4. f.ts \in Nat  BY DEF Stampeds, LogFrames
<1>5. ASSUME s0 = s, NEW t \in F PROVE t <= f.ts
  <2>1. PICK i \in OfStream(q, s) : t = q[i].ts  BY <1>5 DEF Times
  <2>2. /\ OfStream(r, s) = OfStream(q, s) \cup {Len(q) + 1} /\ r[Len(q) + 1] = f
        /\ i \in Nat /\ i < Len(q) + 1 /\ r[i] = q[i] /\ Len(q) \in Nat
    <3>1. /\ OfStream(r, s) = IF s0 = s THEN OfStream(q, s) \cup {Len(q) + 1} ELSE OfStream(q, s)
          /\ r[Len(q) + 1] = f
          /\ \A j \in OfStream(q, s) : j \in Nat /\ j < Len(q) + 1 /\ r[j] = q[j]
      <4>1. Extends(r, q, f, s)  BY OfStreamMore
      <4> HIDE DEF r
      <4> QED  BY <4>1 DEF Extends
    <3>2. Len(q) \in Nat  BY SeqDomain
    <3> HIDE DEF r
    <3> QED  BY <1>5, <2>1, <3>1, <3>2
  <2>3. i <= Len(q) + 1  BY <2>2
  <2>4. r[i].ts <= r[Len(q) + 1].ts  BY <2>2, <2>3 DEF InTime
  <2> QED  BY <2>1, <2>2, <2>4
<1>6. Times(r, s) = IF s0 = s THEN F \cup {f.ts} ELSE F
  <2>1. /\ OfStream(r, s) = IF s0 = s THEN OfStream(q, s) \cup {Len(q) + 1} ELSE OfStream(q, s)
        /\ r[Len(q) + 1] = f /\ \A i \in OfStream(q, s) : r[i] = q[i]
    <3>1. Extends(r, q, f, s)  BY OfStreamMore
    <3> HIDE DEF r
    <3> QED  BY <3>1 DEF Extends
  <2> HIDE DEF r
  <2> QED  BY <2>1 DEF Times
<1>7. CASE s0 # s
  <2>1. w.buf[s] = c.buf[s] /\ Times(r, s) = F  BY <1>1, <1>6, <1>7
  <2>2. InTime(w.lines, s) /\ Times(w.lines, s) = L
    <3>1. CASE f.eol
      <4>1. e.ts \in Nat /\ e.stream # s  BY <1>2, <1>7 DEF LogEntries
      <4>2. w.lines = Append(c.lines, e)  BY <1>1, <3>1
      <4> HIDE DEF e, w
      <4> QED  BY <1>1, <1>2, <1>3, <4>1, <4>2, InTimeMore
    <3>2. CASE ~f.eol  BY <1>1, <1>3, <3>2
    <3> QED  BY <3>1, <3>2
  <2> HIDE DEF w, r, L, F
  <2> QED  BY <1>3, <2>1, <2>2 DEF Timely, w, r
<1>8. CASE s0 = s
  <2> DEFINE b == c.buf[s]
  <2>1. b \in Seq(Stampeds) /\ line = Append(b, f) /\ Times(r, s) = F \cup {f.ts}
    BY <1>1, <1>6, <1>8
  <2>2. /\ line[1].ts \in F \cup {f.ts}
        /\ \A t \in L : t <= line[1].ts
    <3>1. CASE b = <<>>
      <4>1. Len(b) = 0 /\ line[Len(b) + 1] = f  BY <2>1, <3>1, Appending
      <4>2. line[1] = f  BY <4>1
      <4> HIDE DEF L, F, line
      <4> QED  BY <1>3, <1>5, <1>8, <4>2
    <3>2. CASE b # <<>>
      <4>1. Len(b) \in Nat /\ Len(b) # 0  BY <2>1, <3>2
      <4>2. 1 \in 1..Len(b)  BY <4>1
      <4>3. line[1] = b[1]  BY <2>1, <4>2, Appending
      <4> HIDE DEF L, F, line
      <4> QED  BY <1>3, <3>2, <4>3
    <3> QED  BY <3>1, <3>2
  <2>3. CASE f.eol
    <3>1. w.lines = Append(c.lines, e) /\ w.buf[s] = <<>>  BY <1>1, <1>8, <2>3
    <3>2. e.ts \in Nat /\ e.stream = s /\ \A t \in L : t <= e.ts  BY <1>2, <1>8, <2>2 DEF LogEntries
    <3> HIDE DEF e, w, line
    <3>3. InTime(w.lines, s) /\ Times(w.lines, s) = L \cup {e.ts}
      BY <1>1, <1>2, <1>3, <3>1, <3>2, InTimeMore
    <3>4. Times(w.lines, s) \subseteq Times(r, s)
      <4> HIDE DEF L, F, r
      <4> QED  BY <1>2, <1>3, <2>1, <2>2, <3>3
    <3> HIDE DEF r
    <3> QED  BY <3>1, <3>3, <3>4 DEF Timely, w, r
  <2>4. CASE ~f.eol
    <3>1. w.lines = c.lines /\ w.buf[s] = line  BY <1>1, <1>8, <2>1, <2>4
    <3> HIDE DEF w, line, r, F
    <3> QED  BY <1>3, <2>1, <2>2, <3>1 DEF Timely, w, r
  <2> QED  BY <2>3, <2>4
<1> QED  BY <1>7, <1>8

\* A sequence grows from nothing, one element at a time.
LEMMA PrefixSteps ==
  ASSUME NEW S, NEW q \in Seq(S)
  PROVE  /\ Len(q) \in Nat /\ SubSeq(q, 1, 0) = <<>> /\ SubSeq(q, 1, Len(q)) = q
         /\ \A k \in 0..Len(q) : /\ SubSeq(q, 1, k) \in Seq(S) /\ Len(SubSeq(q, 1, k)) = k
                                 /\ \A i \in 1..k : SubSeq(q, 1, k)[i] = q[i]
         /\ \A k \in Nat : k + 1 <= Len(q) =>
              q[k + 1] \in S /\ SubSeq(q, 1, k + 1) = Append(SubSeq(q, 1, k), q[k + 1])
<1>1. Len(q) \in Nat /\ SubSeq(q, 1, 0) = <<>> /\ SubSeq(q, 1, Len(q)) = q  OBVIOUS
<1>2. ASSUME NEW k \in 0..Len(q)
      PROVE  /\ SubSeq(q, 1, k) \in Seq(S) /\ Len(SubSeq(q, 1, k)) = k
             /\ \A i \in 1..k : SubSeq(q, 1, k)[i] = q[i]
  OBVIOUS
<1>3. ASSUME NEW k \in Nat, k + 1 <= Len(q)
      PROVE  q[k + 1] \in S /\ SubSeq(q, 1, k + 1) = Append(SubSeq(q, 1, k), q[k + 1])
  <2> DEFINE a == SubSeq(q, 1, k)
             b == SubSeq(q, 1, k + 1)
             x == q[k + 1]
  <2>1. k \in 0..Len(q) /\ k + 1 \in 0..Len(q) /\ k + 1 \in 1..Len(q)  BY <1>1, <1>3
  <2>2. x \in S  BY <2>1
  <2>3. a \in Seq(S) /\ Len(a) = k /\ \A i \in 1..k : a[i] = q[i]  BY <1>2, <2>1
  <2>4. b \in Seq(S) /\ Len(b) = k + 1 /\ \A i \in 1..(k + 1) : b[i] = q[i]  BY <1>2, <2>1
  <2> HIDE DEF a, b
  <2>5. /\ Append(a, x) \in Seq(S) /\ Len(Append(a, x)) = k + 1 /\ Append(a, x)[k + 1] = x
        /\ \A i \in 1..k : Append(a, x)[i] = a[i]
    BY <2>2, <2>3, Appending
  <2>6. ASSUME NEW i \in 1..(k + 1) PROVE b[i] = Append(a, x)[i]
    <3>1. i \in 1..k \/ i = k + 1  OBVIOUS
    <3> QED  BY <2>3, <2>4, <2>5, <3>1
  <2>7. b = Append(a, x)  BY <2>4, <2>5, <2>6
  <2> QED  BY <2>2, <2>7 DEF a, b
<1> QED  BY <1>1, <1>2, <1>3

\* What is collected of the frames q follows the lines of each stream.
Collects(q, s) ==
  /\ Collected(q) \in Collectors /\ CutUp(Of(q, s)) \in Cuts
  /\ Follows(Collected(q), CutUp(Of(q, s)), s)
  /\ Timely(Collected(q), q, s)

\* Nothing is collected of nothing, ...
LEMMA CollectsNone == ASSUME NEW s \in Streams PROVE Collects(<<>>, s)
<1>1. Collected(<<>>) = Collecting /\ CutUp(Of(<<>>, s)) = NoCut
  BY CollectedNone, CutNone, OfEmpty
<1>2. Collecting.buf[s] = <<>> /\ Collecting.lines = <<>>  BY DEF Collecting
<1>3. NoCut.rest = <<>> /\ NoCut.lines = <<>>  BY DEF NoCut
<1>4. Parsed(<<>>, s) = <<>>  BY DEF Parsed
<1>5. Follows(Collecting, NoCut, s)  BY <1>2, <1>3, <1>4, OfEmpty DEF Follows
<1>6. InTime(<<>>, s) /\ Times(<<>>, s) = {}
  <2>1. OfStream(<<>>, s) = {}  BY DEF OfStream
  <2> QED  BY <2>1 DEF InTime, Times
<1>7. Timely(Collecting, <<>>, s)  BY <1>2, <1>6 DEF Timely
<1> QED  BY <1>1, <1>5, <1>7, CollectorTyped, CutTyped DEF Collects

\* ... a frame more keeps the collectors with the lines, ...
LEMMA CollectsMore ==
  ASSUME NEW q \in Seq(Stampeds), NEW f \in Stampeds, NEW s \in Streams, Collects(q, s),
         InTime(Append(q, f), s)
  PROVE  Collects(Append(q, f), s)
<1> DEFINE r == Append(q, f)
           c == Collected(q)
           k == CutUp(Of(q, s))
           v == IF f.stream = s THEN Cut(k, f) ELSE k
<1>1. c \in Collectors /\ k \in Cuts /\ Follows(c, k, s) /\ Timely(c, q, s)  BY DEF Collects
<1>2. Collected(r) = CollectorWrite(c, f)  BY CollectedMore
<1>3. CutUp(Of(r, s)) = v
  <2>1. Of(q, s) \in Seq(Stampeds)  BY OfTyped
  <2>2. Of(r, s) = IF f.stream = s THEN Append(Of(q, s), f) ELSE Of(q, s)  BY OfAppend
  <2>3. CutUp(Append(Of(q, s), f)) = Cut(k, f)  BY <2>1, CutMore
  <2> HIDE DEF r
  <2> QED  BY <2>2, <2>3
<1>4. CollectorWrite(c, f) \in Collectors  BY <1>1, CollectorTyped
<1>5. v \in Cuts  BY <1>1, CutTyped
<1>6. Follows(CollectorWrite(c, f), v, s)  BY <1>1, FollowsMore
<1>7. Timely(CollectorWrite(c, f), r, s)  BY <1>1, TimelyMore
<1> HIDE DEF r, v, c, k
<1>8. Collects(r, s)  BY <1>2, <1>3, <1>4, <1>5, <1>6, <1>7 DEF Collects
<1> QED  BY <1>8 DEF r

\* ... and so they agree on all frames.
LEMMA CollectsAll ==
  ASSUME NEW q \in Seq(Stampeds), NEW s \in Streams, InTime(q, s)
  PROVE  Collects(q, s)
<1> DEFINE n == Len(q)
           P(k) == SubSeq(q, 1, k)
           T == {k \in Nat : k <= n => Collects(P(k), s)}
<1>1. /\ n \in Nat /\ P(0) = <<>> /\ P(n) = q
      /\ \A k \in 0..n : P(k) \in Seq(Stampeds) /\ Len(P(k)) = k /\ \A i \in 1..k : P(k)[i] = q[i]
      /\ \A k \in Nat : k + 1 <= n => q[k + 1] \in Stampeds /\ P(k + 1) = Append(P(k), q[k + 1])
  BY PrefixSteps
<1> HIDE DEF P, n
<1>2. ASSUME NEW k \in 0..n PROVE InTime(P(k), s)
  <2>1. P(k) \in Seq(Stampeds) /\ Len(P(k)) = k /\ \A i \in 1..k : P(k)[i] = q[i]  BY <1>1
  <2>2. DOMAIN P(k) = 1..k  BY <2>1, SeqDomain
  <2>3. DOMAIN q = 1..n /\ \A i \in 1..k : i \in 1..n  BY <1>1, SeqDomain DEF n
  <2>4. \A i \in OfStream(P(k), s) : i \in OfStream(q, s) /\ P(k)[i] = q[i]
    BY <2>1, <2>2, <2>3 DEF OfStream
  <2> QED  BY <2>4 DEF InTime
<1>3. 0 \in T  BY <1>1, CollectsNone
<1>4. ASSUME NEW k \in Nat, k \in T PROVE k + 1 \in T
  <2> SUFFICES ASSUME k + 1 <= n PROVE Collects(P(k + 1), s)  OBVIOUS
  <2>1. k \in 0..n /\ k + 1 \in 0..n /\ Collects(P(k), s)  BY <1>1, <1>4
  <2>2. P(k) \in Seq(Stampeds) /\ q[k + 1] \in Stampeds /\ P(k + 1) = Append(P(k), q[k + 1])
    BY <1>1, <2>1
  <2>3. InTime(Append(P(k), q[k + 1]), s)  BY <1>2, <2>1, <2>2
  <2>4. Collects(Append(P(k), q[k + 1]), s)  BY <2>1, <2>2, <2>3, CollectsMore
  <2> QED  BY <2>2, <2>4
<1>5. n \in T
  <2> HIDE DEF T
  <2> QED  BY <1>1, <1>3, <1>4, NatSet
<1> QED  BY <1>1, <1>5

\* The last lines, which have not ended, are added: of each stream one.
LEMMA FlushedLine ==
  ASSUME NEW lines \in Seq(LogEntries), NEW line \in Seq(Stampeds), NEW z \in Streams,
         NEW s \in Streams, InTime(lines, s),
         z = s /\ line # <<>> => \A t \in Times(lines, s) : t <= line[1].ts
  PROVE  /\ Appended(lines, line, z) \in Seq(LogEntries)
         /\ Of(Appended(lines, line, z), s) =
              IF z = s /\ line # <<>> THEN Append(Of(lines, s), ParseLogLine(line, s)) ELSE Of(lines, s)
         /\ InTime(Appended(lines, line, z), s)
         /\ z # s => Times(Appended(lines, line, z), s) = Times(lines, s)
<1> DEFINE a == Appended(lines, line, z)
           e == ParseLogLine(line, z)
<1>1. a \in Seq(LogEntries) /\ a = IF line = <<>> THEN lines ELSE Append(lines, e)  BY LineAppended
<1>2. CASE line = <<>>  BY <1>1, <1>2
<1>3. CASE line # <<>>
  <2>1. e \in LogEntries /\ e.stream = z /\ e.ts = line[1].ts  BY <1>3, LineParsed
  <2>2. e.ts \in Nat  BY <2>1 DEF LogEntries
  <2>3. a = Append(lines, e)  BY <1>1, <1>3
  <2>4. z = s => e = ParseLogLine(line, s)  OBVIOUS
  <2> HIDE DEF a, e
  <2>5. e.stream # s \/ \A t \in Times(lines, s) : t <= e.ts  BY <1>3, <2>1
  <2>6. /\ InTime(Append(lines, e), s)
        /\ Times(Append(lines, e), s) =
             IF e.stream = s THEN Times(lines, s) \cup {e.ts} ELSE Times(lines, s)
    BY <2>1, <2>2, <2>5, InTimeMore
  <2>7. Of(Append(lines, e), s) = IF e.stream = s THEN Append(Of(lines, s), e) ELSE Of(lines, s)
    BY <2>1, OfAppend, Zenon
  <2>8. Of(a, s) = IF z = s /\ line # <<>> THEN Append(Of(lines, s), ParseLogLine(line, s)) ELSE Of(lines, s)
    BY <1>3, <2>1, <2>3, <2>4, <2>7
  <2>9. InTime(a, s) /\ (z # s => Times(a, s) = Times(lines, s))  BY <2>1, <2>3, <2>6
  <2> QED  BY <1>1, <2>8, <2>9 DEF a
<1> QED  BY <1>2, <1>3

\* What is stored has of each stream the lines of its frames, in the order of time.
LEMMA FlushedAll ==
  ASSUME NEW q \in Seq(Stampeds), NEW s \in Streams, InTime(q, s)
  PROVE  /\ Flush(Collected(q)) \in Seq(LogEntries)
         /\ Of(Flush(Collected(q)), s) = Parsed(LinesOf(Of(q, s)), s)
         /\ LinesOf(Of(q, s)) \in Seq(Seq(Stampeds))
         /\ InTime(Flush(Collected(q)), s)
<1> DEFINE c == Collected(q)
           k == CutUp(Of(q, s))
           b == c.buf[s]
           one == Appended(c.lines, c.buf["stdout"], "stdout")
           all == Appended(one, c.buf["stderr"], "stderr")
<1>1. c \in Collectors /\ k \in Cuts /\ Follows(c, k, s) /\ Timely(c, q, s)
  BY CollectsAll DEF Collects
<1>2. c.lines \in Seq(LogEntries) /\ \A z \in Streams : c.buf[z] \in Seq(Stampeds)
  BY <1>1 DEF Collectors
<1>3. k.lines \in Seq(Seq(Stampeds)) /\ k.rest \in Seq(Stampeds)  BY <1>1 DEF Cuts
<1>4. b = k.rest /\ Of(c.lines, s) = Parsed(k.lines, s)  BY <1>1 DEF Follows
<1>5. InTime(c.lines, s) /\ (b # <<>> => \A t \in Times(c.lines, s) : t <= b[1].ts)
  BY <1>1 DEF Timely
<1>6. Flush(c) = all  BY DEF Flush
<1>7. LinesOf(Of(q, s)) = IF k.rest = <<>> THEN k.lines ELSE Append(k.lines, k.rest)
  BY Zenon DEF LinesOf, CutUp, NoCut
<1> HIDE DEF c, k
<1>8. "stdout" \in Streams /\ "stderr" \in Streams /\ (s = "stdout" \/ s = "stderr") /\ "stdout" # "stderr"
  BY DEF Streams
<1>9. /\ one \in Seq(LogEntries) /\ InTime(one, s)
      /\ Of(one, s) = IF s = "stdout" /\ b # <<>> THEN Append(Of(c.lines, s), ParseLogLine(b, s))
                      ELSE Of(c.lines, s)
      /\ s # "stdout" => Times(one, s) = Times(c.lines, s)
  <2> DEFINE u == c.buf["stdout"]
  <2>1. u \in Seq(Stampeds) /\ (s = "stdout" => u = b)  BY <1>2, <1>8
  <2>2. "stdout" = s /\ u # <<>> => \A t \in Times(c.lines, s) : t <= u[1].ts  BY <1>5, <2>1
  <2> HIDE DEF u, b
  <2>3. /\ Appended(c.lines, u, "stdout") \in Seq(LogEntries)
        /\ Of(Appended(c.lines, u, "stdout"), s) =
              IF "stdout" = s /\ u # <<>> THEN Append(Of(c.lines, s), ParseLogLine(u, s)) ELSE Of(c.lines, s)
        /\ InTime(Appended(c.lines, u, "stdout"), s)
        /\ "stdout" # s => Times(Appended(c.lines, u, "stdout"), s) = Times(c.lines, s)
    BY <1>2, <1>5, <1>8, <2>1, <2>2, FlushedLine
  <2>4. one = Appended(c.lines, u, "stdout")  BY DEF u
  <2> HIDE DEF one
  <2> QED  BY <2>1, <2>3, <2>4
<1> HIDE DEF one
<1>10. /\ all \in Seq(LogEntries) /\ InTime(all, s)
       /\ Of(all, s) = IF s = "stderr" /\ b # <<>> THEN Append(Of(one, s), ParseLogLine(b, s))
                       ELSE Of(one, s)
  <2> DEFINE u == c.buf["stderr"]
  <2>1. u \in Seq(Stampeds) /\ (s = "stderr" => u = b)  BY <1>2, <1>8
  <2>2. "stderr" = s /\ u # <<>> => \A t \in Times(one, s) : t <= u[1].ts  BY <1>5, <1>8, <1>9, <2>1
  <2> HIDE DEF u, b
  <2>3. /\ Appended(one, u, "stderr") \in Seq(LogEntries)
        /\ Of(Appended(one, u, "stderr"), s) =
              IF "stderr" = s /\ u # <<>> THEN Append(Of(one, s), ParseLogLine(u, s)) ELSE Of(one, s)
        /\ InTime(Appended(one, u, "stderr"), s)
    BY <1>8, <1>9, <2>1, <2>2, FlushedLine
  <2>4. all = Appended(one, u, "stderr")  BY DEF u
  <2> HIDE DEF all
  <2> QED  BY <2>1, <2>3, <2>4
<1> HIDE DEF all, b
<1>11. Of(all, s) = IF b # <<>> THEN Append(Of(c.lines, s), ParseLogLine(b, s)) ELSE Of(c.lines, s)
  BY <1>8, <1>9, <1>10
<1>12. CASE b = <<>>
  BY <1>3, <1>4, <1>6, <1>7, <1>10, <1>11, <1>12 DEF c
<1>13. CASE b # <<>>
  <2>1. b \in Seq(Stampeds)  BY <1>3, <1>4
  <2>2. Of(c.lines, s) \in Seq(LogEntries)  BY <1>2, OfTyped
  <2>3. ParseLogLine(b, s) \in LogEntries  BY <1>13, <2>1, LineParsed
  <2>4. Append(Of(c.lines, s), ParseLogLine(b, s)) = Parsed(Append(k.lines, b), s)
    BY <1>3, <1>4, <2>1, <2>2, <2>3, ParsedMore
  <2>5. Append(k.lines, b) \in Seq(Seq(Stampeds))  BY <1>3, <2>1, Appending
  <2>6. LinesOf(Of(q, s)) = Append(k.lines, b)  BY <1>4, <1>7, <1>13
  <2> QED  BY <1>6, <1>10, <1>11, <1>13, <2>4, <2>5, <2>6 DEF c
<1> QED  BY <1>12, <1>13
----------------------------------------------------------------------------
(* What is captured.                                                       *)

\* Frames that are whole lines become entries one by one.
Singles(q) == [i \in 1..Len(q) |-> ParseLogLine(<<q[i]>>, q[i].stream)]
Singly(q) ==
  /\ Collected(q) \in Collectors /\ \A z \in Streams : Collected(q).buf[z] = <<>>
  /\ Collected(q).lines = Singles(q)

\* A frame more that is a line is an entry more.
LEMMA SinglyMore ==
  ASSUME NEW q \in Seq(Stampeds), Singly(q), NEW f \in Stampeds, f.eol
  PROVE  Singly(Append(q, f))
<1> DEFINE r == Append(q, f)
           c == Collected(q)
           w == CollectorWrite(c, f)
           n == Len(q)
           s0 == f.stream
           e == ParseLogLine(<<f>>, s0)
<1>1. c \in Collectors /\ (\A z \in Streams : c.buf[z] = <<>>) /\ c.lines = Singles(q)  BY DEF Singly
<1>2. Collected(r) = w  BY CollectedMore
<1> HIDE DEF c
<1>3. /\ s0 \in Streams /\ w \in Collectors /\ c.lines \in Seq(LogEntries)
      /\ w.lines = Append(c.lines, ParseLogLine(Append(c.buf[s0], f), s0))
      /\ \A z \in Streams : w.buf[z] = IF z # s0 THEN c.buf[z] ELSE <<>>
  BY <1>1, CollectorStep
<1>4. Append(c.buf[s0], f) = <<f>>
  <2>1. c.buf[s0] = <<>>  BY <1>1, <1>3
  <2> QED  BY <2>1
<1>5. w.lines = Append(c.lines, e) /\ \A z \in Streams : w.buf[z] = <<>>  BY <1>1, <1>3, <1>4
<1>6. n \in Nat /\ Len(r) = n + 1 /\ r[n + 1] = f /\ \A i \in 1..n : r[i] = q[i]
  BY SeqDomain, Appending
<1>7. e \in LogEntries
  <2>1. <<f>> \in Seq(Stampeds) /\ <<f>> # <<>>  OBVIOUS
  <2> QED  BY <1>3, <2>1, LineParsed
<1> HIDE DEF w, r, n, e
<1>8. Len(c.lines) = n /\ \A i \in 1..n : c.lines[i] = ParseLogLine(<<q[i]>>, q[i].stream)
  <2>1. /\ DOMAIN c.lines = 1..n
        /\ \A i \in 1..n : c.lines[i] = ParseLogLine(<<q[i]>>, q[i].stream)
    BY <1>1 DEF Singles, n
  <2>2. Len(c.lines) \in Nat /\ DOMAIN c.lines = 1..Len(c.lines)  BY <1>3, SeqDomain
  <2>3. Len(c.lines) = n  BY <1>6, <2>1, <2>2
  <2> QED  BY <2>1, <2>3
<1>9. /\ w.lines \in Seq(LogEntries) /\ Len(w.lines) = n + 1 /\ w.lines[n + 1] = e
      /\ \A i \in 1..n : w.lines[i] = c.lines[i]
  BY <1>3, <1>5, <1>7, <1>8, Appending
<1>10. w.lines = [i \in 1..(n + 1) |-> w.lines[i]]  BY <1>9
<1>11. ASSUME NEW i \in 1..(n + 1) PROVE w.lines[i] = ParseLogLine(<<r[i]>>, r[i].stream)
  <2>1. i \in 1..n \/ i = n + 1  BY <1>6
  <2> QED  BY <1>6, <1>8, <1>9, <2>1 DEF e
<1>12. Singles(r) = [i \in 1..(n + 1) |-> ParseLogLine(<<r[i]>>, r[i].stream)]  BY <1>6 DEF Singles
<1>13. w.lines = Singles(r)  BY <1>10, <1>11, <1>12
<1>14. Singly(r)  BY <1>2, <1>3, <1>5, <1>13 DEF Singly
<1> QED  BY <1>14 DEF r

\* So an output of whole lines is collected as it is sent.
LEMMA SinglyAll ==
  ASSUME NEW q \in Seq(Stampeds), \A i \in DOMAIN q : q[i].eol
  PROVE  Flush(Collected(q)) = Singles(q)
<1> DEFINE n == Len(q)
           P(k) == SubSeq(q, 1, k)
           T == {k \in Nat : k <= n => Singly(P(k))}
<1>1. /\ n \in Nat /\ P(0) = <<>> /\ P(n) = q
      /\ \A k \in 0..n : P(k) \in Seq(Stampeds) /\ Len(P(k)) = k /\ \A i \in 1..k : P(k)[i] = q[i]
      /\ \A k \in Nat : k + 1 <= n => q[k + 1] \in Stampeds /\ P(k + 1) = Append(P(k), q[k + 1])
  BY PrefixSteps
<1>2. DOMAIN q = 1..n  BY SeqDomain
<1> HIDE DEF P, n
<1>3. 0 \in T
  <2>1. Collecting.lines = <<>> /\ \A z \in Streams : Collecting.buf[z] = <<>>  BY DEF Collecting
  <2>2. Singles(<<>>) = <<>>  BY DEF Singles
  <2>3. Singly(<<>>)  BY <2>1, <2>2, CollectedNone, CollectorTyped DEF Singly
  <2> QED  BY <1>1, <2>3
<1>4. ASSUME NEW k \in Nat, k \in T PROVE k + 1 \in T
  <2> SUFFICES ASSUME k + 1 <= n PROVE Singly(P(k + 1))  OBVIOUS
  <2>1. k \in 0..n /\ k + 1 \in 1..n /\ Singly(P(k))  BY <1>1, <1>4
  <2>2. P(k) \in Seq(Stampeds) /\ q[k + 1] \in Stampeds /\ P(k + 1) = Append(P(k), q[k + 1])
    BY <1>1, <2>1
  <2>3. q[k + 1].eol  BY <1>2, <2>1
  <2>4. Singly(Append(P(k), q[k + 1]))  BY <2>1, <2>2, <2>3, SinglyMore
  <2> QED  BY <2>2, <2>4
<1>5. n \in T
  <2> HIDE DEF T
  <2> QED  BY <1>1, <1>3, <1>4, NatSet
<1>6. Singly(q)  BY <1>1, <1>5
<1> DEFINE c == Collected(q)
<1>7. c.buf["stdout"] = <<>> /\ c.buf["stderr"] = <<>> /\ c.lines = Singles(q)
  BY <1>6 DEF Singly, Streams
<1> HIDE DEF c
<1>8. Flush(c) = c.lines  BY <1>7 DEF Flush, Appended
<1> QED  BY <1>7, <1>8 DEF c

\* Of a frame there is an entry: only no output leaves no log.
LEMMA SomethingCollected ==
  ASSUME NEW q \in Seq(Stampeds), q # <<>>
  PROVE  Flush(Collected(q)) # <<>>
<1> DEFINE n == Len(q)
           p == SubSeq(q, 1, n - 1)
           f == q[n]
           c == Collected(p)
           w == CollectorWrite(c, f)
           one == Appended(w.lines, w.buf["stdout"], "stdout")
           all == Appended(one, w.buf["stderr"], "stderr")
<1>1. n \in Nat /\ n # 0  OBVIOUS
<1>2. n - 1 \in Nat /\ (n - 1) + 1 = n /\ n - 1 \in 0..n /\ n <= n  BY <1>1
<1>3. p \in Seq(Stampeds) /\ f \in Stampeds /\ q = Append(p, f)
  <2>1. /\ SubSeq(q, 1, Len(q)) = q
        /\ \A k \in 0..Len(q) : SubSeq(q, 1, k) \in Seq(Stampeds)
        /\ \A k \in Nat : k + 1 <= Len(q) =>
              q[k + 1] \in Stampeds /\ SubSeq(q, 1, k + 1) = Append(SubSeq(q, 1, k), q[k + 1])
    BY PrefixSteps
  <2>2. q[(n - 1) + 1] \in Stampeds /\ SubSeq(q, 1, (n - 1) + 1) = Append(p, q[(n - 1) + 1])
    BY <1>2, <2>1
  <2> QED  BY <1>2, <2>1, <2>2
<1> HIDE DEF p, f, n
<1>4. Collected(q) = w /\ c \in Collectors  BY <1>3, CollectedMore
<1> HIDE DEF c
<1>5. /\ f.stream \in Streams /\ f.eol \in BOOLEAN /\ w \in Collectors /\ c.lines \in Seq(LogEntries)
      /\ w.lines = IF f.eol THEN Append(c.lines, ParseLogLine(Append(c.buf[f.stream], f), f.stream))
                   ELSE c.lines
      /\ w.buf[f.stream] = IF f.eol THEN <<>> ELSE Append(c.buf[f.stream], f)
      /\ Append(c.buf[f.stream], f) # <<>>
      /\ Append(c.buf[f.stream], f) \in Seq(Stampeds)
  BY <1>3, <1>4, CollectorStep
<1>6. w.lines # <<>> \/ w.buf[f.stream] # <<>>
  <2>1. CASE f.eol
    <3> DEFINE e == ParseLogLine(Append(c.buf[f.stream], f), f.stream)
    <3>1. w.lines = Append(c.lines, e) /\ e \in LogEntries  BY <1>5, <2>1, LineParsed
    <3> HIDE DEF e, w
    <3> QED  BY <1>5, <3>1
  <2>2. CASE ~f.eol  BY <1>5, <2>2
  <2> QED  BY <1>5, <2>1, <2>2
<1>7. w.lines \in Seq(LogEntries) /\ \A z \in Streams : w.buf[z] \in Seq(Stampeds)
  <2> HIDE DEF w
  <2> QED  BY <1>5 DEF Collectors
<1>8. ASSUME NEW ls \in Seq(LogEntries), NEW b \in Seq(Stampeds), NEW z \in Streams
      PROVE  /\ Appended(ls, b, z) \in Seq(LogEntries)
             /\ ls # <<>> \/ b # <<>> => Appended(ls, b, z) # <<>>
  <2> DEFINE a == Appended(ls, b, z)
             e == ParseLogLine(b, z)
  <2>1. a = (IF b = <<>> THEN ls ELSE Append(ls, e)) /\ a \in Seq(LogEntries)  BY LineAppended
  <2>2. b # <<>> => e \in LogEntries  BY LineParsed
  <2>3. e \in LogEntries => Append(ls, e) # <<>>  OBVIOUS
  <2> HIDE DEF a, e
  <2>4. a \in Seq(LogEntries) /\ (ls # <<>> \/ b # <<>> => a # <<>>)  BY <2>1, <2>2, <2>3
  <2> QED  BY <2>4 DEF a
<1> HIDE DEF w
<1>9. "stdout" \in Streams /\ "stderr" \in Streams /\ (f.stream = "stdout" \/ f.stream = "stderr")
  BY <1>5 DEF Streams
<1>10. one \in Seq(LogEntries) /\ (w.lines # <<>> \/ w.buf["stdout"] # <<>> => one # <<>>)
  BY <1>7, <1>8, <1>9
<1> HIDE DEF one
<1>11. one # <<>> \/ w.buf["stderr"] # <<>> => all # <<>>  BY <1>7, <1>8, <1>9, <1>10
<1>12. all # <<>>
  <2> HIDE DEF all
  <2> QED  BY <1>6, <1>9, <1>10, <1>11
<1>13. Flush(w) = all  BY DEF Flush, one
<1> QED  BY <1>4, <1>12, <1>13

\* CaptureAndCompressLogs keeps the order of each stream, and what was sent.
LEMMA CapturedInOrder ==
  ASSUME NEW o \in LogOutputs, o.form = "mux", Stamped(o), NEW s \in Streams
  PROVE  /\ TextsOf(Of(CaptureAndCompressLogs(o), s)) = Written(o, s)
         /\ \A i \in DOMAIN Of(CaptureAndCompressLogs(o), s) :
              Pure(Of(CaptureAndCompressLogs(o), s)[i])
                <=> Len(Of(CaptureAndCompressLogs(o), s)[i].content) = 1
         /\ WholeLines(o)
              => Of(ToSeconds(StreamRunnerLogs(o)), s) = Of(CaptureAndCompressLogs(o), s)
<1> DEFINE q == o.frames
           d == Flush(Collected(q))
           lines == LinesOf(Of(q, s))
<1>1. q \in Seq(LogFrames) /\ o = [form |-> o.form, frames |-> o.frames]  BY DEF LogOutputs
<1>2. DOMAIN q = 1..Len(q) /\ Len(q) \in Nat /\ \A i \in 1..Len(q) : q[i] \in LogFrames
  BY <1>1, SeqDomain
<1>3. q \in Seq(Stampeds)
  <2>1. \A i \in 1..Len(q) : q[i] \in Stampeds  BY <1>2 DEF Stamped, Stampeds
  <2>2. q \in [1..Len(q) -> Stampeds]
    <3>1. q = [i \in 1..Len(q) |-> q[i]]  BY <1>1
    <3> HIDE DEF q
    <3> QED  BY <2>1, <3>1
  <2> QED  BY <1>2, <2>2, AsSequence
<1>4. InTime(q, s)
  <2> SUFFICES ASSUME NEW i \in OfStream(q, s), NEW j \in OfStream(q, s), i <= j
               PROVE  q[i].ts <= q[j].ts
    BY DEF InTime
  <2>1. i \in DOMAIN q /\ j \in DOMAIN q /\ q[i].stream = q[j].stream  BY DEF OfStream
  <2>2. q[i].ts \in Nat /\ q[j].ts \in Nat  BY <1>2, <2>1 DEF LogFrames
  <2>3. NotLater(q[i], q[j])  BY <2>1 DEF Stamped
  <2> QED  BY <2>2, <2>3 DEF NotLater
<1>5. Demultiplexed(o) = d  BY Zenon DEF Demultiplexed, Collected
<1>6. /\ d \in Seq(LogEntries) /\ Of(d, s) = Parsed(lines, s) /\ lines \in Seq(Seq(Stampeds))
      /\ InTime(d, s)
  BY <1>3, <1>4, FlushedAll
<1>7. CaptureAndCompressLogs(o) = SortStable(d)
  <2>1. CASE d # <<>>  BY <1>5, <2>1 DEF CaptureAndCompressLogs
  <2>2. CASE d = <<>>
    <3>1. q = <<>>  BY <1>3, <2>2, SomethingCollected
    <3>2. AsStdout(o).frames = <<>>
      <4> DEFINE g == [i \in DOMAIN q |-> [q[i] EXCEPT !.stream = "stdout"]]
                 a == AsStdout(o)
      <4>1. DOMAIN q = {}  BY <3>1
      <4>2. g = <<>>  BY <4>1
      <4>3. a = [o EXCEPT !.frames = g]  BY DEF AsStdout
      <4> HIDE DEF g, a
      <4>4. a.frames = g  BY <1>1, <4>3
      <4> QED  BY <4>2, <4>4 DEF a
    <3>3. Demultiplexed(AsStdout(o)) = d
      <4>1. AsStdout(o).frames = q  BY <3>1, <3>2
      <4>2. Demultiplexed(AsStdout(o)) = Flush(Collected(AsStdout(o).frames))
        BY Zenon DEF Demultiplexed, Collected
      <4> QED  BY <4>1, <4>2
    <3> HIDE DEF d
    <3> QED  BY <1>5, <2>2, <3>3 DEF CaptureAndCompressLogs
  <2> QED  BY <2>1, <2>2
<1> DEFINE e == CaptureAndCompressLogs(o)
<1>8. Of(e, s) = Of(d, s)
  <2>1. \A i \in DOMAIN d : d[i].ts \in Nat
    <3>1. DOMAIN d = 1..Len(d) /\ \A i \in 1..Len(d) : d[i] \in LogEntries  BY <1>6, SeqDomain
    <3> HIDE DEF d
    <3> QED  BY <3>1 DEF LogEntries
  <2> HIDE DEF d
  <2>2. \A i, j \in OfStream(d, s) : i <= j => d[i].ts <= d[j].ts  BY <1>6 DEF InTime
  <2>3. Of(SortStable(d), s) = Of(d, s)  BY <1>6, <2>1, <2>2, SortKeepsStream
  <2> QED  BY <1>7, <2>3
<1> HIDE DEF d, lines, q, e
<1> DEFINE p == Parsed(lines, s)
<1>11. DOMAIN lines = 1..Len(lines) /\ \A i \in 1..Len(lines) : lines[i] \in Seq(Stampeds)
  BY <1>6, SeqDomain
<1>12. DOMAIN p = 1..Len(lines) /\ \A i \in 1..Len(lines) : p[i].content = Content(lines[i])
  BY DEF Parsed, ParseLogLine
<1>13. Of(e, s) = p  BY <1>6, <1>8
<1> HIDE DEF p
<1>9. TextsOf(Of(e, s)) = Written(o, s)
  <2>1. ASSUME NEW i \in 1..Len(lines) PROVE Words(p[i].content) = Words(lines[i])
    <3>1. p[i].content = Content(lines[i])  BY <1>12
    <3>2. DOMAIN Content(lines[i]) = DOMAIN lines[i]  BY DEF Content
    <3>3. \A k \in DOMAIN lines[i] : Content(lines[i])[k].word = lines[i][k].word  BY DEF Content
    <3> QED  BY <3>1, <3>2, <3>3 DEF Words
  <2>3. TextsOf(p) = [i \in 1..Len(lines) |-> Words(lines[i])]  BY <1>12, <2>1 DEF TextsOf
  <2>4. Written(o, s) = [i \in DOMAIN lines |-> Words(lines[i])]  BY DEF Written, lines, q
  <2> QED  BY <1>11, <1>13, <2>3, <2>4
<1>14. ASSUME NEW i \in DOMAIN Of(e, s)
       PROVE  Pure(Of(e, s)[i]) <=> Len(Of(e, s)[i].content) = 1
  <2> DEFINE c == Of(e, s)[i].content
             n == Len(c)
  <2>1. Of(d, s) \in Seq(LogEntries)  BY <1>6, OfTyped
  <2>2. Of(e, s)[i] \in LogEntries  BY <1>8, <1>14, <2>1, SeqDomain
  <2>3. c \in Seq(Pieces) /\ c # <<>> /\ \A k \in DOMAIN c : c[k].ts = 0 <=> k = 1
    BY <2>2 DEF LogEntries, LogTexts
  <2> HIDE DEF c
  <2>4. n \in Nat \ {0} /\ DOMAIN c = 1..n  BY <2>3, SeqDomain
  <2>5. (\A k \in 1..n : k = 1) <=> n = 1
    <3>1. n # 1 => n \in 1..n /\ 1 \in 1..n  BY <2>4
    <3> QED  BY <2>4, <3>1
  <2> QED  BY <2>3, <2>4, <2>5 DEF Pure, c
<1>10. ASSUME WholeLines(o) PROVE Of(ToSeconds(StreamRunnerLogs(o)), s) = Of(e, s)
  <2>1. d = Singles(q)
    <3>1. \A i \in DOMAIN q : q[i].eol  BY <1>10 DEF WholeLines, q
    <3> QED  BY <1>3, <3>1, SinglyAll DEF d
  <2>2. StreamRunnerLogs(o) = [i \in DOMAIN q |-> [ParseDockerTimestamp(<<q[i]>>) EXCEPT !.stream = q[i].stream]]
    BY DEF StreamRunnerLogs, q
  <2>3. ASSUME NEW i \in 1..Len(q)
        PROVE  [[ParseDockerTimestamp(<<q[i]>>) EXCEPT !.stream = q[i].stream] EXCEPT !.frac = 0]
                 = ParseLogLine(<<q[i]>>, q[i].stream)
    <3> DEFINE l == <<q[i]>>
               ts == IF Head(l).ts # 0 THEN Head(l).ts ELSE Now
               frac == IF Head(l).ts # 0 THEN Head(l).frac ELSE 0
               a == ParseLogLine(l, "stdout")
               b == ParseDockerTimestamp(l)
               c == Content(l)
    <3>1. a = [ts |-> ts, frac |-> 0, stream |-> "stdout", content |-> c]
      BY DEF ParseLogLine
    <3>2. ParseLogLine(l, q[i].stream) =
            [ts |-> ts, frac |-> 0, stream |-> q[i].stream, content |-> c]
      BY DEF ParseLogLine
    <3>3. b = [a EXCEPT !.frac = frac]  BY DEF ParseDockerTimestamp
    <3> HIDE DEF l, ts, frac, a, b, c
    <3>4. b = [ts |-> ts, frac |-> frac, stream |-> "stdout", content |-> c]  BY <3>1, <3>3
    <3> DEFINE m == [b EXCEPT !.stream = q[i].stream]
    <3>5. m = [ts |-> ts, frac |-> frac, stream |-> q[i].stream, content |-> c]  BY <3>4
    <3> HIDE DEF m
    <3>6. [m EXCEPT !.frac = 0] = [ts |-> ts, frac |-> 0, stream |-> q[i].stream, content |-> c]
      BY <3>5
    <3> QED  BY <3>2, <3>6 DEF m, b, l
  <2>4. ToSeconds(StreamRunnerLogs(o)) = Singles(q)
    BY <1>2, <2>2, <2>3 DEF Singles, ToSeconds
  <2> QED  BY <1>8, <2>1, <2>4
<1> QED  BY <1>9, <1>10, <1>14 DEF e

----------------------------------------------------------------------------

\* A log that is there is what was captured of its runner's output.
StoreInv == \A r \in Runners : logs[r] \in {NoLog, CaptureAndCompressLogs(output[r])}

\* It stays while neither the log nor the output changes.
LEMMA StoreStays == ASSUME StoreInv, UNCHANGED <<output, logs>> PROVE StoreInv'
  BY DEF StoreInv

\* Capturing a log stores what is captured.
LEMMA CaptureStores ==
  ASSUME LogInv, StoreInv, NEW r \in Runners, Capture(r) \/ Uncaptured, UNCHANGED output
  PROVE  StoreInv'
<1>1. logs = [x \in Runners |-> logs[x]]  BY DEF LogInv
<1>2. CASE Capture(r)
  <2> DEFINE e == CaptureAndCompressLogs(output[r])
  <2>1. logs' = [logs EXCEPT ![r] = e]  BY <1>2 DEF Capture
  <2>2. e = CaptureAndCompressLogs(output'[r])  OBVIOUS
  <2> HIDE DEF e
  <2>3. \A x \in Runners : logs'[x] = IF x = r THEN e ELSE logs[x]  BY <1>1, <2>1
  <2> QED  BY <2>2, <2>3 DEF StoreInv
<1>3. CASE Uncaptured  BY <1>3, StoreStays DEF Uncaptured
<1> QED  BY <1>2, <1>3

\* Pruning removes whole files.
LEMMA PruneFilesStores == ASSUME LogInv, StoreInv, PruneFiles PROVE StoreInv'
<1>1. UNCHANGED output  BY DEF PruneFiles
<1>2. CASE UNCHANGED logs  BY <1>1, <1>2, StoreStays
<1>3. ASSUME NEW p, logs' = [logs EXCEPT ![p] = NoLog] PROVE StoreInv'
  <2>1. logs = [x \in Runners |-> logs[x]]  BY DEF LogInv
  <2>2. \A x \in Runners : logs'[x] = IF x = p THEN NoLog ELSE logs[x]  BY <1>3, <2>1
  <2> QED  BY <1>1, <2>2 DEF StoreInv
<1> QED  BY <1>2, <1>3 DEF PruneFiles

\* Every step of the history keeps the logs as captured.
LEMMA HistoriesStore == ASSUME LogInv, StoreInv, Histories PROVE StoreInv'
<1>1. ASSUME NEW r, ReapContainer(r) \/ HungTerminates(r) PROVE StoreInv'
  <2>1. r \in Runners /\ (Capture(r) \/ Uncaptured) /\ UNCHANGED output
    BY <1>1 DEF ReapContainer, HungTerminates, LogInv
  <2> QED  BY <2>1, CaptureStores
<1>2. CASE Retaining
  BY <1>2, StoreStays, PruneFilesStores DEF Retaining, PruneStarts, PruneRows, DayPasses
<1>3. CASE Capturing
  <2>1. CASE HungRecords
    BY <2>1, StoreStays DEF HungRecords, RecordJobTimeout
  <2>2. CASE HistoryCrash  BY <2>2, StoreStays DEF HistoryCrash
  <2> QED  BY <1>1, <1>3, <2>1, <2>2 DEF Capturing
<1>4. CASE Recorded  BY <1>4, StoreStays DEF Recorded, RecordJobTimeout, PoolDeleted
<1>5. CASE Browsing  BY <1>5, StoreStays DEF Browsing, GetJobHistory, ReadPage, NextPage, PagerEnds
<1>6. CASE Watching  BY <1>6, StoreStays DEF Watching, GetSystemStats, ReadTrend, StatsEnd
<1> QED  BY <1>1, <1>2, <1>3, <1>4, <1>5, <1>6 DEF Histories

\* A log file is never of another runner, never half written, and never of
\* anything but one capture.
THEOREM LogsStored == Spec => []StoreInv
<1>1. Init => StoreInv
  <2> SUFFICES ASSUME Init PROVE StoreInv  OBVIOUS
  <2>1. logs = [r \in Runners |-> NoLog]  BY DEF Init, HistoryInit
  <2> QED  BY <2>1 DEF StoreInv
<1>2. TableInv /\ StoreInv /\ [Next]_vars => StoreInv'
  <2> SUFFICES ASSUME TableInv, StoreInv, [Next]_vars PROVE StoreInv'  OBVIOUS
  <2>1. CASE Histories  BY <2>1, HistoriesStore DEF TableInv
  <2>2. CASE UNCHANGED historyVars  BY <2>2, StoreStays DEF historyVars
  <2> QED  BY <2>1, <2>2 DEF Next, Renovates, Seeds, Snapshots, vars
<1> QED  BY <1>1, <1>2, TableInvariance, PTL DEF Spec

\* A stored log has the words of each stream line by line in their order, with
\* timestamps among them exactly where a line was cut, and is what a client saw
\* live, but for fractions, if frames are lines: for any output whose frames are
\* stamped in order, however they cut the lines and mix the streams.
THEOREM LogsKeepOrder == Spec => []LogsInOrder
<1>1. TableInv /\ StoreInv => LogsInOrder
  <2> SUFFICES ASSUME TableInv, StoreInv, NEW r \in Runners, logs[r] # NoLog,
                      output[r].form = "mux", Stamped(output[r]), NEW s \in Streams
               PROVE  /\ TextsOf(Of(logs[r], s)) = Written(output[r], s)
                      /\ \A i \in DOMAIN Of(logs[r], s) :
                           Pure(Of(logs[r], s)[i]) <=> Len(Of(logs[r], s)[i].content) = 1
                      /\ WholeLines(output[r])
                           => Of(ToSeconds(StreamRunnerLogs(output[r])), s) = Of(logs[r], s)
    BY DEF LogsInOrder
  <2>1. logs[r] = CaptureAndCompressLogs(output[r])  BY DEF StoreInv
  <2>2. output[r] \in LogOutputs  BY HistoryAssumption DEF TableInv, LogInv
  <2> QED  BY <2>1, <2>2, CapturedInOrder
<1> QED  BY <1>1, TableInvariance, LogsStored, PTL

\* A daemon that got past the evaluation of its seed never imports one at a
\* later boot, whatever administrators and commands do in between, unless an
\* import was killed, or was still to be marked, after its commit, or the mark
\* could not be read (ShouldAutoImportSeed drops the error of GetAppSetting).
THEOREM SeededOnce == Spec => []SeedOnce
<1>1. TableInv => SeedOnce  BY DEF TableInv, SeedInv, SeedOnce
<1> QED  BY <1>1, TableInvariance, PTL

\* A row that names a log has it, or its runner's log was captured twice.
THEOREM RowsKeepLogs == Spec => []RowsHaveLogs
<1>1. TableInv => RowsHaveLogs  BY DEF TableInv, LogInv, RowsHaveLogs, Known, Owns
<1> QED  BY <1>1, TableInvariance, PTL

----------------------------------------------------------------------------
(* Seed: an export can be taken back.  While configuration is exported the *)
(* tables stay good, statement by statement; an import of what they hold   *)
(* changes only what Kept names; and the export holds that, unless someone *)
(* wrote while it read.                                                    *)

\* The texts of the program are texts.
Texts == STRING \cup {"", "latest", "none", "${REDACTED}"}

\* The labels of a file and the column; both may be empty.
AllLabels == LabelSets \cup {{}}
LabelColumns == [form : {"json", "comma"}, labels : AllLabels]

\* The rows of an installation.
ProfileRows ==
  [id : Nat, name : DOMAIN Environment \ {""}, method : Methods, app : Nat,
   key : Texts, token : Texts]
PoolRows ==
  [id : Nat, name : Names, provider : Providers, url : Names, scope : Scopes, auth : Nat,
   idle : Int, max : Int, labels : LabelColumns, image : Texts]
ConfigRows == [pool : Nat, enabled : BOOLEAN, cron : Texts, image : Texts \ {"", "none"}]
TargetRows == [pool : Nat, url : Texts]
SettingRows == [seed_imported : Int, total_allowed_runners : Int, job_retention_days : Int]

\* Typed tables with the jobs j.
Typed(t, j) ==
  /\ t.settings \in SettingRows
  /\ t.profiles \in SUBSET ProfileRows /\ IsFiniteSet(t.profiles)
  /\ t.pools \in SUBSET PoolRows /\ IsFiniteSet(t.pools)
  /\ t.targets \in SUBSET TargetRows
  /\ t.renovate \in SUBSET ConfigRows
  /\ t.jobs = j
  /\ t.ids.profile \in Nat /\ t.ids.pool \in Nat /\ t.ids.job \in Nat

\* UNIQUE names and identifiers, of which AUTOINCREMENT gives none twice; a pool
\* has its profile and at most one configuration of Renovate; a profile of an
\* application has its number.
Unique(rs, last) ==
  /\ \A r \in rs : r.id <= last
  /\ \A r, q \in rs : r.id = q.id \/ r.name = q.name => r = q

Sound(t) ==
  /\ Unique(t.profiles, t.ids.profile)
  /\ \A r \in t.profiles : r.method = "github_app" => r.app # 0
  /\ Unique(t.pools, t.ids.pool)
  /\ \A r \in t.pools : \E q \in t.profiles : q.id = r.auth
  /\ \A r \in t.renovate : r.pool <= t.ids.pool
  /\ \A r, q \in t.renovate : r.pool = q.pool => r = q

Good(t, j) == IsTables(t) /\ Typed(t, j) /\ Sound(t)

\* The same as a set.
GoodTables(j) ==
  {t \in [settings : SettingRows, profiles : SUBSET ProfileRows, pools : SUBSET PoolRows,
          targets : SUBSET TargetRows, renovate : SUBSET ConfigRows, jobs : {j},
          ids : [profile : Nat, pool : Nat, job : Nat]] : Good(t, j)}

\* The good tables as a set, which the folds are typed by.
LEMMA GoodSet == ASSUME NEW t, NEW j PROVE t \in GoodTables(j) <=> Good(t, j)
<1>1. ASSUME Good(t, j) PROVE t \in GoodTables(j)
  <2>1. /\ t = [settings |-> t.settings, profiles |-> t.profiles, pools |-> t.pools,
               targets |-> t.targets, renovate |-> t.renovate, jobs |-> t.jobs, ids |-> t.ids]
        /\ t.ids = [profile |-> t.ids.profile, pool |-> t.ids.pool, job |-> t.ids.job]
    BY <1>1 DEF Good, IsTables
  <2>2. t.ids \in [profile : Nat, pool : Nat, job : Nat]
    BY <1>1, <2>1 DEF Good, Typed
  <2>3. /\ t.settings \in SettingRows /\ t.profiles \in SUBSET ProfileRows
        /\ t.pools \in SUBSET PoolRows /\ t.targets \in SUBSET TargetRows
        /\ t.renovate \in SUBSET ConfigRows /\ t.jobs \in {j}
    BY <1>1 DEF Good, Typed
  <2> QED  BY <1>1, <2>1, <2>2, <2>3 DEF GoodTables
<1> QED  BY <1>1 DEF GoodTables

----------------------------------------------------------------------------
(* Statements.                                                             *)

\* u is t but for its profiles and their last identifier.
ProfilesOnly(t, u, ps, last) ==
  /\ IsTables(u) /\ u.profiles = ps /\ u.ids.profile = last
  /\ u.settings = t.settings /\ u.pools = t.pools /\ u.targets = t.targets
  /\ u.renovate = t.renovate /\ u.jobs = t.jobs
  /\ u.ids.pool = t.ids.pool /\ u.ids.job = t.ids.job

PoolsOnly(t, u, ps, last) ==
  /\ IsTables(u) /\ u.pools = ps /\ u.ids.pool = last
  /\ u.settings = t.settings /\ u.profiles = t.profiles /\ u.targets = t.targets
  /\ u.renovate = t.renovate /\ u.jobs = t.jobs
  /\ u.ids.profile = t.ids.profile /\ u.ids.job = t.ids.job

TargetsOnly(t, u, rs) ==
  /\ IsTables(u) /\ u.targets = rs
  /\ u.settings = t.settings /\ u.profiles = t.profiles /\ u.pools = t.pools
  /\ u.renovate = t.renovate /\ u.jobs = t.jobs /\ u.ids = t.ids

ConfigsOnly(t, u, rs) ==
  /\ IsTables(u) /\ u.renovate = rs
  /\ u.settings = t.settings /\ u.profiles = t.profiles /\ u.pools = t.pools
  /\ u.targets = t.targets /\ u.jobs = t.jobs /\ u.ids = t.ids

\* What an assignment to one column, or to two, leaves alone.
LEMMA ColumnOnly ==
  ASSUME NEW t, IsTables(t), NEW s, NEW n
  PROVE  /\ ProfilesOnly(t, [t EXCEPT !.profiles = s], s, t.ids.profile)
         /\ ProfilesOnly(t, [t EXCEPT !.ids.profile = n, !.profiles = s], s, n)
         /\ PoolsOnly(t, [t EXCEPT !.pools = s], s, t.ids.pool)
         /\ PoolsOnly(t, [t EXCEPT !.ids.pool = n, !.pools = s], s, n)
         /\ TargetsOnly(t, [t EXCEPT !.targets = s], s)
         /\ ConfigsOnly(t, [t EXCEPT !.renovate = s], s)
<1>0. /\ t = [settings |-> t.settings, profiles |-> t.profiles, pools |-> t.pools,
              targets |-> t.targets, renovate |-> t.renovate, jobs |-> t.jobs, ids |-> t.ids]
      /\ t.ids = [profile |-> t.ids.profile, pool |-> t.ids.pool, job |-> t.ids.job]
      /\ t.settings = [seed_imported |-> t.settings.seed_imported,
                   total_allowed_runners |-> t.settings.total_allowed_runners,
                   job_retention_days |-> t.settings.job_retention_days]
  BY DEF IsTables
<1>1. ProfilesOnly(t, [t EXCEPT !.profiles = s], s, t.ids.profile)
  <2> DEFINE u == [t EXCEPT !.profiles = s]
  <2>1. u = [t EXCEPT !.profiles = s]  OBVIOUS
  <2> HIDE DEF u
  <2> SUFFICES ProfilesOnly(t, u, s, t.ids.profile)  BY DEF u
  <2> QED  BY <1>0, <2>1 DEF ProfilesOnly, IsTables
<1>2. PoolsOnly(t, [t EXCEPT !.pools = s], s, t.ids.pool)
  <2> DEFINE u == [t EXCEPT !.pools = s]
  <2>1. u = [t EXCEPT !.pools = s]  OBVIOUS
  <2> HIDE DEF u
  <2> SUFFICES PoolsOnly(t, u, s, t.ids.pool)  BY DEF u
  <2> QED  BY <1>0, <2>1 DEF PoolsOnly, IsTables
<1>3. TargetsOnly(t, [t EXCEPT !.targets = s], s)
  <2> DEFINE u == [t EXCEPT !.targets = s]
  <2>1. u = [t EXCEPT !.targets = s]  OBVIOUS
  <2> HIDE DEF u
  <2> SUFFICES TargetsOnly(t, u, s)  BY DEF u
  <2> QED  BY <1>0, <2>1 DEF TargetsOnly, IsTables
<1>4. ConfigsOnly(t, [t EXCEPT !.renovate = s], s)
  <2> DEFINE u == [t EXCEPT !.renovate = s]
  <2>1. u = [t EXCEPT !.renovate = s]  OBVIOUS
  <2> HIDE DEF u
  <2> SUFFICES ConfigsOnly(t, u, s)  BY DEF u
  <2> QED  BY <1>0, <2>1 DEF ConfigsOnly, IsTables
<1>5. ProfilesOnly(t, [t EXCEPT !.ids.profile = n, !.profiles = s], s, n)
  <2> DEFINE i == [t.ids EXCEPT !.profile = n]
             u == [t EXCEPT !.ids.profile = n, !.profiles = s]
  <2>1. u = [t EXCEPT !.ids = i, !.profiles = s]  OBVIOUS
  <2>2. i = [t.ids EXCEPT !.profile = n]  OBVIOUS
  <2> HIDE DEF i
  <2>3. /\ i = [profile |-> i.profile, pool |-> i.pool, job |-> i.job]
        /\ i.profile = n /\ i.pool = t.ids.pool /\ i.job = t.ids.job
    BY <1>0, <2>2
  <2> HIDE DEF u
  <2> SUFFICES ProfilesOnly(t, u, s, n)  BY DEF u
  <2> QED  BY <1>0, <2>1, <2>3 DEF ProfilesOnly, IsTables
<1>6. PoolsOnly(t, [t EXCEPT !.ids.pool = n, !.pools = s], s, n)
  <2> DEFINE i == [t.ids EXCEPT !.pool = n]
             u == [t EXCEPT !.ids.pool = n, !.pools = s]
  <2>1. u = [t EXCEPT !.ids = i, !.pools = s]  OBVIOUS
  <2>2. i = [t.ids EXCEPT !.pool = n]  OBVIOUS
  <2> HIDE DEF i
  <2>3. /\ i = [profile |-> i.profile, pool |-> i.pool, job |-> i.job]
        /\ i.pool = n /\ i.profile = t.ids.profile /\ i.job = t.ids.job
    BY <1>0, <2>2
  <2> HIDE DEF u
  <2> SUFFICES PoolsOnly(t, u, s, n)  BY DEF u
  <2> QED  BY <1>0, <2>1, <2>3 DEF PoolsOnly, IsTables
<1> QED  BY <1>1, <1>2, <1>3, <1>4, <1>5, <1>6

\* Profiles that are unique, and among which every pool has its own, are good.
LEMMA GoodProfiles ==
  ASSUME NEW t, NEW j, Good(t, j), NEW u, NEW ps \in SUBSET ProfileRows, NEW last \in Nat,
         IsFiniteSet(ps), ProfilesOnly(t, u, ps, last), Unique(ps, last),
         \A r \in ps : r.method = "github_app" => r.app # 0,
         \A r \in t.pools : \E q \in ps : q.id = r.auth
  PROVE  Good(u, j)
<1>1. Typed(u, j)  BY DEF Good, Typed, ProfilesOnly
<1>2. Sound(u)  BY DEF Good, Sound, ProfilesOnly
<1> QED  BY <1>1, <1>2 DEF Good, ProfilesOnly

\* So are pools that have a profile.
LEMMA GoodPools ==
  ASSUME NEW t, NEW j, Good(t, j), NEW u, NEW ps \in SUBSET PoolRows, NEW last \in Nat,
         IsFiniteSet(ps), PoolsOnly(t, u, ps, last), Unique(ps, last), t.ids.pool <= last,
         \A r \in ps : \E q \in t.profiles : q.id = r.auth
  PROVE  Good(u, j)
<1>1. Typed(u, j)  BY DEF Good, Typed, PoolsOnly
<1>2. \A r \in u.renovate : r.pool <= u.ids.pool
  <2>1. \A r \in t.renovate : r.pool \in Nat /\ r.pool <= t.ids.pool /\ t.ids.pool \in Nat
    BY DEF Good, Typed, Sound, ConfigRows
  <2> QED  BY <2>1 DEF PoolsOnly
<1>3. Sound(u)  BY <1>2 DEF Good, Sound, PoolsOnly
<1> QED  BY <1>1, <1>3 DEF Good, PoolsOnly

\* Targets need nothing.
LEMMA GoodTargets ==
  ASSUME NEW t, NEW j, Good(t, j), NEW u, NEW rs \in SUBSET TargetRows, TargetsOnly(t, u, rs)
  PROVE  Good(u, j)
<1>1. Typed(u, j)  BY DEF Good, Typed, TargetsOnly
<1>2. Sound(u)  BY DEF Good, Sound, TargetsOnly
<1> QED  BY <1>1, <1>2 DEF Good, TargetsOnly

\* A pool has one configuration of Renovate.
LEMMA GoodConfigs ==
  ASSUME NEW t, NEW j, Good(t, j), NEW u, NEW rs \in SUBSET ConfigRows, ConfigsOnly(t, u, rs),
         \A r \in rs : r.pool <= t.ids.pool,
         \A r, q \in rs : r.pool = q.pool => r = q
  PROVE  Good(u, j)
<1>1. Typed(u, j)  BY DEF Good, Typed, ConfigsOnly
<1>2. Sound(u)  BY DEF Good, Sound, ConfigsOnly
<1> QED  BY <1>1, <1>2 DEF Good, ConfigsOnly

\* What a request or a file says of a profile, and of a pool.
IsProfile(p) ==
  /\ p.name \in DOMAIN Environment \ {""} /\ p.method \in Methods /\ p.app \in Nat
  /\ p.key \in Texts /\ p.token \in Texts
  /\ p.method = "github_app" => p.app # 0
IsPool(p) ==
  /\ p.name \in Names /\ p.provider \in Providers /\ p.url \in Names /\ p.scope \in Scopes
  /\ p.auth \in Nat /\ p.idle \in Int /\ p.max \in Int
  /\ p.labels \in LabelColumns /\ p.image \in Texts
IsConfig(r) == r.enabled \in BOOLEAN /\ r.cron \in Texts /\ r.image \in Texts \ {"", "none"}

ProfileRow(id, p) ==
  [id |-> id, name |-> p.name, method |-> p.method, app |-> p.app, key |-> p.key,
   token |-> p.token]

\* A profile is created under a new name and number.
LEMMA CreateProfile ==
  ASSUME NEW t, NEW j, Good(t, j), NEW p, IsProfile(p), Named(t.profiles, p.name) = {}
  PROVE  Good(CreateAuthProfile(t, p), j)
<1> DEFINE id == t.ids.profile + 1
           row == ProfileRow(id, p)
           ps == t.profiles \cup {row}
           u == CreateAuthProfile(t, p)
<1>1. u = [t EXCEPT !.ids.profile = id, !.profiles = ps]
  BY DEF CreateAuthProfile, ProfileRow
<1>2. IsTables(t) /\ t.ids.profile \in Nat /\ t.profiles \in SUBSET ProfileRows /\ IsFiniteSet(t.profiles)
  BY DEF Good, Typed
<1>3. id \in Nat  BY <1>2
<1>4. row \in ProfileRows /\ row.id = id /\ row.name = p.name
  BY <1>3 DEF IsProfile, ProfileRow, ProfileRows
<1>5. row.method = "github_app" => row.app # 0  BY DEF IsProfile, ProfileRow
<1> HIDE DEF row
<1>6. ps \in SUBSET ProfileRows /\ IsFiniteSet(ps)  BY <1>2, <1>4, FS_AddElement
<1>7. \A r \in t.profiles : r.id \in Nat /\ r.id <= t.ids.profile /\ r.name # p.name
  BY <1>2 DEF Good, Sound, Unique, ProfileRows, Named
<1>8. Unique(ps, id)
  <2>1. \A r, q \in t.profiles : r.id = q.id \/ r.name = q.name => r = q
    BY DEF Good, Sound, Unique
  <2> HIDE DEF id
  <2>2. id = t.ids.profile + 1  BY DEF id
  <2> QED  BY <1>2, <1>4, <1>7, <2>1, <2>2 DEF Unique
<1>9. \A r \in ps : r.method = "github_app" => r.app # 0  BY <1>5 DEF Good, Sound
<1>10. \A r \in t.pools : \E q \in ps : q.id = r.auth  BY DEF Good, Sound
<1> HIDE DEF ps, id, u
<1>11. ProfilesOnly(t, u, ps, id)  BY <1>1, <1>2, ColumnOnly
<1>12. Good(u, j)  BY <1>3, <1>6, <1>8, <1>9, <1>10, <1>11, GoodProfiles
<1> QED  BY <1>12 DEF u

\* A profile is updated under its name.
LEMMA UpdateProfile ==
  ASSUME NEW t, NEW j, Good(t, j), NEW r \in t.profiles, NEW p, IsProfile(p), p.name = r.name
  PROVE  /\ ProfilesOnly(t, UpdateAuthProfile(t, r.id, p),
                         (t.profiles \ {r}) \cup {ProfileRow(r.id, p)}, t.ids.profile)
         /\ Good(UpdateAuthProfile(t, r.id, p), j)
<1> DEFINE row == ProfileRow(r.id, p)
           ps == (t.profiles \ {r}) \cup {row}
           u == UpdateAuthProfile(t, r.id, p)
<1>1. \A q, x \in t.profiles : q.id = x.id \/ q.name = x.name => q = x
  BY DEF Good, Sound, Unique
<1>2. IsTables(t) /\ t.ids.profile \in Nat /\ t.profiles \in SUBSET ProfileRows /\ IsFiniteSet(t.profiles)
  BY DEF Good, Typed
<1>3. {q \in t.profiles : q.id # r.id} = t.profiles \ {r}  BY <1>1
<1>4. u = [t EXCEPT !.profiles = ps]  BY <1>3 DEF UpdateAuthProfile, ProfileRow
<1>5. row \in ProfileRows /\ row.id = r.id /\ row.name = r.name
  BY <1>2 DEF IsProfile, ProfileRow, ProfileRows
<1>6. row.method = "github_app" => row.app # 0  BY DEF IsProfile, ProfileRow
<1> HIDE DEF row
<1>7. ps \in SUBSET ProfileRows /\ IsFiniteSet(ps)
  <2>1. IsFiniteSet(t.profiles \ {r})  BY <1>2, FS_RemoveElement
  <2> QED  BY <1>2, <1>5, <2>1, FS_AddElement
<1>8. \A q \in t.profiles : q.id \in Nat /\ q.id <= t.ids.profile
  BY <1>2 DEF Good, Sound, Unique, ProfileRows
<1>9. Unique(ps, t.ids.profile)  BY <1>1, <1>5, <1>8 DEF Unique
<1>10. \A q \in ps : q.method = "github_app" => q.app # 0  BY <1>6 DEF Good, Sound
<1>11. \A q \in t.pools : \E x \in ps : x.id = q.auth
  <2>1. \A q \in t.pools : \E x \in t.profiles : x.id = q.auth  BY DEF Good, Sound
  <2> QED  BY <1>5, <2>1
<1> HIDE DEF ps, u
<1>12. ProfilesOnly(t, u, ps, t.ids.profile)  BY <1>2, <1>4, ColumnOnly
<1>13. Good(u, j)  BY <1>2, <1>7, <1>9, <1>10, <1>11, <1>12, GoodProfiles
<1> QED  BY <1>12, <1>13 DEF u, ps, row

\* A profile no pool refers to is deleted.
LEMMA DeleteProfile ==
  ASSUME NEW t, NEW j, Good(t, j), NEW r \in t.profiles, \A p \in t.pools : p.auth # r.id
  PROVE  Good(DeleteAuthProfile(t, r.id), j)
<1> DEFINE ps == {q \in t.profiles : q.id # r.id}
           u == DeleteAuthProfile(t, r.id)
<1>1. u = [t EXCEPT !.profiles = ps]  BY DEF DeleteAuthProfile
<1>2. IsTables(t) /\ t.ids.profile \in Nat /\ t.profiles \in SUBSET ProfileRows /\ IsFiniteSet(t.profiles)
  BY DEF Good, Typed
<1>3. ps \in SUBSET ProfileRows /\ IsFiniteSet(ps)  BY <1>2, FS_Subset
<1>4. Unique(ps, t.ids.profile) /\ \A q \in ps : q.method = "github_app" => q.app # 0
  BY DEF Good, Sound, Unique
<1>5. \A q \in t.pools : \E x \in ps : x.id = q.auth
  <2>1. \A q \in t.pools : \E x \in t.profiles : x.id = q.auth  BY DEF Good, Sound
  <2> QED  BY <2>1
<1> HIDE DEF ps, u
<1>6. ProfilesOnly(t, u, ps, t.ids.profile)  BY <1>1, <1>2, ColumnOnly
<1>7. Good(u, j)  BY <1>2, <1>3, <1>4, <1>5, <1>6, GoodProfiles
<1> QED  BY <1>7 DEF u

\* The same of pools.
LEMMA CreatePool ==
  ASSUME NEW t, NEW j, Good(t, j), NEW p, IsPool(p), Named(t.pools, p.name) = {},
         \E q \in t.profiles : q.id = p.auth
  PROVE  /\ PoolsOnly(t, CreateRunnerPool(t, p),
                      t.pools \cup {PoolRow(t.ids.pool + 1, p)}, t.ids.pool + 1)
         /\ Good(CreateRunnerPool(t, p), j)
<1> DEFINE id == t.ids.pool + 1
           row == PoolRow(id, p)
           ps == t.pools \cup {row}
           u == CreateRunnerPool(t, p)
<1>1. u = [t EXCEPT !.ids.pool = id, !.pools = ps]
  BY DEF CreateRunnerPool
<1>2. IsTables(t) /\ t.ids.pool \in Nat /\ t.pools \in SUBSET PoolRows /\ IsFiniteSet(t.pools)
  BY DEF Good, Typed
<1>3. id \in Nat /\ t.ids.pool <= id  BY <1>2
<1>4. row \in PoolRows /\ row.id = id /\ row.name = p.name /\ row.auth = p.auth
  BY <1>3 DEF IsPool, PoolRow, PoolRows
<1> HIDE DEF row
<1>5. ps \in SUBSET PoolRows /\ IsFiniteSet(ps)  BY <1>2, <1>4, FS_AddElement
<1>6. \A r \in t.pools : r.id \in Nat /\ r.id <= t.ids.pool /\ r.name # p.name
  BY <1>2 DEF Good, Sound, Unique, PoolRows, Named
<1>7. Unique(ps, id)
  <2>1. \A r, q \in t.pools : r.id = q.id \/ r.name = q.name => r = q
    BY DEF Good, Sound, Unique
  <2> HIDE DEF id
  <2>2. id = t.ids.pool + 1  BY DEF id
  <2> QED  BY <1>2, <1>4, <1>6, <2>1, <2>2 DEF Unique
<1>8. \A r \in ps : \E q \in t.profiles : q.id = r.auth  BY <1>4 DEF Good, Sound
<1> HIDE DEF ps, id, u
<1>9. PoolsOnly(t, u, ps, id)  BY <1>1, <1>2, ColumnOnly
<1>10. Good(u, j)  BY <1>3, <1>5, <1>7, <1>8, <1>9, GoodPools
<1> QED  BY <1>9, <1>10 DEF u, ps, id, row

\* An update rewrites a row, under a name no other has, and keeps the tables good.
LEMMA UpdatePool ==
  ASSUME NEW t, NEW j, Good(t, j), NEW r \in t.pools, NEW p, IsPool(p),
         \A q \in t.pools : q.name = p.name => q = r,
         \E q \in t.profiles : q.id = p.auth
  PROVE  /\ PoolsOnly(t, UpdateRunnerPool(t, r.id, p),
                      (t.pools \ {r}) \cup {PoolRow(r.id, p)}, t.ids.pool)
         /\ Good(UpdateRunnerPool(t, r.id, p), j)
<1> DEFINE row == PoolRow(r.id, p)
           ps == (t.pools \ {r}) \cup {row}
           u == UpdateRunnerPool(t, r.id, p)
<1>1. \A q, x \in t.pools : q.id = x.id \/ q.name = x.name => q = x
  BY DEF Good, Sound, Unique
<1>2. IsTables(t) /\ t.ids.pool \in Nat /\ t.pools \in SUBSET PoolRows /\ IsFiniteSet(t.pools)
  BY DEF Good, Typed
<1>3. {q \in t.pools : q.id # r.id} = t.pools \ {r}  BY <1>1
<1>4. u = [t EXCEPT !.pools = ps]  BY <1>3 DEF UpdateRunnerPool
<1>5. row \in PoolRows /\ row.id = r.id /\ row.name = p.name /\ row.auth = p.auth
  BY <1>2 DEF IsPool, PoolRow, PoolRows
<1> HIDE DEF row
<1>6. ps \in SUBSET PoolRows /\ IsFiniteSet(ps)
  <2>1. IsFiniteSet(t.pools \ {r})  BY <1>2, FS_RemoveElement
  <2> QED  BY <1>2, <1>5, <2>1, FS_AddElement
<1>7. \A q \in t.pools : q.id \in Nat /\ q.id <= t.ids.pool
  BY <1>2 DEF Good, Sound, Unique, PoolRows
<1>8. Unique(ps, t.ids.pool)  BY <1>1, <1>5, <1>7 DEF Unique
<1>9. \A q \in ps : \E x \in t.profiles : x.id = q.auth  BY <1>5 DEF Good, Sound
<1> HIDE DEF ps, u
<1>10. PoolsOnly(t, u, ps, t.ids.pool)  BY <1>2, <1>4, ColumnOnly
<1>11. t.ids.pool <= t.ids.pool  BY <1>2
<1>12. Good(u, j)  BY <1>2, <1>6, <1>8, <1>9, <1>10, <1>11, GoodPools
<1> QED  BY <1>10, <1>12 DEF u, ps, row

\* A target more.
LEMMA AddTarget ==
  ASSUME NEW t, NEW j, Good(t, j), NEW id \in Nat, NEW url \in Texts
  PROVE  /\ TargetsOnly(t, AddPoolTarget(t, id, url), t.targets \cup {[pool |-> id, url |-> url]})
         /\ Good(AddPoolTarget(t, id, url), j)
<1> DEFINE rs == t.targets \cup {[pool |-> id, url |-> url]}
           u == AddPoolTarget(t, id, url)
<1>1. u = [t EXCEPT !.targets = rs]  BY DEF AddPoolTarget
<1>2. IsTables(t) /\ t.targets \in SUBSET TargetRows  BY DEF Good, Typed
<1>3. rs \in SUBSET TargetRows  BY <1>2 DEF TargetRows
<1> HIDE DEF rs, u
<1>4. TargetsOnly(t, u, rs)  BY <1>1, <1>2, ColumnOnly
<1>5. Good(u, j)  BY <1>3, <1>4, GoodTargets
<1> QED  BY <1>4, <1>5 DEF u, rs

\* The targets of a pool are deleted.
LEMMA DeleteTargets ==
  ASSUME NEW t, NEW j, Good(t, j), NEW id
  PROVE  Good(DeletePoolTargetsByPoolId(t, id), j)
<1> DEFINE rs == {r \in t.targets : r.pool # id}
           u == DeletePoolTargetsByPoolId(t, id)
<1>1. u = [t EXCEPT !.targets = rs]  BY DEF DeletePoolTargetsByPoolId
<1>2. IsTables(t) /\ rs \in SUBSET TargetRows  BY DEF Good, Typed
<1> HIDE DEF rs, u
<1>3. TargetsOnly(t, u, rs)  BY <1>1, <1>2, ColumnOnly
<1>4. Good(u, j)  BY <1>2, <1>3, GoodTargets
<1> QED  BY <1>4 DEF u

\* A configuration of Renovate, the first of its pool or instead of it.
LEMMA CreateConfig ==
  ASSUME NEW t, NEW j, Good(t, j), NEW id \in Nat, id <= t.ids.pool, NEW c, IsConfig(c),
         GetRenovateConfigByPoolId(t, id) = {}
  PROVE  Good(CreateRenovateConfig(t, id, c), j)
<1> DEFINE row == Configured(id, c)
           rs == t.renovate \cup {row}
           u == CreateRenovateConfig(t, id, c)
<1>1. u = [t EXCEPT !.renovate = rs]  BY DEF CreateRenovateConfig
<1>2. IsTables(t) /\ t.renovate \in SUBSET ConfigRows  BY DEF Good, Typed
<1>3. row \in ConfigRows /\ row.pool = id  BY DEF ConfigRows, Configured, IsConfig
<1> HIDE DEF row
<1>4. rs \in SUBSET ConfigRows  BY <1>2, <1>3
<1>5. \A r \in rs : r.pool <= t.ids.pool  BY <1>3 DEF Good, Sound
<1>6. \A r, q \in rs : r.pool = q.pool => r = q
  <2>1. \A r \in t.renovate : r.pool # id  BY DEF GetRenovateConfigByPoolId
  <2> QED  BY <1>3, <2>1 DEF Good, Sound
<1> HIDE DEF rs, u
<1>7. ConfigsOnly(t, u, rs)  BY <1>1, <1>2, ColumnOnly
<1>8. Good(u, j)  BY <1>4, <1>5, <1>6, <1>7, GoodConfigs
<1> QED  BY <1>8 DEF u

\* The configuration of a pool is replaced by the one given.
LEMMA UpdateConfig ==
  ASSUME NEW t, NEW j, Good(t, j), NEW id \in Nat, id <= t.ids.pool, NEW c, IsConfig(c)
  PROVE  /\ ConfigsOnly(t, UpdateRenovateConfig(t, id, c),
                        {x \in t.renovate : x.pool # id} \cup {Configured(id, c)})
         /\ Good(UpdateRenovateConfig(t, id, c), j)
<1> DEFINE row == Configured(id, c)
           rs == {x \in t.renovate : x.pool # id} \cup {row}
           u == UpdateRenovateConfig(t, id, c)
<1>1. u = [t EXCEPT !.renovate = rs]  BY DEF UpdateRenovateConfig
<1>2. IsTables(t) /\ t.renovate \in SUBSET ConfigRows  BY DEF Good, Typed
<1>3. row \in ConfigRows /\ row.pool = id  BY DEF ConfigRows, Configured, IsConfig
<1> HIDE DEF row
<1>4. rs \in SUBSET ConfigRows  BY <1>2, <1>3
<1>5. \A r \in rs : r.pool <= t.ids.pool  BY <1>3 DEF Good, Sound
<1>6. \A r, q \in rs : r.pool = q.pool => r = q  BY <1>3 DEF Good, Sound
<1> HIDE DEF rs, u
<1>7. ConfigsOnly(t, u, rs)  BY <1>1, <1>2, ColumnOnly
<1>8. Good(u, j)  BY <1>4, <1>5, <1>6, <1>7, GoodConfigs
<1> QED  BY <1>7, <1>8 DEF u, rs, row

\* u is t but for its settings.
SettingsOnly(t, u) ==
  /\ IsTables(u)
  /\ u.profiles = t.profiles /\ u.pools = t.pools /\ u.targets = t.targets
  /\ u.renovate = t.renovate /\ u.jobs = t.jobs /\ u.ids = t.ids

\* A setting that is written.
LEMMA WriteSetting ==
  ASSUME NEW t, NEW j, Good(t, j), NEW value \in Int,
         NEW key \in {"seed_imported", "total_allowed_runners", "job_retention_days"}
  PROVE  /\ SettingsOnly(t, SetAppSetting(t, key, value))
         /\ Good(SetAppSetting(t, key, value), j)
<1> DEFINE s == [t.settings EXCEPT ![key] = value]
           u == SetAppSetting(t, key, value)
<1>1. u = [t EXCEPT !.settings = s]  BY DEF SetAppSetting
<1>2. IsTables(t) /\ t.settings \in SettingRows  BY DEF Good, Typed
<1>3. s \in SettingRows  BY <1>2 DEF SettingRows
<1>4. s = [seed_imported |-> s.seed_imported, total_allowed_runners |-> s.total_allowed_runners,
           job_retention_days |-> s.job_retention_days]
  <2> HIDE DEF s
  <2> QED  BY <1>3 DEF SettingRows
<1>5. t = [settings |-> t.settings, profiles |-> t.profiles, pools |-> t.pools,
           targets |-> t.targets, renovate |-> t.renovate, jobs |-> t.jobs, ids |-> t.ids]
  BY <1>2 DEF IsTables
<1> HIDE DEF s, u
<1>6. u.settings = s /\ SettingsOnly(t, u)
  <2>1. /\ u.settings = s /\ u.profiles = t.profiles /\ u.pools = t.pools /\ u.targets = t.targets
        /\ u.renovate = t.renovate /\ u.jobs = t.jobs /\ u.ids = t.ids
        /\ u = [settings |-> u.settings, profiles |-> u.profiles, pools |-> u.pools,
                targets |-> u.targets, renovate |-> u.renovate, jobs |-> u.jobs, ids |-> u.ids]
    BY <1>1, <1>5
  <2> QED  BY <1>2, <1>4, <2>1 DEF SettingsOnly, IsTables
<1>7. Typed(u, j)  BY <1>3, <1>6 DEF Good, Typed, SettingsOnly
<1>8. Sound(u)  BY <1>6 DEF Good, Sound, SettingsOnly
<1> QED  BY <1>6, <1>7, <1>8 DEF Good, SettingsOnly, u

\* The settings of a file.
LEMMA FileSettings ==
  ASSUME NEW t, NEW j, Good(t, j), NEW global,
         global["total_allowed_runners"] \in Int, global["job_retention_days"] \in Int
  PROVE  SettingsOnly(t, ImportSettings(t, global)) /\ Good(ImportSettings(t, global), j)
<1> DEFINE set(u, key) == IF global[key] > 0 THEN SetAppSetting(u, key, global[key]) ELSE u
           u == set(t, "total_allowed_runners")
           v == set(u, "job_retention_days")
<1>1. ImportSettings(t, global) = v  BY DEF ImportSettings
<1>2. SettingsOnly(t, t)  BY DEF SettingsOnly, Good
<1>3. SettingsOnly(t, u) /\ Good(u, j)  BY <1>2, WriteSetting
<1> HIDE DEF u
<1>4. SettingsOnly(u, u)  BY <1>3 DEF SettingsOnly
<1>5. SettingsOnly(u, v) /\ Good(v, j)  BY <1>3, <1>4, WriteSetting
<1> HIDE DEF v
<1>6. SettingsOnly(t, v)  BY <1>3, <1>5 DEF SettingsOnly
<1> QED  BY <1>1, <1>5, <1>6

\* A pool is deleted with what it has.
LEMMA DeletePool ==
  ASSUME NEW t, Good(t, {}), NEW id
  PROVE  Good(DeleteRunnerPool(t, id), {})
<1> DEFINE u == DeleteRunnerPool(t, id)
           a == {r \in t.pools : r.id # id}
           b == {r \in t.targets : r.pool # id}
           c == {r \in t.renovate : r.pool # id}
           d == {r \in t.jobs : r.pool # id}
<1>1. u = [t EXCEPT !.pools = a, !.targets = b, !.renovate = c, !.jobs = d]
  BY DEF DeleteRunnerPool
<1>2. /\ a \subseteq t.pools /\ b \subseteq t.targets /\ c \subseteq t.renovate /\ d \subseteq t.jobs
  OBVIOUS
<1>3. IsTables(t) /\ t.jobs = {}  BY DEF Good, Typed
<1>4. t = [settings |-> t.settings, profiles |-> t.profiles, pools |-> t.pools,
           targets |-> t.targets, renovate |-> t.renovate, jobs |-> t.jobs, ids |-> t.ids]
  BY <1>3 DEF IsTables
<1> HIDE DEF u, a, b, c, d
<1>5. IsTables(u)
  <2>1. Edits(t, u)  BY <1>1, <1>2, <1>3, ColumnsEdits
  <2> QED  BY <2>1 DEF Edits
<1>6. /\ u.settings = t.settings /\ u.profiles = t.profiles /\ u.ids = t.ids
      /\ u.pools = a /\ u.targets = b /\ u.renovate = c /\ u.jobs = d
  BY <1>1, <1>4
<1>7. d = {}  BY <1>2, <1>3
<1>8. IsFiniteSet(a)  BY <1>2, FS_Subset DEF Good, Typed
<1>9. Typed(u, {})  BY <1>2, <1>6, <1>7, <1>8 DEF Good, Typed
<1>10. Sound(u)  BY <1>2, <1>6 DEF Good, Sound, Unique
<1> QED  BY <1>5, <1>9, <1>10 DEF Good, u

\* An import that overwrites starts with no pool and no profile.
LEMMA EmptiedGood ==
  ASSUME NEW t, Good(t, {}) PROVE Good(Emptied(t), {})
<1> DEFINE u == Emptied(t)
           orphans(rs) == {r \in rs : \A p \in ListRunnerPools(t) : r.pool # p.id}
           b == orphans(t.targets)
           c == orphans(t.renovate)
           d == orphans(t.jobs)
<1>1. u = [t EXCEPT !.pools = {}, !.targets = b, !.renovate = c, !.jobs = d, !.profiles = {}]
  BY DEF Emptied
<1>2. b \subseteq t.targets /\ c \subseteq t.renovate /\ d \subseteq t.jobs
  OBVIOUS
<1>3. IsTables(t) /\ t.jobs = {}  BY DEF Good, Typed
<1>4. t = [settings |-> t.settings, profiles |-> t.profiles, pools |-> t.pools,
           targets |-> t.targets, renovate |-> t.renovate, jobs |-> t.jobs, ids |-> t.ids]
  BY <1>3 DEF IsTables
<1> HIDE DEF u, b, c, d
<1>5. /\ u.settings = t.settings /\ u.profiles = {} /\ u.ids = t.ids
      /\ u.pools = {} /\ u.targets = b /\ u.renovate = c /\ u.jobs = d
      /\ u = [settings |-> u.settings, profiles |-> u.profiles, pools |-> u.pools,
              targets |-> u.targets, renovate |-> u.renovate, jobs |-> u.jobs, ids |-> u.ids]
  BY <1>1, <1>4
<1>6. IsTables(u)  BY <1>3, <1>5 DEF IsTables
<1>7. d = {} /\ IsFiniteSet({})  BY <1>2, <1>3, FS_EmptySet
<1>8. Typed(u, {})  BY <1>2, <1>5, <1>7 DEF Good, Typed
<1>9. Sound(u)  BY <1>2, <1>5 DEF Good, Sound, Unique
<1> QED  BY <1>6, <1>8, <1>9 DEF Good, u

----------------------------------------------------------------------------
(* Imports.                                                                *)

\* A profile of a file that was validated.
IsFileProfile(p) ==
  /\ p.name \in DOMAIN Environment \ {""} /\ p.method \in Methods /\ p.app \in Nat
  /\ p.key \in Texts /\ p.keyPath \in Texts /\ p.token \in Texts
  /\ p.tokenEnv \in DOMAIN Environment \cup {""}
  /\ p.method = "github_app" => p.app # 0

\* What it says, with its secrets.
ProfileOf(p, key, token) ==
  [name |-> p.name, method |-> p.method, app |-> IF p.app > 0 THEN p.app ELSE 0,
   key |-> key, token |-> token]

\* A profile of a file becomes a profile of the table under the same name.
LEMMA ProfileOfFile ==
  ASSUME NEW p, IsFileProfile(p), NEW key \in Texts, NEW token \in Texts
  PROVE  /\ ResolveCredentials(p).key \in Texts /\ ResolveCredentials(p).token \in Texts
         /\ IsProfile(ProfileOf(p, key, token)) /\ ProfileOf(p, key, token).name = p.name
<1>1. /\ p.name \in DOMAIN Environment /\ p.app \in Nat /\ p.key \in Texts /\ p.keyPath \in Texts
      /\ p.token \in Texts /\ p.tokenEnv \in DOMAIN Environment \cup {""}
  BY DEF IsFileProfile
<1>2. p.name # "" /\ p.method \in Methods /\ (p.method = "github_app" => p.app # 0)
  BY DEF IsFileProfile
<1>3. ResolveCredentials(p).key \in Texts
  <2>1. CASE p.key # ""  BY <1>1, <2>1 DEF ResolveCredentials
  <2>2. CASE p.key = "" /\ p.keyPath \in {"", "${REDACTED}"}  BY <1>1, <2>2 DEF ResolveCredentials
  <2>3. CASE p.key = "" /\ p.keyPath \notin {"", "${REDACTED}"}
    BY <1>1, <2>3 DEF ResolveCredentials
  <2> QED  BY <2>1, <2>2, <2>3
<1>4. ResolveCredentials(p).token \in Texts
  <2>1. CASE p.token # ""  BY <1>1, <2>1 DEF ResolveCredentials
  <2>2. CASE p.token = "" /\ p.tokenEnv # ""
    <3>1. Environment[p.tokenEnv] \in Texts  BY <1>1, <2>2, SeedAssumption DEF Texts
    <3> QED  BY <1>1, <2>2, <3>1 DEF ResolveCredentials
  <2>3. CASE p.token = "" /\ p.tokenEnv = ""
    BY <1>1, <2>3 DEF ResolveCredentials
  <2> QED  BY <2>1, <2>2, <2>3
<1>5. IsProfile(ProfileOf(p, key, token)) /\ ProfileOf(p, key, token).name = p.name
  <2> DEFINE app == p.app
  <2>1. app \in Nat  BY <1>1
  <2> HIDE DEF app
  <2>2. (IF app > 0 THEN app ELSE 0) = app  BY <2>1
  <2> QED  BY <1>1, <1>2, <2>2 DEF IsProfile, ProfileOf, app
<1> QED  BY <1>3, <1>4, <1>5

\* It becomes a row, or its row.
LEMMA ImportProfileGood ==
  ASSUME NEW t, NEW j, Good(t, j), NEW p, IsFileProfile(p)
  PROVE  Good(ImportProfile(t, p), j)
<1> DEFINE secrets == ResolveCredentials(p)
           old == GetAuthProfileByName(t, p.name)
           r == CHOOSE x \in old : TRUE
           u == ImportProfile(t, p)
<1>1. secrets.key \in Texts /\ secrets.token \in Texts
  <2>1. p.key \in Texts  BY DEF IsFileProfile
  <2> QED  BY <2>1, ProfileOfFile
<1>2. u = IF old = {} THEN CreateAuthProfile(t, ProfileOf(p, secrets.key, secrets.token))
          ELSE UpdateAuthProfile(t, r.id, ProfileOf(p, KeepSecret(secrets.key, r.key),
                                                    KeepSecret(secrets.token, r.token)))
  BY DEF ImportProfile, ProfileOf
<1>3. CASE old = {}
  <2> DEFINE q == ProfileOf(p, secrets.key, secrets.token)
  <2>1. IsProfile(q) /\ q.name = p.name  BY <1>1, ProfileOfFile
  <2>2. Named(t.profiles, q.name) = {}  BY <1>3, <2>1 DEF GetAuthProfileByName
  <2> HIDE DEF q
  <2>3. Good(CreateAuthProfile(t, q), j)  BY <2>1, <2>2, CreateProfile
  <2> QED  BY <1>2, <1>3, <2>3 DEF q
<1>4. CASE old # {}
  <2> DEFINE q == ProfileOf(p, KeepSecret(secrets.key, r.key), KeepSecret(secrets.token, r.token))
  <2>1. r \in t.profiles /\ r.name = p.name
    <3>1. r \in old  BY <1>4
    <3> HIDE DEF r
    <3> QED  BY <3>1 DEF GetAuthProfileByName, Named
  <2>2. r.key \in Texts /\ r.token \in Texts
    <3>1. t.profiles \in SUBSET ProfileRows  BY DEF Good, Typed
    <3> HIDE DEF r
    <3> QED  BY <2>1, <3>1 DEF ProfileRows
  <2> HIDE DEF r, secrets
  <2>3. KeepSecret(secrets.key, r.key) \in Texts /\ KeepSecret(secrets.token, r.token) \in Texts
    BY <1>1, <2>2 DEF KeepSecret
  <2>4. IsProfile(q) /\ q.name = r.name  BY <2>1, <2>3, ProfileOfFile
  <2> HIDE DEF q
  <2>5. Good(UpdateAuthProfile(t, r.id, q), j)  BY <2>1, <2>4, UpdateProfile
  <2> QED  BY <1>2, <1>4, <2>5 DEF q
<1> QED  BY <1>3, <1>4

\* A pool of a file that was validated, whose profile is there.
IsFilePool(t, p) ==
  /\ p.name \in Names /\ p.provider \in Providers /\ p.url \in Names
  /\ p.scope \in Scopes \cup {""} /\ p.idle \in Int /\ p.max \in Int
  /\ p.labels \in AllLabels /\ p.image \in Texts
  /\ p.renovate \in [enabled : BOOLEAN, cron : Texts, image : Texts]
  /\ \E r \in t.profiles : r.name = p.auth

\* The steps of its import: the row, its number, the target and Renovate.
AuthOf(t, p) == (CHOOSE r \in t.profiles : r.name = p.auth).id
PoolOf(t, p) ==
  [name |-> p.name, provider |-> p.provider, url |-> p.url,
   scope |-> ScopeOr(p.scope, "repo"), auth |-> AuthOf(t, p),
   idle |-> Default(p.idle, 1), max |-> Default(p.max, 5),
   labels |-> [form |-> "json", labels |-> p.labels], image |-> p.image]
WithPool(t, p) ==
  LET old == GetRunnerPoolByName(t, p.name)
  IN  IF old = {} THEN CreateRunnerPool(t, PoolOf(t, p))
      ELSE UpdateRunnerPool(t, (CHOOSE x \in old : TRUE).id, PoolOf(t, p))
IdOf(t, name) == (CHOOSE x \in t.pools : x.name = name).id
WithTarget(t, id, url) ==
  IF \E r \in ListPoolTargetsByPoolId(t, id) : r.url = url THEN t ELSE AddPoolTarget(t, id, url)
ConfigOf(p) == [p.renovate EXCEPT !.image = IF @ = "" THEN "latest" ELSE @]
WithConfig(t, id, p) ==
  IF p.renovate.image = "none" THEN t
  ELSE IF GetRenovateConfigByPoolId(t, id) # {} THEN UpdateRenovateConfig(t, id, ConfigOf(p))
  ELSE CreateRenovateConfig(t, id, ConfigOf(p))

\* The import of a pool, cut into its three statements.
LEMMA ImportPoolSteps ==
  ASSUME NEW t, NEW p
  PROVE  ImportPool(t, p) =
           WithConfig(WithTarget(WithPool(t, p), IdOf(WithPool(t, p), p.name), p.url),
                      IdOf(WithPool(t, p), p.name), p)
  BY Zenon DEF ImportPool, WithConfig, WithTarget, WithPool, IdOf, PoolOf, AuthOf, ConfigOf

\* A default is a number where the field is one.
LEMMA DefaultInt == ASSUME NEW n \in Int, NEW d \in Int PROVE Default(n, d) \in Int
  BY DEF Default

\* What it says.
LEMMA PoolOfFile ==
  ASSUME NEW t, NEW j, Good(t, j), NEW p, IsFilePool(t, p)
  PROVE  /\ IsPool(PoolOf(t, p)) /\ PoolOf(t, p).name = p.name
         /\ \E y \in t.profiles : y.id = PoolOf(t, p).auth
<1> DEFINE q == PoolOf(t, p)
           a == CHOOSE r \in t.profiles : r.name = p.auth
<1>1. /\ p.name \in Names /\ p.provider \in Providers /\ p.url \in Names
      /\ p.scope \in Scopes \cup {""} /\ p.idle \in Int /\ p.max \in Int
      /\ p.labels \in AllLabels /\ p.image \in Texts
  BY DEF IsFilePool
<1>2. a \in t.profiles  BY DEF IsFilePool
<1> HIDE DEF a
<1>3. a.id \in Nat  BY <1>2 DEF Good, Typed, ProfileRows
<1>4. /\ q.name = p.name /\ q.provider = p.provider /\ q.url = p.url
      /\ q.scope = ScopeOr(p.scope, "repo") /\ q.auth = a.id /\ q.idle = Default(p.idle, 1)
      /\ q.max = Default(p.max, 5) /\ q.labels = [form |-> "json", labels |-> p.labels]
      /\ q.image = p.image
  BY DEF PoolOf, AuthOf, a
<1> HIDE DEF q
<1>5. IsPool(q)
  <2>1. Default(p.idle, 1) \in Int /\ Default(p.max, 5) \in Int
    <3>1. p.idle \in Int /\ p.max \in Int  BY <1>1, Zenon
    <3>2. \A n \in Int : Default(n, 1) \in Int /\ Default(n, 5) \in Int  BY DefaultInt
    <3> QED  BY <3>1, <3>2, Zenon
  <2>2. [form |-> "json", labels |-> p.labels] \in LabelColumns
    BY <1>1 DEF LabelColumns
  <2>3. ScopeOr(p.scope, "repo") \in Scopes  BY <1>1 DEF ScopeOr, Scopes
  <2> QED  BY <1>1, <1>3, <1>4, <2>1, <2>2, <2>3 DEF IsPool
<1>6. \E y \in t.profiles : y.id = q.auth  BY <1>2, <1>4
<1> QED  BY <1>4, <1>5, <1>6 DEF q

\* The row.
LEMMA WithPoolGood ==
  ASSUME NEW t, NEW j, Good(t, j), NEW p, IsFilePool(t, p)
  PROVE  /\ Good(WithPool(t, p), j) /\ WithPool(t, p).profiles = t.profiles
         /\ \E x \in WithPool(t, p).pools : x.name = p.name
<1> DEFINE q == PoolOf(t, p)
           old == GetRunnerPoolByName(t, p.name)
           x == CHOOSE y \in old : TRUE
           u == WithPool(t, p)
<1>1. q.name = p.name  BY PoolOfFile
<1>2. IsPool(q)  BY PoolOfFile
<1>3. \E y \in t.profiles : y.id = q.auth  BY PoolOfFile
<1> HIDE DEF q
<1>4. u = IF old = {} THEN CreateRunnerPool(t, q) ELSE UpdateRunnerPool(t, x.id, q)
  BY DEF WithPool, q
<1>5. CASE old = {}
  <2>1. Named(t.pools, q.name) = {}  BY <1>1, <1>5 DEF GetRunnerPoolByName
  <2> DEFINE n == t.ids.pool + 1
             row == PoolRow(n, q)
  <2>2. row.name = p.name  BY <1>1 DEF PoolRow
  <2>3. PoolsOnly(t, u, t.pools \cup {row}, n) /\ Good(u, j)
    BY <1>2, <1>3, <1>4, <1>5, <2>1, CreatePool
  <2> HIDE DEF row, n, u
  <2>4. u.profiles = t.profiles /\ u.pools = t.pools \cup {row}  BY <2>3 DEF PoolsOnly
  <2>5. \E y \in u.pools : y.name = p.name  BY <2>2, <2>4
  <2> QED  BY <2>3, <2>4, <2>5 DEF u
<1>6. CASE old # {}
  <2>1. x \in old  BY <1>6
  <2> HIDE DEF x
  <2>2. x \in t.pools /\ x.name = q.name  BY <1>1, <2>1 DEF GetRunnerPoolByName, Named
  <2>7. \A y \in t.pools : y.name = q.name => y = x  BY <2>2 DEF Good, Sound, Unique
  <2> DEFINE row == PoolRow(x.id, q)
  <2>3. row.name = p.name  BY <1>1 DEF PoolRow
  <2>4. PoolsOnly(t, u, (t.pools \ {x}) \cup {row}, t.ids.pool) /\ Good(u, j)
    BY <1>2, <1>3, <1>4, <1>6, <2>2, <2>7, UpdatePool
  <2> HIDE DEF row, u
  <2>5. u.profiles = t.profiles /\ u.pools = (t.pools \ {x}) \cup {row}  BY <2>4 DEF PoolsOnly
  <2>6. \E y \in u.pools : y.name = p.name  BY <2>3, <2>5
  <2> QED  BY <2>4, <2>5, <2>6 DEF u
<1> QED  BY <1>5, <1>6

\* The target and Renovate.
LEMMA WithTargetGood ==
  ASSUME NEW t, NEW j, Good(t, j), NEW id \in Nat, NEW url \in Texts
  PROVE  /\ Good(WithTarget(t, id, url), j)
         /\ t.targets \subseteq WithTarget(t, id, url).targets
         /\ TargetsOnly(t, WithTarget(t, id, url), WithTarget(t, id, url).targets)
<1> DEFINE v == AddPoolTarget(t, id, url)
           rs == t.targets \cup {[pool |-> id, url |-> url]}
<1>1. TargetsOnly(t, v, rs) /\ Good(v, j)  BY AddTarget
<1>2. t.targets \subseteq rs  OBVIOUS
<1>3. TargetsOnly(t, t, t.targets)  BY DEF TargetsOnly, Good
<1> HIDE DEF v, rs
<1>4. v.targets = rs  BY <1>1 DEF TargetsOnly
<1>5. WithTarget(t, id, url) = t \/ WithTarget(t, id, url) = v  BY DEF WithTarget, v
<1> QED  BY <1>1, <1>2, <1>3, <1>4, <1>5

\* The Renovate configuration of an imported pool keeps the tables good.
LEMMA WithConfigGood ==
  ASSUME NEW t, NEW j, Good(t, j), NEW id \in Nat, id <= t.ids.pool,
         NEW p, p.renovate \in [enabled : BOOLEAN, cron : Texts, image : Texts]
  PROVE  Good(WithConfig(t, id, p), j) /\ WithConfig(t, id, p).profiles = t.profiles
<1> DEFINE c == ConfigOf(p)
           image == p.renovate.image
           u == CreateRenovateConfig(t, id, c)
           v == UpdateRenovateConfig(t, id, c)
<1>2. /\ c.enabled = p.renovate.enabled /\ c.cron = p.renovate.cron
      /\ c.image = IF image = "" THEN "latest" ELSE image
  BY DEF ConfigOf
<1> HIDE DEF c
<1>3. p.renovate.enabled \in BOOLEAN /\ p.renovate.cron \in Texts /\ image \in Texts
  OBVIOUS
<1>4. ASSUME image # "none" PROVE IsConfig(c)
  <2>1. "latest" \in Texts  BY DEF Texts
  <2>2. "latest" # "" /\ "latest" # "none"  OBVIOUS
  <2> HIDE DEF image
  <2> QED  BY <1>2, <1>3, <1>4, <2>1, <2>2 DEF IsConfig
<1>5. IsTables(t)  BY DEF Good
<1>6. u.profiles = t.profiles /\ v.profiles = t.profiles
  BY <1>5, ColumnOnly DEF CreateRenovateConfig, UpdateRenovateConfig, ConfigsOnly
<1>7. ASSUME image # "none", GetRenovateConfigByPoolId(t, id) = {} PROVE Good(u, j)
  BY <1>4, <1>7, CreateConfig
<1>8. ASSUME image # "none" PROVE Good(v, j)  BY <1>4, <1>8, UpdateConfig
<1> HIDE DEF u, v
<1>9. WithConfig(t, id, p) =
        IF image = "none" THEN t
        ELSE IF GetRenovateConfigByPoolId(t, id) # {} THEN v ELSE u
  BY DEF WithConfig, u, v, c
<1> HIDE DEF image
<1> QED  BY <1>6, <1>7, <1>8, <1>9

\* All of it.
LEMMA ImportPoolGood ==
  ASSUME NEW t, NEW j, Good(t, j), NEW p, IsFilePool(t, p)
  PROVE  Good(ImportPool(t, p), j) /\ ImportPool(t, p).profiles = t.profiles
<1> DEFINE u == WithPool(t, p)
           x == CHOOSE y \in u.pools : y.name = p.name
           id == IdOf(u, p.name)
           v == WithTarget(u, id, p.url)
           w == WithConfig(v, id, p)
<1>1. /\ Good(u, j) /\ u.profiles = t.profiles /\ \E y \in u.pools : y.name = p.name
  BY WithPoolGood
<1> HIDE DEF u
<1>2. x \in u.pools  BY <1>1
<1> HIDE DEF x
<1>3. id = x.id  BY DEF IdOf, x
<1> HIDE DEF id
<1>4. id \in Nat /\ id <= u.ids.pool
  BY <1>1, <1>2, <1>3 DEF Good, Typed, Sound, Unique, PoolRows
<1>5. /\ p.renovate \in [enabled : BOOLEAN, cron : Texts, image : Texts] /\ p.url \in Texts
  BY DEF IsFilePool, Names, Texts
<1>6. Good(v, j) /\ TargetsOnly(u, v, v.targets)  BY <1>1, <1>4, <1>5, WithTargetGood
<1> HIDE DEF v
<1>7. v.profiles = t.profiles /\ id <= v.ids.pool  BY <1>1, <1>4, <1>6 DEF TargetsOnly
<1>8. Good(w, j) /\ w.profiles = t.profiles  BY <1>4, <1>5, <1>6, <1>7, WithConfigGood
<1>9. ImportPool(t, p) = w  BY ImportPoolSteps DEF w, v, id, u
<1> QED  BY <1>8, <1>9

\* The profiles of a file one after the other: g says what the tables are after
\* some of them.
ProfilesWalk(g, P, t, A) ==
  /\ g[{}] = t
  /\ \A d \in SUBSET P : g[d] \in A /\ (d # {} => \E p \in d : g[d] = ImportProfile(g[d \ {p}], p))

\* The tables between the imports of one profile and the next.
LEMMA ProfileSteps ==
  ASSUME NEW P, IsFiniteSet(P), NEW A, NEW t \in A,
         \A u \in A, p \in P : ImportProfile(u, p) \in A
  PROVE  \E g : /\ ProfilesWalk(g, P, t, A)
                /\ FoldSet(LAMBDA p, u : ImportProfile(u, p), t, P) = g[P]
<1> DEFINE M(d) == CHOOSE x \in d : TRUE
           Fold(g) == [d \in SUBSET P |-> IF d = {} THEN t ELSE ImportProfile(g[d \ {M(d)}], M(d))]
           iter == CHOOSE g : g = Fold(g)
<1>1. FoldSet(LAMBDA p, u : ImportProfile(u, p), t, P) = iter[P]
  BY Zenon DEF FoldSet, MapThenFoldSet
<1>2. \A d \in SUBSET P : d # {} => M(d) \in d  OBVIOUS
<1> HIDE DEF M
<1> DEFINE pick == [d \in SUBSET P |-> M(d)]
           step == [u \in A |-> [p \in P |-> ImportProfile(u, p)]]
<1>3. \A d \in SUBSET P : d # {} => pick[d] \in d  BY <1>2
<1>4. step \in [A -> [P -> A]]  OBVIOUS
<1>5. \A u \in A, p \in P : step[u][p] = ImportProfile(u, p)  OBVIOUS
<1>6. \A d \in SUBSET P : pick[d] = M(d)  OBVIOUS
<1> HIDE DEF pick, step
<1>7. PICK g \in [SUBSET P -> A] : IsFold(g, P, t, pick, step)
  BY <1>3, <1>4, FoldExists
<1>8. ASSUME NEW d \in SUBSET P, d # {}
      PROVE  step[g[d \ {pick[d]}]][pick[d]] = ImportProfile(g[d \ {M(d)}], M(d))
  <2>1. d \ {M(d)} \in SUBSET P /\ M(d) \in P  BY <1>2, <1>8
  <2>2. g[d \ {M(d)}] \in A  BY <2>1
  <2> QED  BY <1>5, <1>6, <2>1, <2>2
<1>9. \A d \in SUBSET P : g[d] = IF d = {} THEN t ELSE ImportProfile(g[d \ {M(d)}], M(d))
  BY <1>7, <1>8 DEF IsFold
<1>10. g = Fold(g)  BY <1>9
<1>11. iter = Fold(iter)  BY <1>10
<1> HIDE DEF iter
<1>12. \A d \in SUBSET P : iter[d] = IF d = {} THEN t ELSE ImportProfile(iter[d \ {M(d)}], M(d))
  BY <1>11
<1> DEFINE T == {k \in Nat : \A d \in SUBSET P : Cardinality(d) = k => iter[d] \in A}
<1>13. \A d \in SUBSET P : IsFiniteSet(d) /\ Cardinality(d) \in Nat
  BY FS_Subset, FS_CardinalityType
<1>14. 0 \in T
  <2>1. \A d \in SUBSET P : Cardinality(d) = 0 => d = {}  BY <1>13, FS_EmptySet
  <2>2. iter[{}] = t  BY <1>12
  <2> QED  BY <2>1, <2>2
<1>15. ASSUME NEW k \in Nat, k \in T PROVE k + 1 \in T
  <2> SUFFICES ASSUME NEW d \in SUBSET P, Cardinality(d) = k + 1 PROVE iter[d] \in A  OBVIOUS
  <2>1. d # {}  BY FS_EmptySet
  <2>2. M(d) \in d /\ M(d) \in P  BY <1>2, <2>1
  <2>3. Cardinality(d \ {M(d)}) = k  BY <1>13, <2>2, FS_RemoveElement
  <2>4. iter[d \ {M(d)}] \in A  BY <1>15, <2>3
  <2> QED  BY <1>12, <2>1, <2>2, <2>4
<1>16. ASSUME NEW d \in SUBSET P PROVE iter[d] \in A
  <2>1. Cardinality(d) \in T
    <3> HIDE DEF T
    <3> QED  BY <1>13, <1>14, <1>15, NatSet
  <2> QED  BY <2>1
<1>17. ProfilesWalk(iter, P, t, A)  BY <1>2, <1>12, <1>16 DEF ProfilesWalk
<1> QED  BY <1>1, <1>17

\* The pools of a file in their order.
PoolsWalk(C, q, t, A) ==
  /\ C \in [0..Len(q) -> A] /\ C[0] = t
  /\ \A k \in 1..Len(q) : C[k] = ImportPool(C[k - 1], q[k])

\* The tables between the imports of one pool and the next.
LEMMA PoolSteps ==
  ASSUME NEW S, NEW q \in Seq(S), NEW A, NEW t \in A,
         \A u \in A, i \in 1..Len(q) : ImportPool(u, q[i]) \in A
  PROVE  \E C : PoolsWalk(C, q, t, A) /\ FoldLeft(ImportPool, t, q) = C[Len(q)]
<1> DEFINE n == Len(q)
           D == DOMAIN q
           M(d) == CHOOSE x \in d : \A y \in d : x >= y
           Fold(g) == [d \in SUBSET D |-> IF d = {} THEN t ELSE ImportPool(g[d \ {M(d)}], q[M(d)])]
           iter == CHOOSE g : g = Fold(g)
<1>1. FoldLeft(ImportPool, t, q) = iter[D]
  BY Zenon DEF FoldLeft, MapThenFoldSet, Max
<1>2. n \in Nat /\ D = 1..n  BY SeqDomain
<1>3. \A d \in SUBSET D : d # {} => M(d) \in d  BY <1>2, GreatestNumber
<1>4. \A u \in A, i \in D : ImportPool(u, q[i]) \in A  BY <1>2
<1>5. IsFiniteSet(D)  BY <1>2, FS_Interval
<1> HIDE DEF D, n, M
<1>6. iter = Fold(iter)
  <2> DEFINE pick == [d \in SUBSET D |-> M(d)]
             step == [x \in A |-> [i \in D |-> ImportPool(x, q[i])]]
  <2>1. \A d \in SUBSET D : d # {} => pick[d] \in d  BY <1>3
  <2>2. step \in [A -> [D -> A]]  BY <1>4
  <2>3. \A x \in A, i \in D : step[x][i] = ImportPool(x, q[i])  OBVIOUS
  <2>4. \A d \in SUBSET D : pick[d] = M(d)  OBVIOUS
  <2> HIDE DEF pick, step
  <2>5. PICK g \in [SUBSET D -> A] : IsFold(g, D, t, pick, step)
    BY <1>5, <2>1, <2>2, FoldExists
  <2>6. ASSUME NEW d \in SUBSET D, d # {}
        PROVE  step[g[d \ {pick[d]}]][pick[d]] = ImportPool(g[d \ {M(d)}], q[M(d)])
    <3>1. d \ {M(d)} \in SUBSET D /\ M(d) \in D  BY <1>3, <2>6
    <3>2. g[d \ {M(d)}] \in A  BY <3>1
    <3> QED  BY <2>3, <2>4, <3>1, <3>2
  <2>7. \A d \in SUBSET D : g[d] = IF d = {} THEN t ELSE ImportPool(g[d \ {M(d)}], q[M(d)])
    BY <2>5, <2>6 DEF IsFold
  <2>8. g = Fold(g)  BY <2>7
  <2> QED  BY <2>8
<1> HIDE DEF iter
<1>7. iter[1..0] = t  BY <1>2, <1>6
<1>8. ASSUME NEW k \in Nat, k + 1 <= n PROVE iter[1..(k + 1)] = ImportPool(iter[1..k], q[k + 1])
  <2>1. 1..(k + 1) \in SUBSET D /\ 1..(k + 1) # {} /\ k + 1 \in Nat \ {0}
    <3>1. 1 \in 1..(k + 1) /\ k + 1 \in Nat \ {0}  OBVIOUS
    <3>2. \A i \in 1..(k + 1) : i \in 1..n  BY <1>2, <1>8
    <3> QED  BY <1>2, <3>1, <3>2
  <2>2. M(1..(k + 1)) = k + 1  BY <2>1, GreatestOf, Zenon DEF M
  <2>3. (1..(k + 1)) \ {k + 1} = 1..k  OBVIOUS
  <2>4. iter[1..(k + 1)] = ImportPool(iter[(1..(k + 1)) \ {M(1..(k + 1))}], q[M(1..(k + 1))])
    BY <1>6, <2>1
  <2> QED  BY <2>2, <2>3, <2>4
<1> DEFINE T == {k \in Nat : k <= n => iter[1..k] \in A}
<1>9. 0 \in T  BY <1>7
<1>10. ASSUME NEW k \in Nat, k \in T PROVE k + 1 \in T
  <2> SUFFICES ASSUME k + 1 <= n PROVE iter[1..(k + 1)] \in A  OBVIOUS
  <2>1. iter[1..k] \in A /\ k + 1 \in D  BY <1>2, <1>10
  <2> QED  BY <1>4, <1>8, <2>1
<1>11. \A k \in Nat : k \in T
  <2> HIDE DEF T
  <2> QED  BY <1>9, <1>10, NatSet
<1> DEFINE C == [k \in 0..n |-> iter[1..k]]
<1>12. C \in [0..n -> A]  BY <1>2, <1>11
<1>13. ASSUME NEW k \in 1..n PROVE C[k] = ImportPool(C[k - 1], q[k])
  <2>1. k - 1 \in Nat /\ k - 1 \in 0..n /\ k \in 0..n /\ (k - 1) + 1 = k /\ (k - 1) + 1 <= n  BY <1>2
  <2>2. iter[1..((k - 1) + 1)] = ImportPool(iter[1..(k - 1)], q[(k - 1) + 1])  BY <1>8, <2>1
  <2>3. C[k] = iter[1..k] /\ C[k - 1] = iter[1..(k - 1)]  BY <2>1
  <2> QED  BY <2>1, <2>2, <2>3
<1>14. C[0] = t /\ C[n] = iter[D]  BY <1>2, <1>7
<1> HIDE DEF C
<1>15. PoolsWalk(C, q, t, A)  BY <1>12, <1>13, <1>14 DEF PoolsWalk, n
<1> QED  BY <1>1, <1>14, <1>15 DEF n

\* What a file has, once it was validated.
IsValid(cfg) ==
  /\ cfg.global["total_allowed_runners"] \in Int /\ cfg.global["job_retention_days"] \in Int
  /\ IsFiniteSet(cfg.profiles) /\ \A p \in cfg.profiles : IsFileProfile(p)
  /\ \E S : cfg.pools \in Seq(S)

\* Settings, and the deletions of an overwrite, keep the tables good.
LEMMA PreparedGood ==
  ASSUME NEW t, Good(t, {}), NEW cfg, IsValid(cfg), NEW mode
  PROVE  Good(Prepared(t, cfg, mode), {})
<1> DEFINE b == IF mode = "overwrite" THEN Emptied(t) ELSE t
           s == ImportSettings(b, cfg.global)
           P == cfg.profiles
           A == GoodTables({})
<1>1. Good(b, {})  BY EmptiedGood
<1> HIDE DEF b
<1>2. Good(s, {})  BY <1>1, FileSettings DEF IsValid
<1>3. Prepared(t, cfg, mode) = FoldSet(LAMBDA p, u : ImportProfile(u, p), s, P)
  BY DEF Prepared, s, b
<1> HIDE DEF s
<1>4. s \in A  BY <1>2, GoodSet
<1>5. \A u \in A, p \in P : ImportProfile(u, p) \in A  BY GoodSet, ImportProfileGood DEF IsValid
<1>6. IsFiniteSet(P)  BY DEF IsValid
<1> HIDE DEF A, P
<1>7. PICK g : ProfilesWalk(g, P, s, A) /\ FoldSet(LAMBDA p, u : ImportProfile(u, p), s, P) = g[P]
  BY <1>4, <1>5, <1>6, ProfileSteps
<1>8. g[P] \in A  BY <1>7 DEF ProfilesWalk
<1> QED  BY <1>3, <1>7, <1>8, GoodSet DEF A

\* The tables of an import that was done, but for the settings.
Merged(s, d) ==
  [s EXCEPT !.profiles = d.profiles, !.pools = d.pools, !.targets = d.targets,
            !.renovate = d.renovate, !.jobs = @ \cap d.jobs,
            !.ids.profile = d.ids.profile, !.ids.pool = d.ids.pool]

\* What a committed import takes from the tables it started on.
LEMMA MergedFields ==
  ASSUME NEW s, IsTables(s), NEW d
  PROVE  /\ IsTables(Merged(s, d))
         /\ Merged(s, d).settings = s.settings /\ Merged(s, d).profiles = d.profiles
         /\ Merged(s, d).pools = d.pools /\ Merged(s, d).targets = d.targets
         /\ Merged(s, d).renovate = d.renovate /\ Merged(s, d).jobs = s.jobs \cap d.jobs
         /\ Merged(s, d).ids.profile = d.ids.profile /\ Merged(s, d).ids.pool = d.ids.pool
         /\ Merged(s, d).ids.job = s.ids.job
<1> DEFINE w == Merged(s, d)
           i == [[s.ids EXCEPT !.profile = d.ids.profile] EXCEPT !.pool = d.ids.pool]
<1>1. s = [settings |-> s.settings, profiles |-> s.profiles, pools |-> s.pools,
           targets |-> s.targets, renovate |-> s.renovate, jobs |-> s.jobs, ids |-> s.ids]
  BY DEF IsTables
<1>2. /\ i.profile = d.ids.profile /\ i.pool = d.ids.pool /\ i.job = s.ids.job
      /\ i = [profile |-> i.profile, pool |-> i.pool, job |-> i.job]
  <2>1. s.ids = [profile |-> s.ids.profile, pool |-> s.ids.pool, job |-> s.ids.job]
    BY DEF IsTables
  <2> DEFINE k == [s.ids EXCEPT !.profile = d.ids.profile]
  <2>2. /\ k.profile = d.ids.profile /\ k.pool = s.ids.pool /\ k.job = s.ids.job
        /\ k = [profile |-> k.profile, pool |-> k.pool, job |-> k.job]
    <3>1. k = [s.ids EXCEPT !.profile = d.ids.profile]  OBVIOUS
    <3> HIDE DEF k
    <3> QED  BY <2>1, <3>1
  <2>3. i = [k EXCEPT !.pool = d.ids.pool]  OBVIOUS
  <2> HIDE DEF k, i
  <2> QED  BY <2>2, <2>3
<1>3. w = [s EXCEPT !.profiles = d.profiles, !.pools = d.pools, !.targets = d.targets,
                    !.renovate = d.renovate, !.jobs = s.jobs \cap d.jobs, !.ids = i]
  BY <1>1 DEF Merged
<1> HIDE DEF w, i
<1>4. /\ w.settings = s.settings /\ w.profiles = d.profiles
      /\ w.pools = d.pools /\ w.targets = d.targets
      /\ w.renovate = d.renovate /\ w.jobs = s.jobs \cap d.jobs /\ w.ids = i
      /\ w = [settings |-> w.settings, profiles |-> w.profiles, pools |-> w.pools,
              targets |-> w.targets, renovate |-> w.renovate, jobs |-> w.jobs, ids |-> w.ids]
  BY <1>1, <1>3
<1>5. IsTables(w)  BY <1>2, <1>4 DEF IsTables
<1> QED  BY <1>2, <1>4, <1>5 DEF w

\* Pools whose profiles are there are imported.
LEMMA PoolsGood ==
  ASSUME NEW t, Good(t, {}), NEW S, NEW q \in Seq(S),
         \A i \in 1..Len(q) : IsFilePool(t, q[i])
  PROVE  Good(FoldLeft(ImportPool, t, q), {})
<1> DEFINE A == {u \in GoodTables({}) : u.profiles = t.profiles}
<1>1. t \in A  BY GoodSet
<1>2. ASSUME NEW u \in A, NEW i \in 1..Len(q) PROVE ImportPool(u, q[i]) \in A
  <2>1. Good(u, {}) /\ u.profiles = t.profiles  BY GoodSet
  <2>2. IsFilePool(u, q[i])  BY <2>1 DEF IsFilePool
  <2>3. Good(ImportPool(u, q[i]), {}) /\ ImportPool(u, q[i]).profiles = u.profiles
    BY <2>1, <2>2, ImportPoolGood
  <2> QED  BY <2>1, <2>3, GoodSet
<1> HIDE DEF A
<1>3. PICK C : PoolsWalk(C, q, t, A) /\ FoldLeft(ImportPool, t, q) = C[Len(q)]
  BY <1>1, <1>2, PoolSteps
<1>4. Len(q) \in Nat  BY SeqDomain
<1>5. C[Len(q)] \in A  BY <1>3, <1>4 DEF PoolsWalk
<1> QED  BY <1>3, <1>5, GoodSet DEF A

\* An import keeps the tables good.
LEMMA ImportGood ==
  ASSUME NEW t, Good(t, {}), NEW cfg, IsFile(cfg), NEW mode, Importable(t, cfg, mode)
  PROVE  Good(ImportSeedConfig(t, cfg, mode), {})
<1> DEFINE b == Prepared(t, cfg, mode)
           d == FoldLeft(ImportPool, b, cfg.pools)
           s == ImportSettings(t, cfg.global)
           w == Merged(s, d)
<1>1. /\ \A p \in cfg.profiles : p.name # "" /\ p.method \in Methods
                                 /\ (p.method = "github_app" => p.app # 0)
      /\ \A i \in DOMAIN cfg.pools :
           /\ cfg.pools[i].name # "" /\ cfg.pools[i].url # ""
           /\ cfg.pools[i].provider \in Providers /\ cfg.pools[i].scope \in Scopes \cup {""}
  BY DEF Importable, Validate
<1>2. IsValid(cfg)
  <2>1. \A p \in cfg.profiles : IsFileProfile(p)
    BY <1>1 DEF IsFile, FileProfiles, IsFileProfile, Texts
  <2>2. cfg.pools \in Seq(FilePools)  BY DEF IsFile
  <2> QED  BY <2>1, <2>2 DEF IsFile, IsValid
<1>3. Good(b, {})  BY <1>2, PreparedGood
<1>4. cfg.pools \in Seq(FilePools)  BY DEF IsFile
<1>5. ASSUME NEW i \in 1..Len(cfg.pools) PROVE IsFilePool(b, cfg.pools[i])
  <2> DEFINE p == cfg.pools[i]
  <2>1. p \in FilePools /\ i \in DOMAIN cfg.pools  BY <1>4, SeqDomain
  <2>2. \E r \in b.profiles : r.name = p.auth
    BY <2>1 DEF Importable, GetAuthProfileByName, Named
  <2>3. /\ p.name # "" /\ p.url # "" /\ p.provider \in Providers
        /\ p.scope \in Scopes \cup {""}
    BY <1>1, <2>1
  <2> HIDE DEF p
  <2>4. /\ p.name \in Names /\ p.url \in Names /\ p.idle \in Int /\ p.max \in Int
        /\ p.labels \in AllLabels /\ p.image \in Texts
    BY <2>1, <2>3 DEF FilePools, Names, AllLabels, Texts
  <2>5. p.renovate \in [enabled : BOOLEAN, cron : Texts, image : Texts]
    <3>1. p.renovate \in RenovateFields  BY <2>1 DEF FilePools
    <3> QED  BY <3>1 DEF RenovateFields, Texts
  <2>6. IsFilePool(b, p)  BY <2>2, <2>3, <2>4, <2>5 DEF IsFilePool
  <2> QED  BY <2>6 DEF p
<1> HIDE DEF b
<1>6. Good(d, {})  BY <1>3, <1>4, <1>5, PoolsGood
<1>7. Good(s, {})  BY <1>2, FileSettings DEF IsValid
<1>8. ImportSeedConfig(t, cfg, mode) = w  BY DEF ImportSeedConfig, Merged, b
<1> HIDE DEF d, s, w
<1>9. /\ IsTables(w) /\ w.settings = s.settings /\ w.profiles = d.profiles
      /\ w.pools = d.pools /\ w.targets = d.targets /\ w.renovate = d.renovate
      /\ w.jobs = s.jobs \cap d.jobs /\ w.ids.profile = d.ids.profile
      /\ w.ids.pool = d.ids.pool /\ w.ids.job = s.ids.job
  BY <1>7, MergedFields DEF Good, w
<1>10. Typed(w, {})  BY <1>6, <1>7, <1>9 DEF Good, Typed
<1>11. Sound(w)  BY <1>6, <1>9 DEF Good, Sound
<1> QED  BY <1>8, <1>9, <1>10, <1>11 DEF Good

----------------------------------------------------------------------------
(* What an import makes of an export.                                      *)

\* A profile is itself again, but for a token that the environment has.
Restored(r) ==
  [r EXCEPT !.token = IF @ # "" /\ Environment[r.name] # "" THEN Environment[r.name] ELSE @]

\* A profile that is exported and merged back is itself, as the export can
\* tell.
LEMMA RestoredRow ==
  ASSUME NEW r \in ProfileRows, r.method = "github_app" => r.app # 0
  PROVE  LET p == Sanitized(r)
             secrets == ResolveCredentials(p)
             q == ProfileOf(p, KeepSecret(secrets.key, r.key), KeepSecret(secrets.token, r.token))
         IN  /\ IsProfile(q) /\ q.name = r.name /\ ProfileRow(r.id, q) = Restored(r)
             /\ Restored(r).name = r.name /\ p.name = r.name /\ IsFileProfile(p) /\ Readable(p)
<1> DEFINE p == Sanitized(r)
           secrets == ResolveCredentials(p)
           env == Environment[r.name]
           token == IF r.token # "" /\ env # "" THEN env ELSE r.token
           q == ProfileOf(p, KeepSecret(secrets.key, r.key), KeepSecret(secrets.token, r.token))
<1>1. /\ r.id \in Nat /\ r.name \in DOMAIN Environment /\ r.name # "" /\ r.method \in Methods
      /\ r.app \in Nat /\ r.key \in Texts /\ r.token \in Texts
      /\ r = [id |-> r.id, name |-> r.name, method |-> r.method, app |-> r.app, key |-> r.key,
              token |-> r.token]
  BY DEF ProfileRows
<1>2. env \in Texts  BY <1>1, SeedAssumption DEF Texts
<1> HIDE DEF env
<1>3. /\ p.name = r.name /\ p.method = r.method /\ p.app = r.app /\ p.key = "" /\ p.token = ""
      /\ p.keyPath = IF r.key # "" THEN "${REDACTED}" ELSE ""
      /\ p.tokenEnv = IF r.token # "" THEN r.name ELSE ""
  BY DEF Sanitized
<1> HIDE DEF p
<1>4. p.keyPath \in {"", "${REDACTED}"}  BY <1>3
<1>5. secrets.key = ""  BY <1>3, <1>4 DEF ResolveCredentials
<1>6. secrets.token = IF r.token # "" THEN env ELSE ""
  <2>1. CASE r.token # ""
    <3>1. p.token = "" /\ p.tokenEnv # "" /\ p.tokenEnv = r.name  BY <1>1, <1>3, <2>1
    <3> QED  BY <2>1, <3>1 DEF ResolveCredentials, env
  <2>2. CASE r.token = ""
    <3>1. p.token = "" /\ p.tokenEnv = ""  BY <1>3, <2>2
    <3> QED  BY <2>2, <3>1 DEF ResolveCredentials
  <2> QED  BY <2>1, <2>2
<1> HIDE DEF secrets
<1>7. KeepSecret(secrets.key, r.key) = r.key /\ KeepSecret(secrets.token, r.token) = token
  BY <1>5, <1>6 DEF KeepSecret
<1>8. token \in Texts  BY <1>1, <1>2
<1>9. (IF p.app > 0 THEN p.app ELSE 0) = r.app
  <2> DEFINE app == r.app
  <2>1. app \in Nat  BY <1>1
  <2> HIDE DEF app
  <2>2. (IF app > 0 THEN app ELSE 0) = app  BY <2>1
  <2> QED  BY <1>3, <2>2 DEF app
<1>10. q = [name |-> r.name, method |-> r.method, app |-> r.app, key |-> r.key, token |-> token]
  BY <1>3, <1>7, <1>9 DEF ProfileOf
<1>11. Restored(r) = [r EXCEPT !.token = token]  BY DEF Restored, env
<1> HIDE DEF q, token
<1>12. IsProfile(q) /\ q.name = r.name  BY <1>1, <1>8, <1>10 DEF IsProfile
<1>13. ProfileRow(r.id, q) = Restored(r) /\ Restored(r).name = r.name
  <2>1. ProfileRow(r.id, q) = [id |-> r.id, name |-> r.name, method |-> r.method, app |-> r.app,
                               key |-> r.key, token |-> token]
    BY <1>10 DEF ProfileRow
  <2> DEFINE x == Restored(r)
  <2> HIDE DEF x
  <2>2. x = [r EXCEPT !.token = token]  BY <1>11 DEF x
  <2>3. /\ x = [id |-> x.id, name |-> x.name, method |-> x.method, app |-> x.app, key |-> x.key,
                token |-> x.token]
        /\ x.id = r.id /\ x.name = r.name /\ x.method = r.method /\ x.app = r.app
        /\ x.key = r.key /\ x.token = token
    BY <1>1, <2>2
  <2> QED  BY <2>1, <2>3 DEF x
<1>14. IsFileProfile(p) /\ Readable(p)
  <2>1. "" \in Texts /\ "${REDACTED}" \in Texts /\ "${REDACTED}" # "missing" /\ "" # "missing"
    BY DEF Texts
  <2>2. p.key \in Texts /\ p.keyPath \in Texts /\ p.token \in Texts /\ p.keyPath # "missing"
    BY <1>3, <1>4, <2>1
  <2>3. p.tokenEnv \in DOMAIN Environment \cup {""}  BY <1>1, <1>3
  <2> QED  BY <1>1, <1>3, <2>2, <2>3 DEF IsFileProfile, Readable
<1> QED  BY <1>3, <1>12, <1>13, <1>14 DEF q, secrets, p

\* The profiles of tables, once some of them were imported again.
SomeRestored(rs, d) == {IF Sanitized(r) \in d THEN Restored(r) ELSE r : r \in rs}

\* One more of them.
LEMMA RestoreOne ==
  ASSUME NEW t, Good(t, {}), NEW d, NEW p \in d, NEW r \in t.profiles, p = Sanitized(r),
         NEW u, Good(u, {}),
         ProfilesOnly(t, u, SomeRestored(t.profiles, d \ {p}), t.ids.profile)
  PROVE  ProfilesOnly(t, ImportProfile(u, p), SomeRestored(t.profiles, d), t.ids.profile)
<1> DEFINE secrets == ResolveCredentials(p)
           q == ProfileOf(p, KeepSecret(secrets.key, r.key), KeepSecret(secrets.token, r.token))
           some == SomeRestored(t.profiles, d \ {p})
           all == SomeRestored(t.profiles, d)
           v == ImportProfile(u, p)
<1>1. /\ t.profiles \in SUBSET ProfileRows
      /\ \A x \in t.profiles : x.method = "github_app" => x.app # 0
      /\ \A x, y \in t.profiles : x.id = y.id \/ x.name = y.name => x = y
  BY DEF Good, Typed, Sound, Unique
<1>2. /\ IsProfile(q) /\ q.name = r.name /\ ProfileRow(r.id, q) = Restored(r) /\ p.name = r.name
  BY <1>1, RestoredRow
<1>3. \A x \in t.profiles : Restored(x).name = x.name /\ Sanitized(x).name = x.name
  BY <1>1, RestoredRow
<1>4. u.profiles = some  BY DEF ProfilesOnly
<1>5. r \in some  BY DEF SomeRestored
<1>6. GetAuthProfileByName(u, p.name) = {r}
  <2>1. \A x, y \in u.profiles : x.name = y.name => x = y  BY DEF Good, Sound, Unique
  <2> QED  BY <1>2, <1>4, <1>5, <2>1 DEF GetAuthProfileByName, Named
<1>7. (CHOOSE x \in {r} : TRUE) = r /\ {r} # {}  OBVIOUS
<1>8. v = UpdateAuthProfile(u, r.id, q)  BY <1>6, <1>7 DEF ImportProfile, ProfileOf
<1>9. ProfilesOnly(u, v, (some \ {r}) \cup {Restored(r)}, u.ids.profile)
  BY <1>2, <1>4, <1>5, <1>8, UpdateProfile
<1>10. (some \ {r}) \cup {Restored(r)} = all
  <2>1. ASSUME NEW x \in t.profiles, x # r
        PROVE  /\ Sanitized(x) # p /\ x # r /\ Restored(x) # r
    BY <1>1, <1>2, <1>3, <2>1
  <2>2. \A x \in t.profiles : x # r => (Sanitized(x) \in d <=> Sanitized(x) \in d \ {p})
    BY <2>1
  <2>3. ASSUME NEW z \in all PROVE z \in (some \ {r}) \cup {Restored(r)}
    <3>1. PICK x \in t.profiles : z = IF Sanitized(x) \in d THEN Restored(x) ELSE x
      BY <2>3 DEF SomeRestored
    <3>2. CASE x = r  BY <3>1, <3>2
    <3>3. CASE x # r
      <4>1. z = IF Sanitized(x) \in d \ {p} THEN Restored(x) ELSE x  BY <2>2, <3>1, <3>3
      <4>2. z \in some  BY <4>1 DEF SomeRestored
      <4> QED  BY <2>1, <3>1, <3>3, <4>2
    <3> QED  BY <3>2, <3>3
  <2>4. ASSUME NEW z \in some, z # r PROVE z \in all
    <3>1. PICK x \in t.profiles : z = IF Sanitized(x) \in d \ {p} THEN Restored(x) ELSE x
      BY <2>4 DEF SomeRestored
    <3>2. x # r  BY <2>4, <3>1
    <3>3. z = IF Sanitized(x) \in d THEN Restored(x) ELSE x  BY <2>2, <3>1, <3>2
    <3> QED  BY <3>3 DEF SomeRestored
  <2>5. Restored(r) \in all  BY DEF SomeRestored
  <2> HIDE DEF some, all
  <2> QED  BY <2>3, <2>4, <2>5
<1> HIDE DEF v, all, some
<1> QED  BY <1>9, <1>10 DEF ProfilesOnly, v, all, some

\* All of them.
LEMMA RestoreProfiles ==
  ASSUME NEW t, Good(t, {}), NEW P, P = {Sanitized(r) : r \in t.profiles}
  PROVE  LET b == FoldSet(LAMBDA p, u : ImportProfile(u, p), t, P)
         IN  /\ Good(b, {})
             /\ ProfilesOnly(t, b, {Restored(r) : r \in t.profiles}, t.ids.profile)
<1> DEFINE A == GoodTables({})
           b == FoldSet(LAMBDA p, u : ImportProfile(u, p), t, P)
<1>1. /\ t.profiles \in SUBSET ProfileRows /\ IsFiniteSet(t.profiles)
      /\ \A x \in t.profiles : x.method = "github_app" => x.app # 0
  BY DEF Good, Typed, Sound
<1>2. \A p \in P : IsFileProfile(p)  BY <1>1, RestoredRow
<1>3. IsFiniteSet(P)
  <2> DEFINE f == [r \in t.profiles |-> Sanitized(r)]
  <2>1. f \in Surjection(t.profiles, P)  BY DEF Surjection
  <2> QED  BY <1>1, <2>1, FS_Surjection
<1>4. t \in A  BY GoodSet
<1>5. \A u \in A, p \in P : ImportProfile(u, p) \in A  BY <1>2, GoodSet, ImportProfileGood
<1> HIDE DEF A
<1>6. PICK g : ProfilesWalk(g, P, t, A) /\ b = g[P]
  BY <1>3, <1>4, <1>5, ProfileSteps
<1>7. /\ g[{}] = t
      /\ \A d \in SUBSET P : Good(g[d], {})
      /\ \A d \in SUBSET P : d # {} => \E p \in d : g[d] = ImportProfile(g[d \ {p}], p)
  BY <1>6, GoodSet DEF ProfilesWalk, A
<1> DEFINE Claim(d) == ProfilesOnly(t, g[d], SomeRestored(t.profiles, d), t.ids.profile)
           T == {k \in Nat : \A d \in SUBSET P : Cardinality(d) = k => Claim(d)}
<1>8. \A d \in SUBSET P : IsFiniteSet(d) /\ Cardinality(d) \in Nat
  BY <1>3, FS_Subset, FS_CardinalityType
<1>9. 0 \in T
  <2>1. \A d \in SUBSET P : Cardinality(d) = 0 => d = {}  BY <1>8, FS_EmptySet
  <2>2. SomeRestored(t.profiles, {}) = t.profiles  BY DEF SomeRestored
  <2>3. Claim({})  BY <1>7, <2>2 DEF ProfilesOnly, Good
  <2> QED  BY <2>1, <2>3
<1>10. ASSUME NEW k \in Nat, k \in T PROVE k + 1 \in T
  <2> HIDE DEF Claim
  <2> SUFFICES ASSUME NEW d \in SUBSET P, Cardinality(d) = k + 1 PROVE Claim(d)  OBVIOUS
  <2>1. d # {}  BY FS_EmptySet
  <2>2. PICK p \in d : g[d] = ImportProfile(g[d \ {p}], p)  BY <1>7, <2>1
  <2>3. Cardinality(d \ {p}) = k  BY <1>8, <2>2, FS_RemoveElement
  <2>4. Claim(d \ {p}) /\ Good(g[d \ {p}], {})  BY <1>7, <1>10, <2>3
  <2>5. PICK r \in t.profiles : p = Sanitized(r)  OBVIOUS
  <2> DEFINE u == g[d \ {p}]
  <2>6. ProfilesOnly(t, u, SomeRestored(t.profiles, d \ {p}), t.ids.profile) /\ Good(u, {})
    BY <2>4 DEF Claim
  <2> HIDE DEF u
  <2>7. ProfilesOnly(t, ImportProfile(u, p), SomeRestored(t.profiles, d), t.ids.profile)
    BY <2>2, <2>5, <2>6, RestoreOne, Zenon
  <2> QED  BY <2>2, <2>7 DEF Claim, u
<1>11. Claim(P)
  <2>1. Cardinality(P) \in T
    <3> HIDE DEF T
    <3> QED  BY <1>8, <1>9, <1>10, NatSet
  <2> QED  BY <2>1
<1>12. SomeRestored(t.profiles, P) = {Restored(r) : r \in t.profiles}
  <2>1. \A r \in t.profiles : Sanitized(r) \in P  OBVIOUS
  <2> QED  BY <2>1 DEF SomeRestored
<1> QED  BY <1>6, <1>7, <1>11, <1>12

\* A pool is itself again, but for defaults and for the column of its labels.
Reset(r) ==
  [r EXCEPT !.idle = Default(@, 1), !.max = Default(@, 5),
            !.labels = [form |-> "json", labels |-> ExportedLabels(r.labels)]]

\* What an export has of a pool.
RenovateOf(t, id) ==
  LET found == GetRenovateConfigByPoolId(t, id)
      r == CHOOSE x \in found : TRUE
  IN  IF found = {} THEN NoRenovate
      ELSE [enabled |-> r.enabled, cron |-> r.cron, image |-> r.image]
BackedUp(t, r) ==
  [name |-> r.name, provider |-> r.provider, url |-> r.url, scope |-> r.scope,
   auth |-> ById(t.profiles, r.auth).name, idle |-> r.idle, max |-> r.max,
   labels |-> ExportedLabels(r.labels), image |-> r.image, renovate |-> RenovateOf(t, r.id)]

\* Labels stay labels.
LEMMA ExportedLabelsTyped ==
  ASSUME NEW c \in LabelColumns
  PROVE  ExportedLabels(c) \in AllLabels
<1>1. c.labels \in AllLabels  BY DEF LabelColumns
<1>2. c.labels \in SUBSET (SUBSET STRING)  BY <1>1 DEF AllLabels, LabelSets
<1>3. {UNION c.labels} \in SUBSET (SUBSET STRING)  BY <1>2
<1>4. IsFiniteSet({UNION c.labels})  BY FS_Singleton
<1>5. {UNION c.labels} \in AllLabels  BY <1>3, <1>4 DEF LabelSets, AllLabels
<1> QED  BY <1>1, <1>5 DEF ExportedLabels

\* A pool has one configuration or none.
LEMMA RenovateOfPool ==
  ASSUME NEW t, Good(t, {}), NEW id \in Nat
  PROVE  /\ RenovateOf(t, id) \in [enabled : BOOLEAN, cron : Texts, image : Texts]
         /\ RenovateOf(t, id).image # ""
         /\ GetRenovateConfigByPoolId(t, id) = {} => RenovateOf(t, id).image = "none"
         /\ GetRenovateConfigByPoolId(t, id) # {} =>
              /\ RenovateOf(t, id).image # "none"
              /\ GetRenovateConfigByPoolId(t, id) = {Configured(id, RenovateOf(t, id))}
<1> DEFINE found == GetRenovateConfigByPoolId(t, id)
           r == CHOOSE x \in found : TRUE
           c == RenovateOf(t, id)
<1>1. CASE found = {}
  <2>1. c = [enabled |-> FALSE, cron |-> "", image |-> "none"]  BY <1>1 DEF RenovateOf, NoRenovate
  <2>2. "" \in Texts /\ "none" \in Texts /\ "none" # ""  BY DEF Texts
  <2> HIDE DEF c
  <2>3. c \in [enabled : BOOLEAN, cron : Texts, image : Texts] /\ c.image = "none"
    BY <2>1, <2>2
  <2> QED  BY <1>1, <2>2, <2>3 DEF c
<1>2. CASE found # {}
  <2>1. r \in found  BY <1>2
  <2>2. c = [enabled |-> r.enabled, cron |-> r.cron, image |-> r.image]  BY <1>2 DEF RenovateOf
  <2> HIDE DEF r, c
  <2>3. r \in t.renovate /\ r.pool = id  BY <2>1 DEF GetRenovateConfigByPoolId
  <2>4. /\ r = [pool |-> r.pool, enabled |-> r.enabled, cron |-> r.cron, image |-> r.image]
        /\ r.enabled \in BOOLEAN /\ r.cron \in Texts /\ r.image \in Texts
        /\ r.image # "" /\ r.image # "none"
    BY <2>3 DEF Good, Typed, ConfigRows
  <2>5. found = {r}  BY <2>1, <2>3 DEF Good, Sound, GetRenovateConfigByPoolId
  <2>6. Configured(id, c) = r
    <3>1. c.enabled = r.enabled /\ c.cron = r.cron /\ c.image = r.image  BY <2>2
    <3> QED  BY <2>3, <2>4, <3>1 DEF Configured
  <2>7. c \in [enabled : BOOLEAN, cron : Texts, image : Texts] /\ c.image = r.image
    BY <2>2, <2>4
  <2> QED  BY <1>2, <2>4, <2>5, <2>6, <2>7 DEF c
<1> QED  BY <1>1, <1>2

\* A pool of a file that names its profile.
HasAuth(p) == p.auth # ""

\* What the import of an exported pool is about.
LEMMA ResetRow ==
  ASSUME NEW t, Good(t, {}), NEW r \in t.pools, NEW u, Good(u, {}),
         u.profiles = {Restored(x) : x \in t.profiles}
  PROVE  LET p == BackedUp(t, r)
             q == PoolOf(u, p)
         IN  /\ IsFilePool(u, p) /\ IsPool(q) /\ q.name = r.name /\ p.name = r.name /\ p.url = r.url
             /\ p.renovate = RenovateOf(t, r.id) /\ HasAuth(p)
             /\ p.labels = ExportedLabels(r.labels) /\ p.image = r.image
             /\ \E y \in u.profiles : y.id = q.auth
             /\ PoolRow(r.id, q) = Reset(r) /\ Reset(r).name = r.name
<1> DEFINE p == BackedUp(t, r)
           q == PoolOf(u, p)
           a == ById(t.profiles, r.auth)
           labels == ExportedLabels(r.labels)
           renovate == RenovateOf(t, r.id)
<1>1. r \in PoolRows  BY DEF Good, Typed
<1>2. /\ r.id \in Nat /\ r.name \in Names /\ r.provider \in Providers /\ r.url \in Names
      /\ r.scope \in Scopes /\ r.auth \in Nat /\ r.idle \in Int /\ r.max \in Int
      /\ r.labels \in LabelColumns /\ r.image \in Texts
      /\ r = [id |-> r.id, name |-> r.name, provider |-> r.provider, url |-> r.url,
              scope |-> r.scope, auth |-> r.auth, idle |-> r.idle, max |-> r.max,
              labels |-> r.labels, image |-> r.image]
  BY <1>1 DEF PoolRows
<1>3. /\ p.name = r.name /\ p.provider = r.provider /\ p.url = r.url /\ p.scope = r.scope
      /\ p.auth = a.name /\ p.idle = r.idle /\ p.max = r.max
      /\ p.labels = labels /\ p.image = r.image /\ p.renovate = renovate
  BY DEF BackedUp
<1>4. a \in t.profiles /\ a.id = r.auth
  <2>1. \E y \in t.profiles : y.id = r.auth  BY DEF Good, Sound
  <2> QED  BY <2>1 DEF ById
<1>5. labels \in AllLabels  BY <1>2, ExportedLabelsTyped
<1>6. renovate \in [enabled : BOOLEAN, cron : Texts, image : Texts]  BY <1>2, RenovateOfPool
<1> HIDE DEF p, a, labels, renovate
<1>7. a \in ProfileRows /\ (a.method = "github_app" => a.app # 0)
  BY <1>4 DEF Good, Typed, Sound
<1>8. Restored(a).name = a.name  BY <1>7, RestoredRow
<1>9. Restored(a).id = a.id
  <2>1. a = [id |-> a.id, name |-> a.name, method |-> a.method, app |-> a.app, key |-> a.key,
             token |-> a.token]
    BY <1>7 DEF ProfileRows
  <2> QED  BY <2>1 DEF Restored
<1>10. Restored(a) \in u.profiles  BY <1>4
<1>11. IsFilePool(u, p)  BY <1>2, <1>3, <1>5, <1>6, <1>8, <1>10 DEF IsFilePool
<1>12. AuthOf(u, p) = r.auth
  <2> DEFINE x == CHOOSE y \in u.profiles : y.name = p.auth
  <2>1. x \in u.profiles /\ x.name = p.auth  BY <1>3, <1>8, <1>10
  <2>2. AuthOf(u, p) = x.id  BY DEF AuthOf
  <2> HIDE DEF x
  <2>3. x = Restored(a)  BY <1>3, <1>8, <1>10, <2>1 DEF Good, Sound, Unique
  <2> QED  BY <1>4, <1>9, <2>2, <2>3
<1>17. ScopeOr(r.scope, "repo") = r.scope  BY <1>2 DEF ScopeOr, Scopes
<1>13. q = [name |-> r.name, provider |-> r.provider, url |-> r.url, scope |-> r.scope,
            auth |-> r.auth, idle |-> Default(r.idle, 1), max |-> Default(r.max, 5),
            labels |-> [form |-> "json", labels |-> labels], image |-> r.image]
  BY <1>3, <1>12, <1>17 DEF PoolOf
<1>14. IsPool(q) /\ q.name = r.name /\ \E y \in u.profiles : y.id = q.auth
  BY <1>3, <1>11, PoolOfFile
<1>15. PoolRow(r.id, q) = Reset(r) /\ Reset(r).name = r.name
  <2> DEFINE x == Reset(r)
             column == [form |-> "json", labels |-> labels]
  <2>1. x = [r EXCEPT !.idle = Default(r.idle, 1), !.max = Default(r.max, 5), !.labels = column]
    BY <1>2 DEF Reset, labels
  <2> HIDE DEF x, column, q
  <2>2. /\ x = [id |-> x.id, name |-> x.name, provider |-> x.provider, url |-> x.url,
                scope |-> x.scope, auth |-> x.auth, idle |-> x.idle, max |-> x.max,
                labels |-> x.labels, image |-> x.image]
        /\ x.id = r.id /\ x.name = r.name /\ x.provider = r.provider /\ x.url = r.url
        /\ x.scope = r.scope /\ x.auth = r.auth /\ x.image = r.image
        /\ x.idle = Default(r.idle, 1) /\ x.max = Default(r.max, 5) /\ x.labels = column
    BY <1>2, <2>1
  <2>3. /\ q.name = r.name /\ q.provider = r.provider /\ q.url = r.url /\ q.scope = r.scope
        /\ q.auth = r.auth /\ q.idle = Default(r.idle, 1)
        /\ q.max = Default(r.max, 5) /\ q.labels = column /\ q.image = r.image
    BY <1>13 DEF column
  <2>4. PoolRow(r.id, q) = [id |-> r.id, name |-> r.name, provider |-> r.provider,
                            url |-> r.url, scope |-> r.scope, auth |-> r.auth,
                            idle |-> Default(r.idle, 1), max |-> Default(r.max, 5),
                            labels |-> column, image |-> r.image]
    BY <2>3 DEF PoolRow
  <2> QED  BY <2>2, <2>4 DEF x
<1>16. HasAuth(p)
  <2>1. a.name # ""  BY <1>7 DEF ProfileRows
  <2> QED  BY <1>3, <2>1 DEF HasAuth
<1> HIDE DEF q
<1> QED  BY <1>3, <1>11, <1>14, <1>15, <1>16 DEF q, p, labels, renovate

\* The pools of tables, once those of the set d were imported again.
SomeReset(rs, d) == {IF r \in d THEN Reset(r) ELSE r : r \in rs}

\* The tables t, with profiles that were imported, after these pools.
PoolsBack(t, u, d) ==
  /\ Good(u, {})
  /\ u.pools = SomeReset(t.pools, d)
  /\ u.profiles = {Restored(x) : x \in t.profiles}
  /\ t.targets \subseteq u.targets
  /\ u.renovate = t.renovate /\ u.jobs = t.jobs

\* One more pool is back: its row, its first target and its configuration
\* are what was exported.
LEMMA ResetOne ==
  ASSUME NEW t, Good(t, {}), NEW d, NEW r \in t.pools, r \notin d, NEW u, PoolsBack(t, u, d)
  PROVE  PoolsBack(t, ImportPool(u, BackedUp(t, r)), d \cup {r})
<1> DEFINE p == BackedUp(t, r)
           q == PoolOf(u, p)
           some == SomeReset(t.pools, d)
           more == SomeReset(t.pools, d \cup {r})
           old == GetRunnerPoolByName(u, p.name)
           v == WithPool(u, p)
           id == IdOf(v, p.name)
           w == WithTarget(v, id, p.url)
           z == WithConfig(w, id, p)
<1>1. Good(u, {}) /\ u.pools = some /\ u.profiles = {Restored(x) : x \in t.profiles}
  BY DEF PoolsBack
<1>2. /\ IsFilePool(u, p) /\ IsPool(q) /\ q.name = r.name /\ p.name = r.name /\ p.url = r.url
      /\ p.renovate = RenovateOf(t, r.id)
      /\ \E y \in u.profiles : y.id = q.auth
      /\ PoolRow(r.id, q) = Reset(r)
  <2>1. Good(u, {}) /\ u.profiles = {Restored(x) : x \in t.profiles}  BY <1>1
  <2> HIDE DEF some, more, old, v, id, w, z
  <2> QED  BY <2>1, ResetRow
<1>3. \A x \in t.pools : Reset(x).name = x.name  BY <1>1, ResetRow
<1>4. \A x, y \in t.pools : x.name = y.name => x = y  BY DEF Good, Sound, Unique
<1>5. r \in u.pools  BY <1>1 DEF SomeReset
<1>6. ImportPool(u, p) = z  BY ImportPoolSteps
<1> HIDE DEF p
<1>7. old = {r}
  <2>1. \A x, y \in u.pools : x.name = y.name => x = y  BY <1>1 DEF Good, Sound, Unique
  <2> QED  BY <1>2, <1>5, <2>1 DEF GetRunnerPoolByName, Named
<1>8. v = UpdateRunnerPool(u, r.id, q)
  <2>1. (CHOOSE x \in {r} : TRUE) = r /\ {r} # {}  OBVIOUS
  <2> QED  BY <1>7, <2>1 DEF WithPool
<1>9. PoolsOnly(u, v, (some \ {r}) \cup {Reset(r)}, u.ids.pool) /\ Good(v, {})
  <2> HIDE DEF q, some, v
  <2>1. PoolsOnly(u, UpdateRunnerPool(u, r.id, q), (u.pools \ {r}) \cup {PoolRow(r.id, q)},
                  u.ids.pool)
        /\ Good(UpdateRunnerPool(u, r.id, q), {})
    <3>1. \A y \in u.pools : y.name = q.name => y = r  BY <1>1, <1>2, <1>5 DEF Good, Sound, Unique
    <3> QED  BY <1>1, <1>2, <1>5, <3>1, UpdatePool
  <2> QED  BY <1>1, <1>2, <1>8, <2>1
<1>10. (some \ {r}) \cup {Reset(r)} = more
  <2>1. \A x \in t.pools : x # r => Reset(x) # r  BY <1>3, <1>4
  <2>2. ASSUME NEW y \in more PROVE y \in (some \ {r}) \cup {Reset(r)}
    <3>1. PICK x \in t.pools : y = IF x \in d \cup {r} THEN Reset(x) ELSE x  BY <2>2 DEF SomeReset
    <3>2. CASE x = r  BY <3>1, <3>2
    <3>3. CASE x # r
      <4>1. y = IF x \in d THEN Reset(x) ELSE x  BY <3>1, <3>3
      <4>2. y \in some  BY <4>1 DEF SomeReset
      <4> QED  BY <2>1, <3>1, <3>3, <4>2
    <3> QED  BY <3>2, <3>3
  <2>3. ASSUME NEW y \in some, y # r PROVE y \in more
    <3>1. PICK x \in t.pools : y = IF x \in d THEN Reset(x) ELSE x  BY <2>3 DEF SomeReset
    <3>2. x # r  BY <2>3, <3>1
    <3>3. y = IF x \in d \cup {r} THEN Reset(x) ELSE x  BY <3>1, <3>2
    <3> QED  BY <3>3 DEF SomeReset
  <2>4. Reset(r) \in more
    <3>1. Reset(r) = IF r \in d \cup {r} THEN Reset(r) ELSE r  OBVIOUS
    <3> QED  BY <3>1 DEF SomeReset
  <2> HIDE DEF some, more
  <2> QED  BY <2>2, <2>3, <2>4
<1> HIDE DEF some, more, q, v
<1>11. /\ v.pools = more /\ v.profiles = u.profiles /\ v.targets = u.targets
       /\ v.renovate = u.renovate /\ v.jobs = u.jobs
  BY <1>9, <1>10 DEF PoolsOnly
<1>12. r.id \in Nat /\ r.url \in Texts  BY DEF Good, Typed, PoolRows, Names, Texts
<1>13. Reset(r).id = r.id
  <2>1. PoolRow(r.id, q).id = r.id  BY DEF PoolRow
  <2> QED  BY <1>2, <2>1
<1>14. id = r.id /\ r.id <= v.ids.pool
  <2> DEFINE y == CHOOSE x \in v.pools : x.name = p.name
  <2>1. Reset(r) \in v.pools /\ Reset(r).name = p.name  BY <1>2, <1>3, <1>10, <1>11
  <2>2. y \in v.pools /\ y.name = p.name  BY <2>1
  <2>3. id = y.id  BY DEF IdOf
  <2> HIDE DEF y
  <2>4. y = Reset(r)  BY <1>9, <2>1, <2>2 DEF Good, Sound, Unique
  <2>5. Reset(r).id <= v.ids.pool  BY <1>9, <2>1 DEF Good, Sound, Unique
  <2> QED  BY <1>13, <2>3, <2>4, <2>5
<1> HIDE DEF id
<1>15. Good(w, {}) /\ v.targets \subseteq w.targets /\ TargetsOnly(v, w, w.targets)
  BY <1>2, <1>9, <1>12, <1>14, WithTargetGood
<1> HIDE DEF w
<1>16. /\ w.pools = more /\ w.profiles = u.profiles /\ w.renovate = t.renovate /\ w.jobs = t.jobs
       /\ r.id <= w.ids.pool
  BY <1>11, <1>14, <1>15 DEF TargetsOnly, PoolsBack
<1>17. t.targets \subseteq w.targets  BY <1>11, <1>15 DEF PoolsBack
<1>18. /\ Good(z, {}) /\ z.pools = more /\ z.profiles = u.profiles /\ z.renovate = t.renovate
       /\ z.jobs = t.jobs /\ t.targets \subseteq z.targets
  <2> DEFINE c == RenovateOf(t, r.id)
             found == GetRenovateConfigByPoolId(w, id)
  <2>1. found = GetRenovateConfigByPoolId(t, r.id)
    BY <1>14, <1>16 DEF GetRenovateConfigByPoolId
  <2>2. /\ c \in [enabled : BOOLEAN, cron : Texts, image : Texts] /\ c.image # ""
        /\ found = {} => c.image = "none"
        /\ found # {} => c.image # "none" /\ found = {Configured(r.id, c)}
    BY <1>12, <2>1, RenovateOfPool
  <2>3. p.renovate = c  BY <1>2
  <2>4. found = {x \in t.renovate : x.pool = r.id}  BY <2>1 DEF GetRenovateConfigByPoolId
  <2> HIDE DEF c, found
  <2>5. ConfigOf(p) = c  BY <2>2, <2>3 DEF ConfigOf
  <2>6. CASE found = {}
    <3>1. z = w  BY <2>2, <2>3, <2>6 DEF WithConfig
    <3> QED  BY <1>15, <1>16, <1>17, <3>1
  <2>7. CASE found # {}
    <3>1. z = UpdateRenovateConfig(w, r.id, c)
      BY <1>14, <2>2, <2>3, <2>5, <2>7 DEF WithConfig, found
    <3>2. IsConfig(c)  BY <2>2, <2>7 DEF IsConfig
    <3> DEFINE rs == {x \in w.renovate : x.pool # r.id} \cup {Configured(r.id, c)}
    <3>3. ConfigsOnly(w, z, rs) /\ Good(z, {})  BY <1>12, <1>15, <1>16, <3>1, <3>2, UpdateConfig
    <3>4. rs = t.renovate  BY <1>16, <2>2, <2>4, <2>7
    <3> HIDE DEF rs, z
    <3> QED  BY <1>16, <1>17, <3>3, <3>4 DEF ConfigsOnly
  <2> QED  BY <2>6, <2>7
<1> HIDE DEF z
<1> QED  BY <1>1, <1>6, <1>18 DEF PoolsBack, more, p

\* h lists the pools of tables, q what an export has of them.
Listed(t, h, q) ==
  /\ h \in Bijection(1..Cardinality(t.pools), t.pools)
  /\ q = [i \in 1..Cardinality(t.pools) |-> BackedUp(t, h[i])]

\* The pools one after the other.
LEMMA ResetPools ==
  ASSUME NEW t, Good(t, {}), NEW b, PoolsBack(t, b, {}), NEW h, NEW q, Listed(t, h, q)
  PROVE  PoolsBack(t, FoldLeft(ImportPool, b, q), t.pools)
<1> DEFINE n == Cardinality(t.pools)
           S == {BackedUp(t, r) : r \in t.pools}
           A == {u \in GoodTables({}) : u.profiles = b.profiles}
<1>1. n \in Nat  BY FS_CardinalityType DEF Good, Typed
<1>2. /\ h \in [1..n -> t.pools] /\ \A i, k \in 1..n : h[i] = h[k] => i = k
      /\ \A r \in t.pools : \E i \in 1..n : h[i] = r
  BY DEF Listed, Bijection, Injection, Surjection, IsInjective
<1>3. q = [i \in 1..n |-> BackedUp(t, h[i])]  BY DEF Listed
<1>4. q \in Seq(S) /\ Len(q) = n
  <2>1. q \in [1..n -> S]  BY <1>2, <1>3
  <2> HIDE DEF n, S
  <2> QED  BY <1>1, <2>1, AsSequence
<1>5. Good(b, {}) /\ b.profiles = {Restored(x) : x \in t.profiles}  BY DEF PoolsBack
<1>6. b \in A  BY <1>5, GoodSet
<1>7. ASSUME NEW u \in A, NEW i \in 1..Len(q) PROVE ImportPool(u, q[i]) \in A
  <2>1. Good(u, {}) /\ u.profiles = b.profiles  BY GoodSet
  <2>2. h[i] \in t.pools /\ q[i] = BackedUp(t, h[i])  BY <1>2, <1>3, <1>4
  <2>3. IsFilePool(u, q[i])
    <3> DEFINE r == h[i]
    <3>1. r \in t.pools  BY <2>2
    <3>2. u.profiles = {Restored(x) : x \in t.profiles}  BY <1>5, <2>1
    <3> HIDE DEF r
    <3>3. IsFilePool(u, BackedUp(t, r))  BY <2>1, <3>1, <3>2, ResetRow
    <3> QED  BY <2>2, <3>3 DEF r
  <2>4. Good(ImportPool(u, q[i]), {}) /\ ImportPool(u, q[i]).profiles = u.profiles
    BY <2>1, <2>3, ImportPoolGood
  <2> QED  BY <2>1, <2>4, GoodSet
<1> HIDE DEF A, S
<1>8. PICK C : PoolsWalk(C, q, b, A) /\ FoldLeft(ImportPool, b, q) = C[Len(q)]
  BY <1>4, <1>6, <1>7, PoolSteps
<1> DEFINE D(k) == {h[i] : i \in 1..k}
           Claim(k) == PoolsBack(t, C[k], D(k))
           T == {k \in Nat : k <= n => Claim(k)}
<1> HIDE DEF n
<1>9. C[0] = b /\ \A k \in 1..n : C[k] = ImportPool(C[k - 1], q[k])
  BY <1>4, <1>8 DEF PoolsWalk
<1>10. 0 \in T
  <2>1. D(0) = {}  OBVIOUS
  <2>2. Claim(0)  BY <1>9, <2>1
  <2> QED  BY <2>2
<1>11. ASSUME NEW k \in Nat, k \in T PROVE k + 1 \in T
  <2> HIDE DEF Claim
  <2> SUFFICES ASSUME k + 1 <= n PROVE Claim(k + 1)  OBVIOUS
  <2>1. k + 1 \in 1..n /\ (k + 1) - 1 = k /\ k <= n  BY <1>1
  <2>2. PoolsBack(t, C[k], D(k))  BY <1>11, <2>1 DEF Claim
  <2> DEFINE r == h[k + 1]
  <2>3. r \in t.pools /\ q[k + 1] = BackedUp(t, r)  BY <1>2, <1>3, <2>1
  <2>4. r \notin D(k)
    <3>1. \A i \in 1..k : i \in 1..n /\ i # k + 1  BY <1>1, <2>1
    <3> QED  BY <1>2, <2>1, <3>1
  <2>5. D(k + 1) = D(k) \cup {r}
    <3>1. 1..(k + 1) = (1..k) \cup {k + 1}  OBVIOUS
    <3> QED  BY <3>1
  <2>6. C[k + 1] = ImportPool(C[k], BackedUp(t, r))  BY <1>9, <2>1, <2>3
  <2> HIDE DEF D, r
  <2>7. PoolsBack(t, ImportPool(C[k], BackedUp(t, r)), D(k) \cup {r})
    BY <2>2, <2>3, <2>4, ResetOne
  <2> QED  BY <2>5, <2>6, <2>7 DEF Claim
<1>12. Claim(n)
  <2>1. n \in T
    <3> HIDE DEF T
    <3> QED  BY <1>1, <1>10, <1>11, NatSet
  <2> HIDE DEF Claim
  <2> QED  BY <1>1, <2>1
<1>13. D(n) = t.pools  BY <1>2
<1> QED  BY <1>4, <1>8, <1>12, <1>13

\* An export of tables.
IsExport(t, cfg) ==
  /\ cfg.global = t.settings
  /\ cfg.profiles = {Sanitized(r) : r \in t.profiles}
  /\ \E h : Listed(t, h, cfg.pools)

\* Settings that are there already.
LEMMA SameSettings ==
  ASSUME NEW t, Good(t, {}) PROVE ImportSettings(t, t.settings) = t
<1>1. ASSUME NEW key \in {"total_allowed_runners", "job_retention_days"}
      PROVE  SetAppSetting(t, key, t.settings[key]) = t
  <2> DEFINE s == [t.settings EXCEPT ![key] = t.settings[key]]
             u == [t EXCEPT !.settings = s]
  <2>1. t.settings \in SettingRows /\ IsTables(t)  BY DEF Good, Typed
  <2>2. s = t.settings  BY <2>1 DEF SettingRows
  <2>3. u = SetAppSetting(t, key, t.settings[key])  BY DEF SetAppSetting
  <2> HIDE DEF s
  <2>4. u = [t EXCEPT !.settings = t.settings]  BY <2>2
  <2> HIDE DEF u
  <2>5. u = t
    <3>1. t = [settings |-> t.settings, profiles |-> t.profiles, pools |-> t.pools,
               targets |-> t.targets, renovate |-> t.renovate, jobs |-> t.jobs, ids |-> t.ids]
      BY <2>1 DEF IsTables
    <3>2. /\ u = [settings |-> u.settings, profiles |-> u.profiles, pools |-> u.pools,
                  targets |-> u.targets, renovate |-> u.renovate, jobs |-> u.jobs, ids |-> u.ids]
          /\ u.settings = t.settings /\ u.profiles = t.profiles /\ u.pools = t.pools
          /\ u.targets = t.targets /\ u.renovate = t.renovate /\ u.jobs = t.jobs /\ u.ids = t.ids
      BY <2>4, <3>1
    <3> QED  BY <3>1, <3>2
  <2> QED  BY <2>3, <2>5
<1>2. /\ SetAppSetting(t, "total_allowed_runners", t.settings["total_allowed_runners"]) = t
      /\ SetAppSetting(t, "job_retention_days", t.settings["job_retention_days"]) = t
  BY <1>1
<1> DEFINE set(u, key) == IF t.settings[key] > 0 THEN SetAppSetting(u, key, t.settings[key]) ELSE u
<1>3. ImportSettings(t, t.settings) = set(set(t, "total_allowed_runners"), "job_retention_days")
  BY DEF ImportSettings
<1>4. set(t, "total_allowed_runners") = t /\ set(t, "job_retention_days") = t  BY <1>2
<1> QED  BY <1>3, <1>4

\* What may change of pools.
PoolsKept(rs, ps) ==
  /\ {[r EXCEPT !.idle = Default(@, 1), !.max = Default(@, 5), !.labels = {}] : r \in rs}
       = {[r EXCEPT !.labels = {}] : r \in ps}
  /\ \A p \in rs, q \in ps :
       p.id = q.id /\ (p.labels.form = "json" \/ Cardinality(p.labels.labels) = 1)
         => p.labels.labels = q.labels.labels

\* Resetting pools changes no name and no identifier.
LEMMA ResetKept ==
  ASSUME NEW t, Good(t, {}), NEW ps, ps = {Reset(r) : r \in t.pools}
  PROVE  PoolsKept(t.pools, ps)
<1>1. ASSUME NEW r \in t.pools
      PROVE  /\ [Reset(r) EXCEPT !.labels = {}] =
                  [r EXCEPT !.idle = Default(@, 1), !.max = Default(@, 5), !.labels = {}]
             /\ Reset(r).id = r.id
             /\ Reset(r).labels = [form |-> "json", labels |-> ExportedLabels(r.labels)]
  <2>1. r = [id |-> r.id, name |-> r.name, provider |-> r.provider, url |-> r.url,
             scope |-> r.scope, auth |-> r.auth, idle |-> r.idle, max |-> r.max,
             labels |-> r.labels, image |-> r.image]
    BY DEF Good, Typed, PoolRows
  <2> DEFINE column == [form |-> "json", labels |-> ExportedLabels(r.labels)]
             x == Reset(r)
             y == [x EXCEPT !.labels = {}]
             z == [r EXCEPT !.idle = Default(@, 1), !.max = Default(@, 5), !.labels = {}]
  <2>2. x = [r EXCEPT !.idle = Default(r.idle, 1), !.max = Default(r.max, 5), !.labels = column]
    BY <2>1 DEF Reset
  <2>3. z = [r EXCEPT !.idle = Default(r.idle, 1), !.max = Default(r.max, 5), !.labels = {}]
    BY <2>1
  <2>4. y = [x EXCEPT !.labels = {}]  OBVIOUS
  <2> HIDE DEF column, x, y, z
  <2>5. /\ x = [id |-> x.id, name |-> x.name, provider |-> x.provider, url |-> x.url,
                scope |-> x.scope, auth |-> x.auth, idle |-> x.idle, max |-> x.max,
                labels |-> x.labels, image |-> x.image]
        /\ x.id = r.id /\ x.name = r.name /\ x.provider = r.provider /\ x.url = r.url
        /\ x.scope = r.scope /\ x.auth = r.auth /\ x.image = r.image
        /\ x.idle = Default(r.idle, 1) /\ x.max = Default(r.max, 5) /\ x.labels = column
    BY <2>1, <2>2
  <2>6. /\ z = [id |-> z.id, name |-> z.name, provider |-> z.provider, url |-> z.url,
                scope |-> z.scope, auth |-> z.auth, idle |-> z.idle, max |-> z.max,
                labels |-> z.labels, image |-> z.image]
        /\ z.id = r.id /\ z.name = r.name /\ z.provider = r.provider /\ z.url = r.url
        /\ z.scope = r.scope /\ z.auth = r.auth /\ z.image = r.image
        /\ z.idle = Default(r.idle, 1) /\ z.max = Default(r.max, 5) /\ z.labels = {}
    BY <2>1, <2>3
  <2>7. /\ y = [id |-> y.id, name |-> y.name, provider |-> y.provider, url |-> y.url,
                scope |-> y.scope, auth |-> y.auth, idle |-> y.idle, max |-> y.max,
                labels |-> y.labels, image |-> y.image]
        /\ y.id = x.id /\ y.name = x.name /\ y.provider = x.provider /\ y.url = x.url
        /\ y.scope = x.scope /\ y.auth = x.auth /\ y.image = x.image
        /\ y.idle = x.idle /\ y.max = x.max /\ y.labels = {}
    BY <2>4, <2>5
  <2>8. y = z  BY <2>5, <2>6, <2>7
  <2> QED  BY <2>5, <2>8 DEF x, y, z, column
<1> DEFINE Defaulted(r) == [r EXCEPT !.idle = Default(@, 1), !.max = Default(@, 5), !.labels = {}]
           Bare(r) == [r EXCEPT !.labels = {}]
<1>2. {Defaulted(r) : r \in t.pools} = {Bare(r) : r \in ps}
  <2>1. \A r \in t.pools : Bare(Reset(r)) = Defaulted(r)  BY <1>1
  <2> HIDE DEF Defaulted, Bare
  <2> QED  BY <2>1
<1>3. /\ \A r \in t.pools : Reset(r).id = r.id
      /\ \A r \in t.pools : Reset(r).labels.labels = ExportedLabels(r.labels)
  <2>1. \A r \in t.pools : /\ Reset(r).id = r.id
                           /\ Reset(r).labels = [form |-> "json", labels |-> ExportedLabels(r.labels)]
    BY <1>1
  <2>2. ASSUME NEW r \in t.pools PROVE Reset(r).labels.labels = ExportedLabels(r.labels)
    <3> DEFINE column == Reset(r).labels
               ls == ExportedLabels(r.labels)
    <3>1. column = [form |-> "json", labels |-> ls]  BY <2>1
    <3> HIDE DEF column, ls
    <3>2. column.labels = ls  BY <3>1
    <3> QED  BY <3>2 DEF column, ls
  <2> QED  BY <2>1, <2>2
<1>4. \A r, p \in t.pools : r.id = p.id => r = p  BY DEF Good, Sound, Unique
<1>5. ASSUME NEW p \in t.pools, NEW q \in ps, p.id = q.id,
             p.labels.form = "json" \/ Cardinality(p.labels.labels) = 1
      PROVE  p.labels.labels = q.labels.labels
  <2>1. PICK r \in t.pools : q = Reset(r)  OBVIOUS
  <2>2. r = p  BY <1>3, <1>4, <1>5, <2>1
  <2>3. q.labels.labels = ExportedLabels(p.labels)  BY <1>3, <2>1, <2>2
  <2>4. p.labels.labels \in AllLabels  BY DEF Good, Typed, PoolRows, LabelColumns
  <2>5. CASE p.labels.form = "json"  BY <2>3, <2>5 DEF ExportedLabels
  <2>6. CASE p.labels.form # "json"
    <3> DEFINE ls == p.labels.labels
    <3>1. IsFiniteSet(ls) /\ Cardinality(ls) = 1
      BY <1>5, <2>4, <2>6, FS_EmptySet DEF LabelSets, AllLabels
    <3> HIDE DEF ls
    <3>2. PICK l : ls = {l}  BY <3>1, FS_Singleton
    <3>3. {UNION ls} = ls  BY <3>2
    <3> QED  BY <2>3, <2>6, <3>3 DEF ExportedLabels, ls
  <2> QED  BY <2>5, <2>6
<1> QED  BY <1>2, <1>5 DEF PoolsKept

\* What an export has can be imported if its pools are filled, and is then what
\* it was.
LEMMA MergeBack ==
  ASSUME NEW t, Good(t, {}), NEW cfg, IsExport(t, cfg)
  PROVE  /\ Importable(t, cfg, "merge") <=> \A r \in t.pools : Filled(r)
         /\ Kept(t, ImportSeedConfig(t, cfg, "merge"))
<1> DEFINE P == cfg.profiles
           q == cfg.pools
           n == Cardinality(t.pools)
           b == Prepared(t, cfg, "merge")
           done == FoldLeft(ImportPool, b, q)
           w == ImportSeedConfig(t, cfg, "merge")
<1>1. ImportSettings(t, cfg.global) = t  BY SameSettings DEF IsExport
<1>2. P = {Sanitized(r) : r \in t.profiles}  BY DEF IsExport
<1>3. PICK h : Listed(t, h, q)  BY DEF IsExport
<1>4. /\ h \in [1..n -> t.pools] /\ \A i, k \in 1..n : h[i] = h[k] => i = k
      /\ \A r \in t.pools : \E i \in 1..n : h[i] = r
  BY <1>3 DEF Listed, Bijection, Injection, Surjection, IsInjective
<1>5. DOMAIN q = 1..n /\ \A i \in 1..n : q[i] = BackedUp(t, h[i])  BY <1>3 DEF Listed
<1>6. b = FoldSet(LAMBDA p, u : ImportProfile(u, p), t, P)  BY <1>1 DEF Prepared
<1>7. Good(b, {}) /\ ProfilesOnly(t, b, {Restored(r) : r \in t.profiles}, t.ids.profile)
  BY <1>2, <1>6, RestoreProfiles
<1> HIDE DEF b, n, P, q
<1>8. PoolsBack(t, b, {})
  <2>1. SomeReset(t.pools, {}) = t.pools  BY DEF SomeReset
  <2> QED  BY <1>7, <2>1 DEF PoolsBack, ProfilesOnly
<1>9. b.profiles = {Restored(r) : r \in t.profiles}  BY <1>7 DEF ProfilesOnly
<1>10. ASSUME NEW i \in 1..n
       PROVE  /\ IsFilePool(b, q[i]) /\ q[i].name = h[i].name /\ HasAuth(q[i])
              /\ q[i].labels # {} /\ q[i].image # "" <=> Filled(h[i])
  <2> DEFINE r == h[i]
  <2>1. r \in t.pools /\ q[i] = BackedUp(t, r)  BY <1>4, <1>5
  <2> HIDE DEF r
  <2>2. LET p == BackedUp(t, r)
        IN  /\ IsFilePool(b, p) /\ p.name = r.name /\ HasAuth(p)
            /\ p.labels = ExportedLabels(r.labels) /\ p.image = r.image
    BY <1>7, <1>9, <2>1, ResetRow
  <2> QED  BY <2>1, <2>2 DEF r, Filled
<1>11. \A p \in P : IsFileProfile(p) /\ Readable(p)
  <2>1. /\ t.profiles \in SUBSET ProfileRows
        /\ \A x \in t.profiles : x.method = "github_app" => x.app # 0
    BY DEF Good, Typed, Sound
  <2>2. \A r \in t.profiles : IsFileProfile(Sanitized(r)) /\ Readable(Sanitized(r))
    BY <2>1, RestoredRow
  <2> QED  BY <1>2, <2>2
<1>12. Validate(cfg) <=> \A i \in 1..n : q[i].labels # {} /\ q[i].image # ""
  <2>1. \A p \in cfg.profiles :
          p.name # "" /\ p.method \in Methods /\ (p.method = "github_app" => p.app # 0)
    BY <1>11 DEF IsFileProfile, P
  <2>2. ASSUME NEW i \in 1..n
        PROVE  /\ q[i].name # "" /\ q[i].provider \in Providers /\ q[i].url # ""
               /\ q[i].scope \in Scopes \cup {""} /\ q[i].auth # ""
               /\ \A k \in 1..n : q[i].name = q[k].name => i = k
    <3>1. /\ q[i].name # "" /\ q[i].provider \in Providers /\ q[i].url # ""
          /\ q[i].scope \in Scopes \cup {""} /\ q[i].auth # ""
      BY <1>10 DEF IsFilePool, Names, HasAuth
    <3>2. ASSUME NEW k \in 1..n, q[i].name = q[k].name PROVE i = k
      <4>1. h[i].name = h[k].name /\ h[i] \in t.pools /\ h[k] \in t.pools  BY <1>4, <1>10, <3>2
      <4>2. h[i] = h[k]  BY <4>1 DEF Good, Sound, Unique
      <4> QED  BY <1>4, <4>2
    <3> QED  BY <3>1, <3>2
  <2> QED  BY <1>5, <2>1, <2>2 DEF Validate, q
<1>13. Importable(t, cfg, "merge") <=> \A r \in t.pools : Filled(r)
  <2>1. ASSUME NEW i \in DOMAIN q PROVE GetAuthProfileByName(b, q[i].auth) # {}
    BY <1>5, <1>10, <2>1 DEF IsFilePool, GetAuthProfileByName, Named
  <2>2. Importable(t, cfg, "merge") <=> Validate(cfg)
    BY <1>11, <2>1 DEF Importable, P, q, b
  <2>3. (\A i \in 1..n : q[i].labels # {} /\ q[i].image # "") <=> \A r \in t.pools : Filled(r)
    <3>1. \A i \in 1..n : q[i].labels # {} /\ q[i].image # "" <=> Filled(h[i])  BY <1>10
    <3>2. (\A i \in 1..n : Filled(h[i])) <=> \A r \in t.pools : Filled(r)  BY <1>4
    <3> QED  BY <3>1, <3>2
  <2> QED  BY <1>12, <2>2, <2>3
<1>14. PoolsBack(t, done, t.pools)  BY <1>3, <1>8, ResetPools
<1>15. w = Merged(t, done)  BY <1>1 DEF ImportSeedConfig, Merged, b, q
<1> HIDE DEF done, w
<1>16. SomeReset(t.pools, t.pools) = {Reset(r) : r \in t.pools}  BY DEF SomeReset
<1>17. /\ w.settings = t.settings /\ w.profiles = {Restored(r) : r \in t.profiles}
       /\ w.pools = {Reset(r) : r \in t.pools} /\ t.targets \subseteq w.targets
       /\ t.renovate = w.renovate /\ t.jobs = w.jobs
  <2>1. IsTables(t)  BY DEF Good
  <2>2. /\ w.settings = t.settings /\ w.profiles = done.profiles
        /\ w.pools = done.pools /\ w.targets = done.targets
        /\ w.renovate = done.renovate /\ w.jobs = t.jobs \cap done.jobs
    BY <1>15, <2>1, MergedFields
  <2>3. t.jobs \cap t.jobs = t.jobs  OBVIOUS
  <2> QED  BY <1>14, <1>16, <2>2, <2>3 DEF PoolsBack
<1>18. Kept(t, w)
  <2>1. w.profiles =
          {[r EXCEPT !.token = IF @ # "" /\ Environment[r.name] # "" THEN Environment[r.name] ELSE @]
             : r \in t.profiles}
    BY <1>17 DEF Restored
  <2>2. PoolsKept(t.pools, w.pools)  BY <1>17, ResetKept
  <2> QED  BY <1>17, <2>1, <2>2 DEF Kept, PoolsKept
<1> QED  BY <1>13, <1>18 DEF w

----------------------------------------------------------------------------
(* The exporter.                                                           *)

\* What a request says of a pool.
LEMMA AskedIs ==
  ASSUME NEW t, Good(t, {}), NEW p \in NewPools, NEW r \in t.profiles,
         NEW default \in Scopes
  PROVE  /\ IsPool(Asked(p, r, default)) /\ Asked(p, r, default).name = p.name
         /\ Asked(p, r, default).auth = r.id /\ p.url \in Texts
         /\ p.renovate.image # "none" => IsConfig(p.renovate)
<1> DEFINE row == Asked(p, r, default)
<1>1. p \in [name : Names, provider : Providers, url : Names, scope : Scopes \cup {""},
             idle : Int, max : Int,
             labels : [form : {"comma", "json"}, labels : LabelSets \cup {{}}],
             image : STRING, renovate : RenovateFields]
      /\ p.renovate.image # ""
  BY SeedAssumption
<1>2. /\ p.name \in Names /\ p.provider \in Providers /\ p.url \in Names
      /\ p.scope \in Scopes \cup {""} /\ p.idle \in Int /\ p.max \in Int
      /\ p.labels \in [form : {"comma", "json"}, labels : LabelSets \cup {{}}]
      /\ p.image \in STRING /\ p.renovate \in RenovateFields
  BY <1>1
<1>3. r.id \in Nat  BY DEF Good, Typed, ProfileRows
<1>4. /\ row.name = p.name /\ row.provider = p.provider /\ row.url = p.url
      /\ row.scope = ScopeOr(p.scope, default) /\ row.auth = r.id /\ row.idle = p.idle
      /\ row.max = p.max /\ row.labels = p.labels /\ row.image = p.image
  BY DEF Asked
<1> HIDE DEF row
<1>5. ScopeOr(p.scope, default) \in Scopes  BY <1>2 DEF ScopeOr
<1>6. p.labels \in LabelColumns  BY <1>2 DEF LabelColumns, AllLabels
<1>7. IsPool(row)  BY <1>2, <1>3, <1>4, <1>5, <1>6 DEF IsPool, Texts
<1>8. ASSUME p.renovate.image # "none" PROVE IsConfig(p.renovate)
  BY <1>1, <1>2, <1>8 DEF IsConfig, RenovateFields, Texts
<1>9. p.url \in Texts  BY <1>2 DEF Names, Texts
<1> QED  BY <1>4, <1>7, <1>8, <1>9 DEF row

\* What the administrator does keeps the tables good: a pool is created,
LEMMA NewPoolGood ==
  ASSUME NEW t, Good(t, {}), NEW p \in NewPools, NEW r \in t.profiles, Named(t.pools, p.name) = {}
  PROVE  LET t1 == CreateRunnerPool(t, Asked(p, r, "repo"))
             t2 == IF p.renovate.image = "none" THEN t1
                   ELSE CreateRenovateConfig(t1, t1.ids.pool, p.renovate)
         IN  Good(AddPoolTarget(t2, t1.ids.pool, p.url), {})
<1> DEFINE row == Asked(p, r, "repo")
           t1 == CreateRunnerPool(t, row)
           t2 == IF p.renovate.image = "none" THEN t1
                 ELSE CreateRenovateConfig(t1, t1.ids.pool, p.renovate)
           n == t.ids.pool + 1
<1>1. "repo" \in Scopes  BY DEF Scopes
<1>2. /\ IsPool(row) /\ row.name = p.name /\ row.auth = r.id /\ p.url \in Texts
      /\ p.renovate.image # "none" => IsConfig(p.renovate)
  BY <1>1, AskedIs
<1> HIDE DEF row
<1>3. PoolsOnly(t, t1, t.pools \cup {PoolRow(n, row)}, n) /\ Good(t1, {})
  BY <1>2, CreatePool
<1> HIDE DEF t1
<1>4. t1.ids.pool = n /\ t1.renovate = t.renovate  BY <1>3 DEF PoolsOnly
<1>5. n \in Nat /\ n <= t1.ids.pool  BY <1>4 DEF Good, Typed
<1>6. GetRenovateConfigByPoolId(t1, n) = {}
  <2>1. \A x \in t.renovate : x.pool \in Nat /\ x.pool <= t.ids.pool /\ t.ids.pool \in Nat
    BY DEF Good, Typed, Sound, ConfigRows
  <2>2. \A x \in t.renovate : x.pool # n  BY <2>1
  <2> QED  BY <1>4, <2>2 DEF GetRenovateConfigByPoolId
<1>7. Good(t2, {})
  <2>1. CASE p.renovate.image = "none"  BY <1>3, <2>1
  <2>2. CASE p.renovate.image # "none"
    <3>1. Good(CreateRenovateConfig(t1, n, p.renovate), {})
      BY <1>2, <1>3, <1>5, <1>6, <2>2, CreateConfig
    <3> QED  BY <1>4, <2>2, <3>1
  <2> QED  BY <2>1, <2>2
<1> HIDE DEF t2, n
<1>8. Good(AddPoolTarget(t2, n, p.url), {})  BY <1>2, <1>5, <1>7, AddTarget
<1> QED  BY <1>4, <1>8 DEF t2, t1, row

\* or updated, its targets replaced.
LEMMA ChangedPoolGood ==
  ASSUME NEW t, Good(t, {}), NEW p \in NewPools, NEW r \in t.profiles, NEW q \in t.pools,
         Named(t.pools, p.name) \subseteq {q}
  PROVE  LET t1 == UpdateRunnerPool(t, q.id, Asked(p, r, q.scope))
             t2 == IF p.renovate.image = "none" THEN t1
                   ELSE UpdateRenovateConfig(t1, q.id, p.renovate)
         IN  Good(AddPoolTarget(DeletePoolTargetsByPoolId(t2, q.id), q.id, p.url), {})
<1> DEFINE row == Asked(p, r, q.scope)
           t1 == UpdateRunnerPool(t, q.id, row)
           t2 == IF p.renovate.image = "none" THEN t1
                 ELSE UpdateRenovateConfig(t1, q.id, p.renovate)
           t3 == DeletePoolTargetsByPoolId(t2, q.id)
<1>1. /\ q.scope \in Scopes /\ q.id \in Nat /\ q.id <= t.ids.pool
  BY DEF Good, Typed, Sound, Unique, PoolRows
<1>2. /\ IsPool(row) /\ row.name = p.name /\ row.auth = r.id /\ p.url \in Texts
      /\ p.renovate.image # "none" => IsConfig(p.renovate)
  BY <1>1, AskedIs
<1>3. \A x \in t.pools : x.name = row.name => x = q  BY <1>2 DEF Named
<1> HIDE DEF row
<1>4. PoolsOnly(t, t1, (t.pools \ {q}) \cup {PoolRow(q.id, row)}, t.ids.pool) /\ Good(t1, {})
  BY <1>2, <1>3, UpdatePool
<1> HIDE DEF t1
<1>5. q.id <= t1.ids.pool  BY <1>1, <1>4 DEF PoolsOnly
<1>6. Good(t2, {})
  <2>1. CASE p.renovate.image = "none"  BY <1>4, <2>1
  <2>2. CASE p.renovate.image # "none"
    <3>1. Good(UpdateRenovateConfig(t1, q.id, p.renovate), {})
      BY <1>1, <1>2, <1>4, <1>5, <2>2, UpdateConfig
    <3> QED  BY <2>2, <3>1
  <2> QED  BY <2>1, <2>2
<1> HIDE DEF t2
<1>7. Good(t3, {})  BY <1>6, DeleteTargets
<1> HIDE DEF t3
<1>8. Good(AddPoolTarget(t3, q.id, p.url), {})  BY <1>1, <1>2, <1>7, AddTarget
<1> QED  BY <1>8 DEF t3, t2, t1, row

\* Whoever writes keeps the tables good.
LEMMA WritersGood ==
  ASSUME Good(tables, {}), Imports
  PROVE  \/ \E t : Writes(t) /\ Good(t, {})
         \/ UNCHANGED <<tables, exporter>>
<1>1. ASSUME NEW m, ImportCommand(m) PROVE \E t : Writes(t) /\ Good(t, {})
  <2>1. PICK file \in CommandFiles :
          Importable(tables, file, m) /\ Writes(ImportSeedConfig(tables, file, m))
    BY <1>1 DEF ImportCommand
  <2>2. IsFile(file)  BY SeedAssumption
  <2>3. Good(ImportSeedConfig(tables, file, m), {})  BY <2>1, <2>2, ImportGood
  <2> QED  BY <2>1, <2>3
<1>2. CASE ImportCommandMarks
  <2>1. CASE Writes(MarkSeedImported(tables))
    <3>1. Good(SetAppSetting(tables, "seed_imported", 1), {})  BY WriteSetting
    <3> QED  BY <2>1, <3>1 DEF MarkSeedImported
  <2> QED  BY <1>2, <2>1 DEF ImportCommandMarks
<1>3. CASE Administer
  <2>1. ASSUME NEW p \in NewProfiles, Named(tables.profiles, p.name) = {},
               Writes(CreateAuthProfile(tables, p))
        PROVE  \E t : Writes(t) /\ Good(t, {})
    <3>1. IsProfile(p)  BY SeedAssumption DEF IsProfile, Methods, Texts
    <3>2. Good(CreateAuthProfile(tables, p), {})  BY <2>1, <3>1, CreateProfile
    <3> QED  BY <2>1, <3>2
  <2>2. ASSUME NEW r \in tables.profiles, \A p \in tables.pools : p.auth # r.id,
               Writes(DeleteAuthProfile(tables, r.id))
        PROVE  \E t : Writes(t) /\ Good(t, {})
    <3>1. Good(DeleteAuthProfile(tables, r.id), {})  BY <2>2, DeleteProfile
    <3> QED  BY <2>2, <3>1
  <2>3. ASSUME NEW r \in tables.pools, Writes(DeleteRunnerPool(tables, r.id))
        PROVE  \E t : Writes(t) /\ Good(t, {})
    <3>1. Good(DeleteRunnerPool(tables, r.id), {})  BY DeletePool
    <3> QED  BY <2>3, <3>1
  <2>4. ASSUME NEW p \in NewPools, NEW r \in tables.profiles,
               LET t1 == CreateRunnerPool(tables, Asked(p, r, "repo"))
                   t2 == IF p.renovate.image = "none" THEN t1
                         ELSE CreateRenovateConfig(t1, t1.ids.pool, p.renovate)
               IN  Named(tables.pools, p.name) = {}
                   /\ Writes(AddPoolTarget(t2, t1.ids.pool, p.url))
        PROVE  \E t : Writes(t) /\ Good(t, {})
    <3> DEFINE t1 == CreateRunnerPool(tables, Asked(p, r, "repo"))
               t2 == IF p.renovate.image = "none" THEN t1
                     ELSE CreateRenovateConfig(t1, t1.ids.pool, p.renovate)
               t3 == AddPoolTarget(t2, t1.ids.pool, p.url)
    <3>1. Named(tables.pools, p.name) = {} /\ Writes(t3)  BY <2>4
    <3>2. Good(t3, {})  BY <3>1, NewPoolGood
    <3> HIDE DEF t3
    <3> QED  BY <3>1, <3>2
  <2>5. ASSUME NEW p \in NewPools, NEW r \in tables.profiles, NEW q \in tables.pools,
               LET t1 == UpdateRunnerPool(tables, q.id, Asked(p, r, q.scope))
                   t2 == IF p.renovate.image = "none" THEN t1
                         ELSE UpdateRenovateConfig(t1, q.id, p.renovate)
               IN  /\ Named(tables.pools, p.name) \subseteq {q}
                   /\ Writes(AddPoolTarget(DeletePoolTargetsByPoolId(t2, q.id), q.id, p.url))
        PROVE  \E t : Writes(t) /\ Good(t, {})
    <3> DEFINE t1 == UpdateRunnerPool(tables, q.id, Asked(p, r, q.scope))
               t2 == IF p.renovate.image = "none" THEN t1
                     ELSE UpdateRenovateConfig(t1, q.id, p.renovate)
               t3 == AddPoolTarget(DeletePoolTargetsByPoolId(t2, q.id), q.id, p.url)
    <3>1. Named(tables.pools, p.name) \subseteq {q} /\ Writes(t3)  BY <2>5
    <3>2. Good(t3, {})  BY <3>1, ChangedPoolGood
    <3> HIDE DEF t3
    <3> QED  BY <3>1, <3>2
  <2> QED
    BY <1>3, <2>1, <2>2, <2>3, <2>4, <2>5
    DEF Administer, AddProfile, RemoveProfile, AddPool, ChangePool, RemovePool
<1> QED  BY <1>1, <1>2, <1>3 DEF Imports

\* An export that was not disturbed: what it has of the tables, at each of its
\* steps.  h is the order of the pools, k how many were asked for Renovate.
Renovating(e, t, h, k) ==
  LET n == Cardinality(t.pools)
  IN  /\ h \in Bijection(1..n, t.pools) /\ k \in 0..n
      /\ e.cfg.pools = [i \in 1..n |-> IF i <= k THEN BackedUp(t, h[i])
                                       ELSE ExportedPool(h[i], t.profiles)]
      /\ e.ids = [i \in 1..(n - k) |-> h[k + i].id]

IsConfiguration(c) == c = [global |-> c.global, profiles |-> c.profiles, pools |-> c.pools]

Undisturbed(e, t) ==
  /\ IsConfiguration(e.cfg) /\ e.cfg.global = t.settings
  /\ e.pc \in {"pools", "renovate", "done"} =>
       e.cfg.profiles = {Sanitized(r) : r \in t.profiles}
  /\ e.pc \in {"pools", "renovate"} => e.rows = t.profiles
  /\ e.pc = "renovate" => \E h, k : Renovating(e, t, h, k)
  /\ e.pc = "done" => \E h : Listed(t, h, e.cfg.pools)

IsExporter(e) ==
  e = [pc |-> e.pc, cfg |-> e.cfg, rows |-> e.rows, ids |-> e.ids, clean |-> e.clean]

\* While configuration is exported, the tables are good, and an export nothing
\* was written during has what they have.
ExportInv ==
  /\ mix # "export" => exporter = NoExport
  /\ mix = "export" =>
       /\ Good(tables, {}) /\ IsExporter(exporter)
       /\ exporter.pc # "idle" /\ exporter.clean => Undisturbed(exporter, tables)

\* At the start nobody exports and the tables are empty.
LEMMA ExportStart == Init => ExportInv
<1> SUFFICES ASSUME Init PROVE ExportInv  OBVIOUS
<1>1. exporter = NoExport  BY DEF Init, SeedInit
<1>2. IsExporter(NoExport) /\ NoExport.pc = "idle"  BY DEF IsExporter, NoExport
<1>3. ASSUME mix = "export" PROVE Good(tables, {})
  <2> DEFINE t == EmptyTables
  <2>1. tables = t  BY <1>3 DEF Init
  <2>2. /\ t.settings = [seed_imported |-> 0, total_allowed_runners |-> 20, job_retention_days |-> 30]
        /\ t.profiles = {} /\ t.pools = {} /\ t.targets = {} /\ t.renovate = {} /\ t.jobs = {}
        /\ t.ids = [profile |-> 0, pool |-> 0, job |-> 0]
        /\ t = [settings |-> t.settings, profiles |-> t.profiles, pools |-> t.pools,
                targets |-> t.targets, renovate |-> t.renovate, jobs |-> t.jobs, ids |-> t.ids]
    BY DEF EmptyTables
  <2> HIDE DEF t
  <2>3. /\ t.settings \in SettingRows /\ t.ids.profile = 0 /\ t.ids.pool = 0 /\ t.ids.job = 0
        /\ t.ids = [profile |-> t.ids.profile, pool |-> t.ids.pool, job |-> t.ids.job]
    BY <2>2 DEF SettingRows
  <2>4. t.settings = [seed_imported |-> t.settings.seed_imported,
                      total_allowed_runners |-> t.settings.total_allowed_runners,
                      job_retention_days |-> t.settings.job_retention_days]
    BY <2>3 DEF SettingRows
  <2>5. IsTables(t)  BY <2>2, <2>3, <2>4 DEF IsTables
  <2>6. IsFiniteSet({})  BY FS_EmptySet
  <2>7. Typed(t, {})  BY <2>2, <2>3, <2>6 DEF Typed
  <2>8. Sound(t)  BY <2>2 DEF Sound, Unique
  <2> QED  BY <2>1, <2>5, <2>7, <2>8 DEF Good
<1> QED  BY <1>1, <1>2, <1>3 DEF ExportInv

\* Every pool was asked for.
LEMMA RenovatingEnds ==
  ASSUME NEW e, NEW t, Good(t, {}), NEW h, NEW k, Renovating(e, t, h, k), e.ids = <<>>
  PROVE  Listed(t, h, e.cfg.pools)
<1> DEFINE n == Cardinality(t.pools)
<1>1. n \in Nat  BY FS_CardinalityType DEF Good, Typed
<1>2. /\ h \in Bijection(1..n, t.pools) /\ k \in 0..n
      /\ e.cfg.pools = [i \in 1..n |-> IF i <= k THEN BackedUp(t, h[i])
                                       ELSE ExportedPool(h[i], t.profiles)]
      /\ e.ids = [i \in 1..(n - k) |-> h[k + i].id]
  BY DEF Renovating
<1> HIDE DEF n
<1>3. k = n
  <2>1. DOMAIN e.ids = 1..(n - k)  BY <1>2
  <2>2. 1 \notin 1..(n - k)
    <3>1. DOMAIN <<>> = {}  OBVIOUS
    <3> QED  BY <2>1, <3>1
  <2> QED  BY <1>1, <1>2, <2>2
<1>4. \A i \in 1..n : i <= k  BY <1>1, <1>3
<1>5. e.cfg.pools = [i \in 1..n |-> BackedUp(t, h[i])]  BY <1>2, <1>4
<1> QED  BY <1>2, <1>5 DEF Listed, n

\* One more pool is asked for.
LEMMA RenovatingOne ==
  ASSUME NEW e, NEW t, Good(t, {}), NEW h, NEW k, Renovating(e, t, h, k), e.ids # <<>>,
         NEW f, f.ids = Tail(e.ids),
         f.cfg.pools = [e.cfg.pools EXCEPT ![Len(e.cfg.pools) - Len(e.ids) + 1].renovate =
                          RenovateOf(t, Head(e.ids))]
  PROVE  Renovating(f, t, h, k + 1)
<1> DEFINE n == Cardinality(t.pools)
           m == n - k
           old == e.cfg.pools
           new == f.cfg.pools
           ids == e.ids
           r == h[k + 1]
<1>1. n \in Nat  BY FS_CardinalityType DEF Good, Typed
<1>2. /\ h \in Bijection(1..n, t.pools) /\ k \in 0..n
      /\ old = [i \in 1..n |-> IF i <= k THEN BackedUp(t, h[i]) ELSE ExportedPool(h[i], t.profiles)]
      /\ ids = [i \in 1..m |-> h[k + i].id]
  BY DEF Renovating
<1>3. h \in [1..n -> t.pools]  BY <1>2 DEF Bijection, Injection
<1> HIDE DEF n, old, ids, new
<1>4. m \in Nat /\ m # 0
  <2>1. m \in Nat  BY <1>1, <1>2
  <2>2. ASSUME m = 0 PROVE FALSE
    <3>1. 1..m = {}  BY <2>2
    <3>2. ids = <<>>  BY <1>2, <3>1
    <3> QED  BY <3>2 DEF ids
  <2> QED  BY <2>1, <2>2
<1>5. k + 1 \in 1..n /\ k + 1 \in 0..n  BY <1>1, <1>2, <1>4
<1>6. r \in t.pools  BY <1>3, <1>5
<1>7. Len(old) = n
  <2>1. DOMAIN old = 1..n  BY <1>2
  <2> QED  BY <1>1, <1>2
<1>8. ids \in Seq(Nat) /\ Len(ids) = m
  <2>1. \A i \in 1..m : h[k + i].id \in Nat
    <3>1. \A i \in 1..m : k + i \in 1..n  BY <1>1, <1>2, <1>4
    <3>2. \A x \in t.pools : x.id \in Nat  BY DEF Good, Typed, PoolRows
    <3> QED  BY <1>3, <3>1, <3>2
  <2>2. ids \in [1..m -> Nat]  BY <1>2, <2>1
  <2> HIDE DEF m
  <2> QED  BY <1>4, <2>2, AsSequence
<1>9. Len(old) - Len(ids) + 1 = k + 1  BY <1>1, <1>2, <1>7, <1>8
<1>10. Head(ids) = r.id
  <2>1. 1 \in 1..m  BY <1>4
  <2>2. ids[1] = h[k + 1].id  BY <1>2, <2>1
  <2> QED  BY <1>4, <1>8, <2>2
<1>11. f.ids = [i \in 1..(n - (k + 1)) |-> h[(k + 1) + i].id]
  <2>1. Tail(ids) = [i \in 1..(m - 1) |-> ids[i + 1]]
    <3> DEFINE rest == Tail(ids)
    <3> HIDE DEF m
    <3>1. /\ rest \in Seq(Nat) /\ Len(rest) = m - 1
          /\ \A i \in 1..(m - 1) : rest[i] = ids[i + 1]
      BY <1>4, <1>8
    <3> HIDE DEF rest
    <3>2. rest = [i \in 1..(m - 1) |-> rest[i]]  BY <3>1
    <3>3. rest = [i \in 1..(m - 1) |-> ids[i + 1]]  BY <3>1, <3>2
    <3> QED  BY <3>3 DEF rest
  <2>2. m - 1 = n - (k + 1)  BY <1>1, <1>2
  <2>3. ASSUME NEW i \in 1..(m - 1) PROVE ids[i + 1] = h[(k + 1) + i].id
    <3>1. i + 1 \in 1..m /\ k + (i + 1) = (k + 1) + i  BY <1>1, <1>2, <1>4
    <3> QED  BY <1>2, <3>1
  <2> HIDE DEF m
  <2> QED  BY <2>1, <2>2, <2>3 DEF ids
<1>12. new = [old EXCEPT ![k + 1] = [old[k + 1] EXCEPT !.renovate = RenovateOf(t, r.id)]]
  <2>1. new = [old EXCEPT ![Len(old) - Len(ids) + 1].renovate = RenovateOf(t, Head(ids))]
    BY DEF new, old, ids
  <2> QED  BY <1>9, <1>10, <2>1
<1>13. [old[k + 1] EXCEPT !.renovate = RenovateOf(t, r.id)] = BackedUp(t, r)
  <2>1. old[k + 1] = ExportedPool(r, t.profiles)
    <3>1. ~(k + 1 <= k)  BY <1>2
    <3> QED  BY <1>2, <1>5, <3>1
  <2>2. \E x \in t.profiles : x.id = r.auth  BY <1>6 DEF Good, Sound
  <2> DEFINE y == ExportedPool(r, t.profiles)
             z == [y EXCEPT !.renovate = RenovateOf(t, r.id)]
             a == ById(t.profiles, r.auth).name
  <2>3. y = [name |-> r.name, provider |-> r.provider, url |-> r.url, scope |-> r.scope,
             auth |-> a, idle |-> r.idle, max |-> r.max, labels |-> ExportedLabels(r.labels),
             image |-> r.image, renovate |-> NoRenovate]
    BY <2>2 DEF ExportedPool
  <2>4. BackedUp(t, r) =
          [name |-> r.name, provider |-> r.provider, url |-> r.url, scope |-> r.scope,
           auth |-> a, idle |-> r.idle, max |-> r.max, labels |-> ExportedLabels(r.labels),
           image |-> r.image, renovate |-> RenovateOf(t, r.id)]
    BY DEF BackedUp
  <2>5. z = [y EXCEPT !.renovate = RenovateOf(t, r.id)]  OBVIOUS
  <2> HIDE DEF y, z, a, r
  <2>6. /\ z = [name |-> z.name, provider |-> z.provider, url |-> z.url, scope |-> z.scope,
                auth |-> z.auth, idle |-> z.idle, max |-> z.max, labels |-> z.labels,
                image |-> z.image, renovate |-> z.renovate]
        /\ z.name = r.name /\ z.provider = r.provider /\ z.url = r.url /\ z.scope = r.scope
        /\ z.auth = a /\ z.idle = r.idle /\ z.max = r.max /\ z.image = r.image
        /\ z.labels = ExportedLabels(r.labels) /\ z.renovate = RenovateOf(t, r.id)
    BY <2>3, <2>5
  <2>7. z = BackedUp(t, r)  BY <2>4, <2>6
  <2> QED  BY <2>1, <2>7 DEF z, y
<1>14. new = [i \in 1..n |-> IF i <= k + 1 THEN BackedUp(t, h[i]) ELSE ExportedPool(h[i], t.profiles)]
  <2>1. new = [old EXCEPT ![k + 1] = BackedUp(t, r)]  BY <1>12, <1>13
  <2>2. \A i \in 1..n : i # k + 1 => (i <= k + 1 <=> i <= k)  BY <1>1, <1>2
  <2>3. k + 1 <= k + 1  BY <1>2
  <2> QED  BY <1>2, <1>5, <2>1, <2>2, <2>3
<1> QED  BY <1>2, <1>5, <1>11, <1>14 DEF Renovating, n, new

\* The steps of an export.
LEMMA ExportSteps ==
  ASSUME Good(tables, {}), IsExporter(exporter), Exporting,
         exporter.pc # "idle" /\ exporter.clean => Undisturbed(exporter, tables)
  PROVE  /\ IsExporter(exporter') /\ tables' = tables
         /\ exporter'.pc # "idle" /\ exporter'.clean => Undisturbed(exporter', tables)
<1> DEFINE e == exporter
           t == tables
<1>0. tables' = tables  BY DEF Exporting, ExportCommand, ExportProfiles, ExportPools, ExportRenovate, ExportEnds, Exports
<1>1. CASE ExportCommand
  <2> DEFINE c == [NoConfig EXCEPT !.global = t.settings]
             f == exporter'
  <2>1. f = [NoExport EXCEPT !.pc = "profiles", !.cfg = c]
    BY <1>1 DEF ExportCommand, Exports, NoExport, ListAppSettings
  <2>2. IsConfiguration(c) /\ c.global = t.settings  BY DEF IsConfiguration, NoConfig
  <2> HIDE DEF c, f
  <2>3. IsExporter(f) /\ f.pc = "profiles" /\ f.cfg = c  BY <2>1 DEF IsExporter, NoExport
  <2> QED  BY <1>0, <2>2, <2>3 DEF Undisturbed, f
<1>2. CASE ExportProfiles
  <2> DEFINE ps == {Sanitized(p) : p \in t.profiles}
             c == [e.cfg EXCEPT !.profiles = ps]
             f == exporter'
  <2>1. f = [e EXCEPT !.pc = "pools", !.rows = t.profiles, !.cfg = c] /\ e.pc = "profiles"
    BY <1>2 DEF ExportProfiles, Exports, ListAuthProfiles, IsExporter
  <2> HIDE DEF c, f, ps
  <2>2. /\ IsExporter(f) /\ f.pc = "pools" /\ f.cfg = c /\ f.rows = t.profiles /\ f.clean = e.clean
    BY <2>1 DEF IsExporter
  <2>3. ASSUME e.clean PROVE Undisturbed(f, t)
    <3>1. IsConfiguration(e.cfg) /\ e.cfg.global = t.settings  BY <2>1, <2>3 DEF Undisturbed
    <3>2. IsConfiguration(c) /\ c.global = t.settings /\ c.profiles = ps
      <4>1. c = [e.cfg EXCEPT !.profiles = ps]  BY DEF c
      <4> QED  BY <3>1, <4>1 DEF IsConfiguration
    <3> QED  BY <2>2, <3>2 DEF Undisturbed, ps
  <2> QED  BY <1>0, <2>2, <2>3 DEF f
<1>3. CASE ExportEnds
  <2>1. exporter' = NoExport  BY <1>3 DEF ExportEnds, Exports
  <2> QED  BY <1>0, <2>1 DEF IsExporter, NoExport
<1>4. CASE ExportPools
  <2>1. PICK h \in Bijection(1..Cardinality(t.pools), t.pools) :
          exporter' = [exporter EXCEPT !.pc = "renovate",
                         !.ids = [i \in DOMAIN h |-> h[i].id],
                         !.cfg.pools = [i \in DOMAIN h |-> ExportedPool(h[i], exporter.rows)]]
    BY <1>4 DEF ExportPools, Exports, ListRunnerPools, CountRunnerPools
  <2> DEFINE n == Cardinality(t.pools)
             ids == [i \in 1..n |-> h[i].id]
             ps == [i \in 1..n |-> ExportedPool(h[i], e.rows)]
             c == [e.cfg EXCEPT !.pools = ps]
             f == exporter'
  <2>2. DOMAIN h = 1..n  BY <2>1 DEF Bijection, Injection
  <2>3. f = [e EXCEPT !.pc = "renovate", !.ids = ids, !.cfg = c] /\ e.pc = "pools"
    BY <1>4, <2>1, <2>2 DEF ExportPools, IsExporter
  <2>4. c = [e.cfg EXCEPT !.pools = ps]  OBVIOUS
  <2> HIDE DEF c, f, ids, ps
  <2>5. IsExporter(f) /\ f.pc = "renovate" /\ f.cfg = c /\ f.ids = ids /\ f.clean = e.clean
    BY <2>3 DEF IsExporter
  <2>6. ASSUME e.clean PROVE Undisturbed(f, t)
    <3>1. /\ IsConfiguration(e.cfg) /\ e.cfg.global = t.settings /\ e.rows = t.profiles
          /\ e.cfg.profiles = {Sanitized(r) : r \in t.profiles}
      BY <2>3, <2>6 DEF Undisturbed
    <3>2. IsConfiguration(c) /\ c.global = t.settings /\ c.profiles = e.cfg.profiles /\ c.pools = ps
      BY <2>4, <3>1 DEF IsConfiguration
    <3>3. n \in Nat  BY FS_CardinalityType DEF Good, Typed
    <3>4. Renovating(f, t, h, 0)
      <4>1. ps = [i \in 1..n |-> IF i <= 0 THEN BackedUp(t, h[i]) ELSE ExportedPool(h[i], t.profiles)]
        BY <3>1, <3>3 DEF ps
      <4>2. ids = [i \in 1..(n - 0) |-> h[0 + i].id]  BY <3>3 DEF ids
      <4> QED  BY <2>1, <2>5, <3>2, <3>3, <4>1, <4>2 DEF Renovating
    <3>5. f.rows = t.profiles  BY <2>3, <3>1 DEF IsExporter
    <3> QED  BY <2>5, <3>1, <3>2, <3>4, <3>5 DEF Undisturbed
  <2> QED  BY <1>0, <2>5, <2>6 DEF f
<1>5. CASE ExportRenovate
  <2> DEFINE f == exporter'
             i == Len(e.cfg.pools) - Len(e.ids) + 1
             x == RenovateOf(t, Head(e.ids))
             ps == [e.cfg.pools EXCEPT ![i].renovate = x]
             c == [e.cfg EXCEPT !.pools = ps]
  <2>1. e.pc = "renovate"  BY <1>5 DEF ExportRenovate
  <2>2. CASE e.ids = <<>>
    <3>1. f = [e EXCEPT !.pc = "done", !.rows = {}]  BY <1>5, <2>2 DEF ExportRenovate, Exports
    <3> HIDE DEF f
    <3>2. IsExporter(f) /\ f.pc = "done" /\ f.cfg = e.cfg /\ f.clean = e.clean
      BY <3>1 DEF IsExporter
    <3>3. ASSUME e.clean PROVE Undisturbed(f, t)
      <4>1. /\ IsConfiguration(e.cfg) /\ e.cfg.global = t.settings
            /\ e.cfg.profiles = {Sanitized(r) : r \in t.profiles}
            /\ \E h, k : Renovating(e, t, h, k)
        BY <2>1, <3>3 DEF Undisturbed
      <4>2. PICK h, k : Renovating(e, t, h, k)  BY <4>1
      <4>3. Listed(t, h, e.cfg.pools)  BY <2>2, <4>2, RenovatingEnds
      <4> QED  BY <3>2, <4>1, <4>3 DEF Undisturbed
    <3> QED  BY <1>0, <3>2, <3>3 DEF f
  <2>3. CASE e.ids # <<>>
    <3>1. f = [e EXCEPT !.ids = Tail(@), !.cfg.pools[i].renovate = x]
      BY <1>5, <2>3 DEF ExportRenovate, Exports, RenovateOf
    <3>2. f = [e EXCEPT !.ids = Tail(e.ids), !.cfg = c]  BY <3>1 DEF IsExporter
    <3>3. c = [e.cfg EXCEPT !.pools = ps]  OBVIOUS
    <3> HIDE DEF f, c, ps
    <3>4. /\ IsExporter(f) /\ f.pc = "renovate" /\ f.cfg = c /\ f.clean = e.clean
          /\ f.ids = Tail(e.ids) /\ f.rows = e.rows
      BY <2>1, <3>2 DEF IsExporter
    <3>5. ASSUME e.clean PROVE Undisturbed(f, t)
      <4>1. /\ IsConfiguration(e.cfg) /\ e.cfg.global = t.settings /\ e.rows = t.profiles
            /\ e.cfg.profiles = {Sanitized(r) : r \in t.profiles}
            /\ \E h, k : Renovating(e, t, h, k)
        BY <2>1, <3>5 DEF Undisturbed
      <4>2. PICK h, k : Renovating(e, t, h, k)  BY <4>1
      <4>3. IsConfiguration(c) /\ c.global = t.settings /\ c.profiles = e.cfg.profiles /\ c.pools = ps
        BY <3>3, <4>1 DEF IsConfiguration
      <4>4. Renovating(f, t, h, k + 1)
        BY <2>3, <3>4, <4>2, <4>3, RenovatingOne DEF ps
      <4> QED  BY <3>4, <4>1, <4>3, <4>4 DEF Undisturbed
    <3> QED  BY <1>0, <3>4, <3>5 DEF f
  <2> QED  BY <2>2, <2>3
<1> QED  BY <1>1, <1>2, <1>3, <1>4, <1>5 DEF Exporting

\* Every step keeps the invariant of the export.
LEMMA ExportStep == ExportInv /\ [Next]_vars => ExportInv'
<1> SUFFICES ASSUME ExportInv, [Next]_vars PROVE ExportInv'  OBVIOUS
<1>1. ASSUME exporter' = exporter, tables' = tables, mix' = mix PROVE ExportInv'
  <2>1. mix # "export" => exporter' = NoExport  BY <1>1 DEF ExportInv
  <2>2. ASSUME mix = "export"
        PROVE  /\ Good(tables', {}) /\ IsExporter(exporter')
               /\ exporter'.pc # "idle" /\ exporter'.clean => Undisturbed(exporter', tables')
    BY <1>1, <2>2 DEF ExportInv
  <2> QED  BY <1>1, <2>1, <2>2 DEF ExportInv
<1>2. ASSUME mix # "export", exporter' = exporter, mix' = mix PROVE ExportInv'
  BY <1>2 DEF ExportInv
<1>3. CASE UNCHANGED vars
  <2>1. exporter' = exporter /\ tables' = tables /\ mix' = mix  BY <1>3 DEF vars, seedVars
  <2> QED  BY <1>1, <2>1
<1>4. CASE Renovates \/ Snapshots \/ Histories
  <2>1. mix # "export" /\ mix' = mix  BY <1>4 DEF Renovates, Snapshots, Histories
  <2>2. exporter' = exporter  BY <1>4 DEF Renovates, Snapshots, Histories, seedVars
  <2> QED  BY <1>2, <2>1, <2>2
<1>5. CASE Seeds /\ mix # "export"
  <2>1. mix' = mix /\ (Boots \/ Imports)  BY <1>5 DEF Seeds
  <2>2. exporter.pc = "idle"  BY <1>5 DEF ExportInv, NoExport
  <2>3. \A t : Writes(t) => exporter' = exporter  BY <2>2 DEF Writes
  <2>4. exporter' = exporter
    <3>1. CASE Boots
      BY <2>3, <3>1 DEF Boots, BootStarts, ReadSeedImported, CountPools, CountProfiles, Reads,
                        BootImports, BootMarks, BootEnds
    <3>2. CASE Imports
      BY <2>3, <3>2 DEF Imports, ImportCommand, ImportCommandMarks, Administer, AddProfile,
                        RemoveProfile, AddPool, ChangePool, RemovePool
    <3> QED  BY <2>1, <3>1, <3>2
  <2> QED  BY <1>2, <1>5, <2>1, <2>4
<1>6. CASE Seeds /\ mix = "export"
  <2>1. mix' = mix /\ (Imports \/ Exporting)  BY <1>6 DEF Seeds
  <2>2. /\ Good(tables, {}) /\ IsExporter(exporter)
        /\ exporter.pc # "idle" /\ exporter.clean => Undisturbed(exporter, tables)
    BY <1>6 DEF ExportInv
  <2>3. ASSUME NEW t, Writes(t), Good(t, {}) PROVE ExportInv'
    <3>1. tables' = t  BY <2>3 DEF Writes
    <3>2. CASE exporter.pc = "idle"
      <4>1. exporter' = exporter  BY <2>3, <3>2 DEF Writes
      <4> QED  BY <1>6, <2>1, <2>2, <2>3, <3>1, <3>2, <4>1 DEF ExportInv
    <3>3. CASE exporter.pc # "idle"
      <4>1. exporter' = [exporter EXCEPT !.clean = FALSE]  BY <2>3, <3>3 DEF Writes
      <4>2. IsExporter(exporter') /\ exporter'.clean = FALSE  BY <2>2, <4>1 DEF IsExporter
      <4> QED  BY <1>6, <2>1, <2>3, <3>1, <4>2 DEF ExportInv
    <3> QED  BY <3>2, <3>3
  <2>4. CASE Imports
    <3>1. (\E t : Writes(t) /\ Good(t, {})) \/ (tables' = tables /\ exporter' = exporter)
      BY <2>2, <2>4, WritersGood
    <3> QED  BY <1>1, <2>1, <2>3, <3>1
  <2>5. CASE Exporting
    <3>1. /\ IsExporter(exporter') /\ tables' = tables
          /\ exporter'.pc # "idle" /\ exporter'.clean => Undisturbed(exporter', tables)
      BY <2>2, <2>5, ExportSteps
    <3> QED  BY <1>6, <2>1, <2>2, <3>1 DEF ExportInv
  <2> QED  BY <2>1, <2>4, <2>5
<1> QED  BY <1>3, <1>4, <1>5, <1>6 DEF Next

\* THEOREM: what an export has is what the tables have, unless something was
\* written meanwhile (ExportSanitizedConfig is a series of queries).
THEOREM ExportInvariance == Spec => []ExportInv
<1>1. Init => ExportInv  BY ExportStart
<1>2. ExportInv /\ [Next]_vars => ExportInv'  BY ExportStep
<1> QED  BY <1>1, <1>2, PTL DEF Spec

\* THEOREM: an export nothing was written during can be merged back
\* (ImportSeedConfig) exactly if all its pools have an image and labels, and
\* then changes nothing that Kept does not name.
THEOREM ExportsMergeBack == Spec => []RoundTrip
<1>1. ExportInv => RoundTrip
  <2> SUFFICES ASSUME ExportInv, exporter.pc = "done", exporter.clean
               PROVE  /\ Importable(tables, exporter.cfg, "merge")
                           <=> \A p \in tables.pools : Filled(p)
                      /\ Kept(tables, ImportSeedConfig(tables, exporter.cfg, "merge"))
    BY DEF RoundTrip
  <2>1. mix = "export"
    <3>1. NoExport.pc = "idle"  BY DEF NoExport
    <3> QED  BY <3>1 DEF ExportInv
  <2>2. Good(tables, {}) /\ Undisturbed(exporter, tables)  BY <2>1 DEF ExportInv
  <2>3. IsExport(tables, exporter.cfg)  BY <2>2 DEF Undisturbed, IsExport
  <2> QED  BY <2>2, <2>3, MergeBack
<1> QED  BY <1>1, ExportInvariance, PTL
=============================================================================
