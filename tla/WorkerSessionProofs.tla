------------------------- MODULE WorkerSessionProofs -------------------------
(***************************************************************************)
(* Theorems about WorkerSession, for every number of callers, sessions,    *)
(* calls and rows, and every bound of the channel.  A call's own answer    *)
(* cannot be told from the state of its caller alone: the invariant says,  *)
(* of each child, what of the one command in flight is still in its stdin, *)
(* being served, in the channel, and received, and of a child without a    *)
(* command that nothing is.                                                *)
(***************************************************************************)
EXTENDS WorkerSession, SequenceTheorems, TLAPS

Row(c, i)   == [call |-> ThisCall(c), row |-> i]
RowFrame(c, i) == [kind |-> "row", call |-> ThisCall(c), row |-> i]
Frame == [kind : {"row"}, call : Call, row : 1 .. Rows]
         \cup [kind : {"end", "fail"}, call : Call]
Received == [call : Call, row : 1 .. Rows]
Stages   == [call : Call, sent : 0 .. Rows] \cup {NotServing}

\* Every variable in its range.
TypeOK ==
    /\ cancelled \in BOOLEAN
    /\ pool \in Sessions \cup {None}
    /\ pc \in [Callers -> {"idle", "locking", "writing", "draining", "ending"}]
    /\ calls \in [Callers -> 0 .. MaxCalls]
    /\ using \in [Callers -> Sessions \cup {None}]
    /\ got \in [Callers -> Seq(Received)]
    /\ outcome \in [Callers -> Outcomes]
    /\ holder \in [Sessions -> Callers \cup {None}]
    /\ proc \in [Sessions -> {"up", "hung", "gone"}]
    /\ stdin \in [Sessions -> Seq(Call)]
    /\ serving \in [Sessions -> Stages]
    /\ frames \in [Sessions -> Seq(Frame)]
    /\ faults \in 0 .. MaxFaults

\* A caller refers to a session exactly during a call, and has its mutex
\* exactly while it writes and drains.
MutexOK ==
    \A c \in Callers :
        /\ pc[c] = "idle" <=> using[c] = None
        /\ pc[c] # "idle" => calls[c] \in 1 .. MaxCalls
        /\ \A s \in Sessions :
             holder[s] = c <=> using[c] = s /\ pc[c] \in {"writing", "draining"}

\* A call has no outcome before its end, and no rows before its request.
CallOK ==
    \A c \in Callers :
        /\ pc[c] \in {"locking", "writing", "draining"} => outcome[c] = "none"
        /\ pc[c] \in {"locking", "writing"} => got[c] = <<>>

\* Nothing of any command is left in the child.
Quiet(s) ==
    /\ stdin[s] = <<>> /\ frames[s] = <<>>
    /\ serving[s] = NotServing

\* A worker that survived the kill of its lake, until its caller drops it.
Doomed(s) ==
    /\ Wrapped
    /\ \E c \in Callers :
         using[c] = s /\ pc[c] = "ending" /\ outcome[c] \in Retires

Drained(s) == \A c \in Callers : holder[s] = c => pc[c] = "writing"

QuietOK ==
    \A s \in Sessions :
        proc[s] # "gone" /\ Referenced(s) /\ Drained(s) /\ ~Doomed(s)
        => Quiet(s)

\* The children that no call and no map refers to are dead, unless wrapped.
OrphansDie ==
    ~Wrapped => \A s \in Sessions : proc[s] # "gone" => Referenced(s)

\* The three stages of the command in flight: the request waits; it is served;
\* its terminal frame is on the way.
Waits(c, s) ==
    /\ stdin[s] = <<ThisCall(c)>> /\ serving[s] = NotServing
    /\ frames[s] = <<>> /\ got[c] = <<>>
Served(c, s) ==
    /\ stdin[s] = <<>>
    /\ serving[s] = [call |-> ThisCall(c), sent |-> Len(got[c]) + Len(frames[s])]
    /\ \A i \in 1 .. Len(frames[s]) : frames[s][i] = RowFrame(c, Len(got[c]) + i)
Finished(c, s) ==
    /\ stdin[s] = <<>> /\ serving[s] = NotServing
    /\ frames[s] # <<>>
    /\ \A i \in 1 .. Len(frames[s]) - 1 : frames[s][i] = RowFrame(c, Len(got[c]) + i)
    /\ LET last == frames[s][Len(frames[s])] IN
         /\ last.kind \in {"end", "fail"}
         /\ last.kind = "end" => Len(got[c]) + Len(frames[s]) - 1 = Rows

InFlightOK ==
    \A c \in Callers : pc[c] = "draining" =>
        /\ \A i \in 1 .. Len(got[c]) : got[c][i] = Row(c, i)
        /\ \/ Waits(c, using[c]) \/ Served(c, using[c]) \/ Finished(c, using[c])

IInv ==
    /\ TypeOK /\ MutexOK /\ CallOK /\ QuietOK /\ OrphansDie /\ InFlightOK
    /\ AnswersAreOwn

\* A kill reaches the worker itself, or nobody else waits for its session.
KillsOrAlone == ~Wrapped \/ \A c, d \in Callers : c = d

-----------------------------------------------------------------------------
(* The steps of the callers and of the children *)

CallerStep(c) == StartCall(c) \/ ContinueCall(c) \/ Timeout(c)
ChildStep(s)  == ServerStep(s) \/ EmitFailure(s) \/ Crash(s) \/ Hang(s)

\* What a caller that is in a call refers to.
LEMMA CallerTypes ==
    ASSUME TypeOK, MutexOK, NEW c \in Callers, pc[c] # "idle"
    PROVE  /\ using[c] \in Sessions
           /\ calls[c] \in 1 .. MaxCalls
           /\ ThisCall(c) \in Call
BY DEF TypeOK, MutexOK, ThisCall, Call

\* The mutex: no two callers are in one session.
LEMMA Exclusive ==
    ASSUME TypeOK, MutexOK, NEW c \in Callers, NEW d \in Callers,
           pc[c] \in {"writing", "draining"}, pc[d] \in {"writing", "draining"},
           using[c] = using[d]
    PROVE  c = d
BY CallerTypes DEF MutexOK

\* One more row of an answer sent.
LEMMA SentMore ==
    ASSUME NEW call, NEW m, NEW n
    PROVE  [[call |-> call, sent |-> m] EXCEPT !.sent = n] = [call |-> call, sent |-> n]
OBVIOUS

\* The values that requests, frames and the server's stages take.
LEMMA FrameTypes ==
    /\ \A call \in Call, i \in 1 .. Rows :
          /\ [kind |-> "row", call |-> call, row |-> i] \in Frame
          /\ [call |-> call, row |-> i] \in Received
    /\ \A call \in Call : \A k \in {"end", "fail"} : [kind |-> k, call |-> call] \in Frame
    /\ \A f \in Frame : f.kind = "row" => f.call \in Call /\ f.row \in 1 .. Rows
    /\ \A call \in Call, n \in 0 .. Rows :
          /\ [call |-> call, sent |-> n] # NotServing
          /\ [call |-> call, sent |-> n] \in Stages
    /\ NotServing \in Stages
    /\ \A x \in Stages \ {NotServing} :
          /\ x.call \in Call /\ x.sent \in 0 .. Rows
          /\ x = [call |-> x.call, sent |-> x.sent]
<1>1. None \notin Call
  BY SessionAssumption DEF Call
<1>2. \A call \in Call, n \in 0 .. Rows : [call |-> call, sent |-> n] # NotServing
  <2> SUFFICES ASSUME NEW call \in Call, NEW n \in 0 .. Rows,
                      [call |-> call, sent |-> n] = NotServing
               PROVE  FALSE
    OBVIOUS
  <2>1. [call |-> call, sent |-> n].call = NotServing.call
    OBVIOUS
  <2> QED
    BY <1>1, <2>1 DEF NotServing
<1>3. \A f \in Frame : f.kind = "row" => f.call \in Call /\ f.row \in 1 .. Rows
  BY DEF Frame
<1> QED
  BY <1>2, <1>3 DEF Frame, Received, Stages

\* The counter and the rows of a caller that begins a call.
LEMMA NewCallTypes ==
    ASSUME TypeOK, NEW c \in Callers, NewCall(c)
    PROVE  /\ calls' \in [Callers -> 0 .. MaxCalls]
           /\ calls'[c] \in 1 .. MaxCalls
           /\ got' \in [Callers -> Seq(Received)]
<1>1. got' \in [Callers -> Seq(Received)]
  BY DEF TypeOK, NewCall
<1>2. calls' \in [Callers -> 0 .. MaxCalls] /\ calls'[c] \in 1 .. MaxCalls
  BY SessionAssumption DEF TypeOK, NewCall
<1> QED
  BY <1>1, <1>2

\* At first no caller is in a call and no child lives.
LEMMA InitIInv == Init => IInv
<1> SUFFICES ASSUME Init PROVE IInv
  OBVIOUS
<1> USE SessionAssumption DEF Init
<1>1. TypeOK
  <2>1. /\ calls \in [Callers -> 0 .. MaxCalls]
        /\ got \in [Callers -> Seq(Received)]
        /\ outcome \in [Callers -> Outcomes]
    BY DEF Outcomes
  <2>2. /\ stdin \in [Sessions -> Seq(Call)]
        /\ serving \in [Sessions -> Stages]
        /\ frames \in [Sessions -> Seq(Frame)]
    BY FrameTypes
  <2>3. faults \in 0 .. MaxFaults
    OBVIOUS
  <2> QED
    BY <2>1, <2>2, <2>3 DEF TypeOK
<1>2. MutexOK /\ CallOK /\ OrphansDie /\ InFlightOK /\ AnswersAreOwn
  BY DEF MutexOK, CallOK, OrphansDie, InFlightOK, AnswersAreOwn
<1>3. QuietOK
  BY DEF QuietOK
<1> QED
  BY <1>1, <1>2, <1>3 DEF IInv

\* The callers keep every variable in its range.
LEMMA CallerTypeOK ==
    ASSUME TypeOK, MutexOK, NEW c \in Callers, CallerStep(c)
    PROVE  TypeOK'
<1> USE SessionAssumption DEF TypeOK, Outcomes, callerVars, childVars
<1>1. CASE RefuseCancelled(c)
  BY <1>1, NewCallTypes DEF RefuseCancelled
<1>2. CASE ReuseSession(c)
  BY <1>2, NewCallTypes DEF ReuseSession
<1>3. CASE SpawnSession(c)
  <2>1. /\ stdin' \in [Sessions -> Seq(Call)]
        /\ frames' \in [Sessions -> Seq(Frame)]
    BY <1>3 DEF SpawnSession
  <2>2. serving' \in [Sessions -> Stages]
    BY <1>3, FrameTypes DEF SpawnSession
  <2> QED
    BY <1>3, <2>1, <2>2, NewCallTypes DEF SpawnSession
<1>4. CASE LockSession(c)
  BY <1>4, CallerTypes DEF LockSession
<1>5. CASE WriteRequest(c)
  BY <1>5, CallerTypes DEF WriteRequest
<1>6. CASE WriteFails(c) \/ Disconnected(c)
  BY <1>6, CallerTypes DEF WriteFails, Disconnected, EndCommand
<1>7. CASE ReceiveRow(c)
  <2>1. using[c] \in Sessions /\ frames[using[c]] \in Seq(Frame)
        /\ frames[using[c]] # <<>>
    BY <1>7, CallerTypes DEF ReceiveRow
  <2>2. Head(frames[using[c]]) \in Frame /\ Tail(frames[using[c]]) \in Seq(Frame)
    BY <2>1
  <2> DEFINE f == Head(frames[using[c]])
             r == [call |-> f.call, row |-> f.row]
  <2>3. r \in Received
    BY <1>7, <2>2, FrameTypes DEF ReceiveRow
  <2>4. /\ got' = [got EXCEPT ![c] = Append(@, r)]
        /\ frames' = [frames EXCEPT ![using[c]] = Tail(@)]
        /\ UNCHANGED <<cancelled, pool, pc, calls, using, outcome, holder, proc,
                       stdin, serving, faults>>
    BY <1>7 DEF ReceiveRow
  <2> HIDE DEF r
  <2>5. got' \in [Callers -> Seq(Received)]
    BY <2>3, <2>4
  <2>6. frames' \in [Sessions -> Seq(Frame)]
    BY <2>2, <2>4
  <2> QED
    BY <2>4, <2>5, <2>6
<1>8. CASE ReceiveEnd(c)
  <2>1. using[c] \in Sessions /\ frames[using[c]] # <<>>
    BY <1>8, CallerTypes DEF ReceiveEnd
  <2>2. Tail(frames[using[c]]) \in Seq(Frame)
    BY <2>1
  <2> QED
    BY <1>8, <2>1, <2>2 DEF ReceiveEnd, EndCommand
<1>9. CASE SeeCancelled(c) \/ Timeout(c)
  <2>1. using[c] \in Sessions /\ Kill(using[c])
        /\ (EndCommand(c, "timeout") \/ EndCommand(c, "cancelled"))
        /\ UNCHANGED <<got, stdin, serving, frames>>
    BY <1>9, CallerTypes DEF SeeCancelled, Timeout
  <2>2. proc' \in [Sessions -> {"up", "hung", "gone"}]
    BY <2>1 DEF Kill
  <2> QED
    BY <2>1, <2>2 DEF EndCommand
<1>10. CASE EndCall(c)
  <2>1. proc' \in [Sessions -> {"up", "hung", "gone"}]
    BY <1>10 DEF EndCall, LetGo
  <2>2. pool' \in Sessions \cup {None} /\ using' \in [Callers -> Sessions \cup {None}]
    BY <1>10 DEF EndCall, LetGo
  <2> QED
    BY <1>10, <2>1, <2>2 DEF EndCall
<1> QED
  BY <1>1, <1>2, <1>3, <1>4, <1>5, <1>6, <1>7, <1>8, <1>9, <1>10
     DEF CallerStep, StartCall, ContinueCall

\* So do the children.
LEMMA ChildTypeOK ==
    ASSUME TypeOK, NEW s \in Sessions, ChildStep(s)
    PROVE  TypeOK'
<1> USE SessionAssumption DEF TypeOK, ChildOnly, callerVars
<1>1. CASE ReadRequest(s)
  <2>1. Head(stdin[s]) \in Call /\ Tail(stdin[s]) \in Seq(Call)
    BY <1>1 DEF ReadRequest
  <2>2. serving' \in [Sessions -> Stages]
    BY <1>1, <2>1, FrameTypes DEF ReadRequest
  <2> QED
    BY <1>1, <2>1, <2>2 DEF ReadRequest
<1>2. ASSUME NEW f \in Frame, Emit(s, f)
      PROVE  frames' \in [Sessions -> Seq(Frame)]
  BY <1>2 DEF Emit
<1>3. serving[s] # NotServing =>
        /\ serving[s].call \in Call /\ serving[s].sent \in 0 .. Rows
        /\ serving[s] = [call |-> serving[s].call, sent |-> serving[s].sent]
  BY FrameTypes
<1>4. CASE EmitRow(s)
  <2> DEFINE n == serving[s].sent + 1
             stage == [call |-> serving[s].call, sent |-> n]
  <2>1. serving[s].call \in Call /\ n \in 1 .. Rows
    BY <1>3, <1>4 DEF EmitRow, Emit
  <2>2. [kind |-> "row", call |-> serving[s].call, row |-> n] \in Frame
    BY <2>1, FrameTypes
  <2>3. frames' \in [Sessions -> Seq(Frame)]
    BY <1>2, <1>4, <2>2 DEF EmitRow
  <2>4. serving' = [serving EXCEPT ![s] = stage]
    <3>1. serving' = [serving EXCEPT ![s] = [@ EXCEPT !.sent = n]]
      BY <1>4 DEF EmitRow
    <3>2. serving[s] = [call |-> serving[s].call, sent |-> serving[s].sent]
      BY <1>3, <1>4 DEF EmitRow, Emit
    <3>3. [serving[s] EXCEPT !.sent = n] = stage
      BY <3>2, SentMore
    <3> QED
      BY <3>1, <3>3
  <2>5. stage \in Stages
    BY <2>1, FrameTypes
  <2> HIDE DEF stage
  <2>6. serving' \in [Sessions -> Stages]
    BY <2>4, <2>5
  <2> QED
    BY <1>4, <2>3, <2>6 DEF EmitRow, Emit
<1>5. CASE EmitEnd(s)
  <2>1. frames' \in [Sessions -> Seq(Frame)]
    BY <1>2, <1>3, <1>5, FrameTypes DEF EmitEnd, Emit
  <2> QED
    BY <1>5, <2>1, FrameTypes DEF EmitEnd, Emit
<1>6. CASE EmitFailure(s)
  <2>1. frames' \in [Sessions -> Seq(Frame)]
    BY <1>2, <1>3, <1>6, FrameTypes DEF EmitFailure, Emit
  <2> QED
    BY <1>6, <2>1, FrameTypes DEF EmitFailure, Emit
<1>7. CASE WorkerSeesEof(s)
  BY <1>7 DEF WorkerSeesEof
<1>8. CASE Crash(s)
  BY <1>8 DEF Crash
<1>9. CASE Hang(s)
  BY <1>9 DEF Hang
<1> QED
  BY <1>1, <1>4, <1>5, <1>6, <1>7, <1>8, <1>9 DEF ChildStep, ServerStep

-----------------------------------------------------------------------------
(* The mutex, the outcomes and the orphans *)

\* Children touch no variable of the callers.
LEMMA ChildKeepsCallers ==
    ASSUME NEW s \in Sessions, ChildStep(s)
    PROVE  UNCHANGED <<cancelled, pool, pc, calls, using, got, outcome, holder>>
BY DEF ChildStep, ServerStep, ReadRequest, EmitRow, EmitEnd, EmitFailure, Emit,
       WorkerSeesEof, Crash, Hang, ChildOnly, callerVars

\* Callers take and release the session's mutex as they come and go.
LEMMA CallerMutexOK ==
    ASSUME TypeOK, MutexOK, NEW d \in Callers, CallerStep(d)
    PROVE  MutexOK'
<1> SUFFICES ASSUME NEW c \in Callers
             PROVE  /\ pc'[c] = "idle" <=> using'[c] = None
                    /\ pc'[c] # "idle" => calls'[c] \in 1 .. MaxCalls
                    /\ \A s \in Sessions :
                         holder'[s] = c <=>
                           using'[c] = s /\ pc'[c] \in {"writing", "draining"}
  BY DEF MutexOK
<1> USE SessionAssumption DEF TypeOK, MutexOK, callerVars, childVars
<1>1. CASE RefuseCancelled(d)
  BY <1>1 DEF RefuseCancelled, NewCall
<1>2. CASE ReuseSession(d) \/ SpawnSession(d)
  <2>1. /\ using' = [using EXCEPT ![d] = pool'] /\ pool' \in Sessions
        /\ pc' = [pc EXCEPT ![d] = "locking"]
        /\ holder' = holder /\ calls' = [calls EXCEPT ![d] = @ + 1]
        /\ pc[d] = "idle" /\ calls[d] < MaxCalls
    BY <1>2 DEF ReuseSession, SpawnSession, NewCall
  <2> QED
    BY <2>1
<1>3. CASE LockSession(d)
  BY <1>3 DEF LockSession
<1>4. CASE WriteRequest(d) \/ ReceiveRow(d)
  <2>1. /\ UNCHANGED <<using, calls, holder>>
        /\ pc[d] \in {"writing", "draining"} /\ pc' = [pc EXCEPT ![d] = "draining"]
    BY <1>4 DEF WriteRequest, ReceiveRow
  <2> QED
    BY <2>1
<1>5. CASE \/ WriteFails(d) \/ ReceiveEnd(d) \/ Disconnected(d)
           \/ SeeCancelled(d) \/ Timeout(d)
  <2>1. /\ pc[d] \in {"writing", "draining"}
        /\ pc' = [pc EXCEPT ![d] = "ending"]
        /\ holder' = [holder EXCEPT ![using[d]] = None]
        /\ UNCHANGED <<using, calls>>
    BY <1>5 DEF WriteFails, ReceiveEnd, Disconnected, SeeCancelled, Timeout, EndCommand
  <2>2. using[d] \in Sessions /\ holder[using[d]] = d
    BY <2>1, CallerTypes
  <2> QED
    BY <2>1, <2>2
<1>6. CASE EndCall(d)
  BY <1>6 DEF EndCall, LetGo
<1> QED
  BY <1>1, <1>2, <1>3, <1>4, <1>5, <1>6 DEF CallerStep, StartCall, ContinueCall

\* A call's outcome comes at its end.
LEMMA CallerCallOK ==
    ASSUME TypeOK, MutexOK, CallOK, NEW d \in Callers, CallerStep(d)
    PROVE  CallOK'
<1> SUFFICES ASSUME NEW c \in Callers
             PROVE  /\ pc'[c] \in {"locking", "writing", "draining"} => outcome'[c] = "none"
                    /\ pc'[c] \in {"locking", "writing"} => got'[c] = <<>>
  BY DEF CallOK
<1> USE DEF TypeOK, CallOK
<1>1. CASE RefuseCancelled(d)
  BY <1>1 DEF RefuseCancelled, NewCall
<1>2. CASE ReuseSession(d) \/ SpawnSession(d)
  BY <1>2 DEF ReuseSession, SpawnSession, NewCall
<1>3. CASE LockSession(d) \/ WriteRequest(d)
  BY <1>3 DEF LockSession, WriteRequest
<1>4. CASE ReceiveRow(d)
  BY <1>4 DEF ReceiveRow
<1>5. CASE \/ WriteFails(d) \/ ReceiveEnd(d) \/ Disconnected(d)
           \/ SeeCancelled(d) \/ Timeout(d)
  BY <1>5
     DEF WriteFails, ReceiveEnd, Disconnected, SeeCancelled, Timeout, EndCommand
<1>6. CASE EndCall(d)
  BY <1>6 DEF EndCall, LetGo
<1> QED
  BY <1>1, <1>2, <1>3, <1>4, <1>5, <1>6 DEF CallerStep, StartCall, ContinueCall

\* A child that its last holder drops is killed.
LEMMA CallerOrphansDie ==
    ASSUME TypeOK, MutexOK, OrphansDie, NEW d \in Callers, CallerStep(d)
    PROVE  OrphansDie'
<1> SUFFICES ASSUME ~Wrapped, NEW s \in Sessions, proc'[s] # "gone"
             PROVE  Referenced(s)'
  BY DEF OrphansDie
<1> USE SessionAssumption DEF TypeOK, Referenced
<1>1. CASE RefuseCancelled(d)
  BY <1>1 DEF RefuseCancelled, NewCall, OrphansDie, childVars
<1>2. CASE ReuseSession(d)
  BY <1>2 DEF ReuseSession, NewCall, OrphansDie, childVars, MutexOK
<1>3. CASE SpawnSession(d)
  <2>1. PICK t \in Sessions :
            /\ pool' = t /\ using' = [using EXCEPT ![d] = t]
            /\ proc' = [proc EXCEPT ![t] = "up"]
    BY <1>3 DEF SpawnSession
  <2>2. CASE s = t
    BY <2>1, <2>2
  <2>3. CASE s # t
    <3>1. Referenced(s) /\ pool = None /\ using[d] = None
      BY <1>3, <2>1, <2>3 DEF SpawnSession, NewCall, OrphansDie, MutexOK
    <3>2. PICK e \in Callers : using[e] = s
      BY <3>1
    <3> QED
      BY <2>1, <3>1, <3>2
  <2> QED
    BY <2>2, <2>3
<1>4. CASE \/ LockSession(d) \/ WriteRequest(d) \/ WriteFails(d) \/ ReceiveRow(d)
           \/ ReceiveEnd(d) \/ Disconnected(d)
  <2>1. UNCHANGED <<pool, using, proc>>
    BY <1>4
       DEF LockSession, WriteRequest, WriteFails, ReceiveRow, ReceiveEnd,
           Disconnected, EndCommand, childVars
  <2> QED
    BY <2>1 DEF OrphansDie
<1>5. CASE SeeCancelled(d) \/ Timeout(d)
  <2>1. UNCHANGED <<pool, using>> /\ proc' = [proc EXCEPT ![using[d]] = "gone"]
    BY <1>5 DEF SeeCancelled, Timeout, Kill, EndCommand
  <2> QED
    BY <2>1 DEF OrphansDie
<1>6. CASE EndCall(d)
  <2>1. /\ proc' = [t \in Sessions |->
              IF pool' = t \/ \E e \in Callers \ {d} : using[e] = t
              THEN proc[t] ELSE "gone"]
        /\ using' = [using EXCEPT ![d] = None]
    BY <1>6 DEF EndCall, LetGo
  <2>2. pool' = s \/ \E e \in Callers \ {d} : using[e] = s
    BY <2>1
  <2> QED
    BY <2>1, <2>2
<1> QED
  BY <1>1, <1>2, <1>3, <1>4, <1>5, <1>6 DEF CallerStep, StartCall, ContinueCall

\* No child comes back.
LEMMA ChildOrphansDie ==
    ASSUME TypeOK, OrphansDie, NEW s \in Sessions, ChildStep(s)
    PROVE  OrphansDie'
<1>1. \A t \in Sessions : proc'[t] # "gone" => proc[t] # "gone"
  BY DEF TypeOK, ChildStep, ServerStep, ReadRequest, EmitRow, EmitEnd, EmitFailure,
         Emit, WorkerSeesEof, Crash, Hang
<1> QED
  BY <1>1, ChildKeepsCallers DEF OrphansDie, Referenced

-----------------------------------------------------------------------------
(* The command in flight *)

\* The tail of a channel that holds the rows from k + 1 on.
LEMMA TailRows ==
    ASSUME NEW f \in Seq(Frame), f # <<>>
    PROVE  /\ Tail(f) \in Seq(Frame) /\ Len(Tail(f)) = Len(f) - 1
           /\ Head(f) = f[1]
           /\ \A i \in 1 .. Len(f) - 1 : Tail(f)[i] = f[i + 1]
           /\ Len(f) \in Nat \ {0}
OBVIOUS

\* A channel with one frame is empty when that is taken.
LEMMA OneLeft ==
    ASSUME NEW f \in Seq(Frame), Len(f) = 1
    PROVE  Tail(f) = <<>>
<1>1. f # <<>>
  BY EmptySeq
<1>2. Tail(f) \in Seq(Frame) /\ Len(Tail(f)) = 0
  BY <1>1, TailRows
<1> QED
  BY <1>2, EmptySeq

\* The server takes the request and sends the rest of the answer, in order.
LEMMA ChildInFlight ==
    ASSUME TypeOK, MutexOK, InFlightOK, NEW s \in Sessions, ChildStep(s)
    PROVE  InFlightOK'
<1> SUFFICES ASSUME NEW c \in Callers, pc'[c] = "draining"
             PROVE  /\ \A i \in 1 .. Len(got'[c]) : got'[c][i] = Row(c, i)'
                    /\ \/ Waits(c, using[c])' \/ Served(c, using[c])'
                       \/ Finished(c, using[c])'
  BY DEF InFlightOK
<1>1. UNCHANGED <<pc, calls, using, got>> /\ pc[c] = "draining"
  BY ChildKeepsCallers
<1>2. Row(c, 0)' = Row(c, 0) /\ ThisCall(c)' = ThisCall(c)
      /\ \A i : Row(c, i)' = Row(c, i) /\ RowFrame(c, i)' = RowFrame(c, i)
  BY <1>1 DEF Row, RowFrame, ThisCall
<1>3. \A i \in 1 .. Len(got'[c]) : got'[c][i] = Row(c, i)'
  BY <1>1, <1>2 DEF InFlightOK
<1>4. Waits(c, using[c]) \/ Served(c, using[c]) \/ Finished(c, using[c])
  BY <1>1 DEF InFlightOK
<1>5. ASSUME UNCHANGED <<stdin[using[c]], serving[using[c]], frames[using[c]]>>
      PROVE  Waits(c, using[c])' \/ Served(c, using[c])' \/ Finished(c, using[c])'
  BY <1>1, <1>2, <1>4, <1>5 DEF Waits, Served, Finished
<1>6. CASE using[c] # s
  <2>1. UNCHANGED <<stdin[using[c]], serving[using[c]], frames[using[c]]>>
    BY <1>1, <1>6, CallerTypes
       DEF TypeOK, ChildStep, ServerStep, ReadRequest, EmitRow, EmitEnd,
           EmitFailure, Emit, WorkerSeesEof, Crash, Hang
  <2> QED
    BY <1>3, <1>5, <2>1
<1>7. CASE using[c] = s /\ (WorkerSeesEof(s) \/ Crash(s) \/ Hang(s))
  BY <1>1, <1>3, <1>5, <1>7 DEF WorkerSeesEof, Crash, Hang
<1>8. CASE using[c] = s /\ ReadRequest(s)
  <2>1. Waits(c, s)
    BY <1>4, <1>8 DEF ReadRequest, Served, Finished
  <2>2. /\ stdin'[s] = <<>> /\ frames'[s] = <<>> /\ got'[c] = <<>>
        /\ serving'[s] = [call |-> ThisCall(c), sent |-> 0]
    BY <1>1, <1>8, <2>1 DEF ReadRequest, Waits, TypeOK
  <2>3. Served(c, using[c])'
    BY <1>1, <1>2, <1>8, <2>2 DEF Served
  <2> QED
    BY <1>3, <2>3
<1>9. CASE using[c] = s /\ (EmitRow(s) \/ EmitEnd(s) \/ EmitFailure(s))
  <2> DEFINE f == frames[s]
             q == Len(got[c])
             frame == frames'[s][Len(f) + 1]
  <2>1. Served(c, s)
    BY <1>4, <1>9 DEF EmitRow, EmitEnd, EmitFailure, Emit, Waits, Finished
  <2>2. /\ f \in Seq(Frame) /\ q \in Nat /\ Len(f) \in Nat
        /\ got[c] \in Seq(Received) /\ ThisCall(c) \in Call
    BY <1>1, CallerTypes DEF TypeOK
  <2>3. /\ serving[s].call = ThisCall(c) /\ serving[s].sent = q + Len(f)
        /\ stdin'[s] = <<>>
    <3>1. serving[s] = [call |-> ThisCall(c), sent |-> q + Len(f)] /\ stdin[s] = <<>>
      BY <2>1 DEF Served
    <3>2. stdin' = stdin
      BY <1>9 DEF EmitRow, EmitEnd, EmitFailure, Emit
    <3> QED
      BY <3>1, <3>2
  <2>4. CASE EmitRow(s)
    <3> DEFINE new == RowFrame(c, q + Len(f) + 1)
    <3>1. q + Len(f) + 1 \in 1 .. Rows /\ frames'[s] = Append(f, new)
      BY <2>2, <2>3, <2>4, SessionAssumption DEF EmitRow, Emit, TypeOK, RowFrame
    <3>2. new \in Frame
      BY <2>2, <3>1, FrameTypes DEF RowFrame
    <3> HIDE DEF new
    <3>3. /\ Len(frames'[s]) = Len(f) + 1
          /\ \A i \in 1 .. Len(f) : frames'[s][i] = f[i]
          /\ frames'[s][Len(f) + 1] = new
      BY <2>2, <3>1, <3>2
    <3>4. serving'[s] = [call |-> ThisCall(c), sent |-> q + Len(f) + 1]
      <4>1. serving' = [serving EXCEPT ![s] = [@ EXCEPT !.sent = serving[s].sent + 1]]
        BY <2>4 DEF EmitRow
      <4>2. serving'[s] = [serving[s] EXCEPT !.sent = q + Len(f) + 1]
        BY <2>3, <4>1 DEF TypeOK
      <4>3. serving[s] = [call |-> ThisCall(c), sent |-> q + Len(f)]
        BY <2>1 DEF Served
      <4>4. [[call |-> ThisCall(c), sent |-> q + Len(f)] EXCEPT !.sent = q + Len(f) + 1]
            = [call |-> ThisCall(c), sent |-> q + Len(f) + 1]
        BY SentMore
      <4> QED
        BY <4>2, <4>3, <4>4
    <3>5. \A i \in 1 .. Len(frames'[s]) : frames'[s][i] = RowFrame(c, q + i)
      <4> SUFFICES ASSUME NEW i \in 1 .. Len(frames'[s])
                   PROVE  frames'[s][i] = RowFrame(c, q + i)
        OBVIOUS
      <4>1. CASE i \in 1 .. Len(f)
        BY <2>1, <3>3, <4>1 DEF Served
      <4>2. CASE i = Len(f) + 1
        <5>1. \A m, n \in Nat : m + (n + 1) = m + n + 1
          OBVIOUS
        <5>2. q + i = q + Len(f) + 1
          BY <2>2, <4>2, <5>1
        <5> QED
          BY <3>3, <4>2, <5>2 DEF new
      <4> QED
        BY <2>2, <3>3, <4>1, <4>2
    <3>6. Served(c, using[c])'
      <4>1. Len(got'[c]) = q /\ Len(got'[c]) + Len(frames'[s]) = q + Len(f) + 1
        <5>1. \A m, n \in Nat : m + (n + 1) = m + n + 1
          OBVIOUS
        <5> QED
          BY <1>1, <2>2, <3>3, <5>1
      <4> HIDE DEF f, q
      <4> QED
        BY <1>1, <1>2, <1>9, <2>3, <3>4, <3>5, <4>1 DEF Served
    <3> QED
      BY <1>3, <3>6
  <2>5. CASE EmitEnd(s) \/ EmitFailure(s)
    <3>1. PICK k \in {"end", "fail"} :
              /\ frames'[s] = Append(f, [kind |-> k, call |-> ThisCall(c)])
              /\ k = "end" => q + Len(f) = Rows
      BY <2>3, <2>5 DEF EmitEnd, EmitFailure, Emit, TypeOK
    <3> DEFINE new == [kind |-> k, call |-> ThisCall(c)]
    <3>2. new \in Frame /\ new.kind = k
      BY <2>2, FrameTypes
    <3>3. frames'[s] = Append(f, new)
      BY <3>1
    <3>4. serving'[s] = NotServing
      BY <2>5 DEF EmitEnd, EmitFailure, TypeOK
    <3> HIDE DEF new
    <3>5. /\ Len(frames'[s]) = Len(f) + 1
          /\ \A i \in 1 .. Len(f) : frames'[s][i] = f[i]
          /\ frames'[s][Len(f) + 1] = new
      BY <2>2, <3>2, <3>3
    <3>6. \A i \in 1 .. Len(frames'[s]) - 1 : frames'[s][i] = RowFrame(c, q + i)
      BY <2>1, <2>2, <3>5 DEF Served
    <3>7. frames'[s] # <<>>
      BY <2>2, <3>5
    <3>8. /\ frames'[s][Len(frames'[s])].kind \in {"end", "fail"}
          /\ frames'[s][Len(frames'[s])].kind = "end" => q + Len(frames'[s]) - 1 = Rows
      <4>1. frames'[s][Len(frames'[s])] = new
        BY <3>5
      <4>2. q + Len(frames'[s]) - 1 = q + Len(f)
        BY <2>2, <3>5
      <4> QED
        BY <3>1, <3>2, <4>1, <4>2
    <3>9. Finished(c, using[c])'
      BY <1>1, <1>2, <1>9, <2>3, <3>4, <3>6, <3>7, <3>8 DEF Finished
    <3> QED
      BY <1>3, <3>9
  <2> QED
    BY <1>9, <2>4, <2>5
<1> QED
  BY <1>6, <1>7, <1>8, <1>9 DEF ChildStep, ServerStep

\* A request meets a child that has nothing left of another command.
LEMMA WriterIsAlone ==
    ASSUME TypeOK, MutexOK, QuietOK, KillsOrAlone, NEW c \in Callers,
           pc[c] = "writing", proc[using[c]] # "gone"
    PROVE  Quiet(using[c])
<1> DEFINE s == using[c]
<1>1. s \in Sessions /\ holder[s] = c
  BY CallerTypes DEF MutexOK
<1>2. Referenced(s)
  BY DEF Referenced
<1>3. Drained(s)
  BY <1>1 DEF Drained
<1>4. ~Doomed(s)
  BY DEF Doomed, KillsOrAlone
<1> QED
  BY <1>1, <1>2, <1>3, <1>4 DEF QuietOK

\* The caller that acts is another one: its step leaves this one's child alone.
LEMMA OthersInFlight ==
    ASSUME TypeOK, MutexOK, InFlightOK, NEW d \in Callers, CallerStep(d),
           NEW c \in Callers, c # d, pc[c] = "draining"
    PROVE  UNCHANGED <<calls[c], using[c], got[c], stdin[using[c]],
                       serving[using[c]], frames[using[c]]>>
<1> USE DEF TypeOK, callerVars, childVars
<1>1. using[c] \in Sessions
  BY CallerTypes
<1>2. pc[d] \in {"writing", "draining"} => using[d] # using[c]
  BY Exclusive
<1>3. CASE RefuseCancelled(d) \/ ReuseSession(d) \/ LockSession(d) \/ EndCall(d)
  BY <1>3 DEF RefuseCancelled, ReuseSession, LockSession, EndCall, LetGo, NewCall
<1>4. CASE SpawnSession(d)
  BY <1>1, <1>4 DEF SpawnSession, NewCall, Referenced
<1>5. CASE WriteRequest(d) \/ ReceiveRow(d)
  BY <1>1, <1>2, <1>5, CallerTypes DEF WriteRequest, ReceiveRow
<1>6. CASE \/ WriteFails(d) \/ ReceiveEnd(d) \/ Disconnected(d)
           \/ SeeCancelled(d) \/ Timeout(d)
  BY <1>1, <1>2, <1>6, CallerTypes
     DEF WriteFails, ReceiveEnd, Disconnected, SeeCancelled, Timeout, EndCommand
<1> QED
  BY <1>3, <1>4, <1>5, <1>6 DEF CallerStep, StartCall, ContinueCall

\* The first n frames are the rows of c's call from q + 1 on.
HoldsRows(c, f, q, n) == \A i \in 1 .. n : f[i] = RowFrame(c, q + i)

\* When the first of them is taken, the others are the rows from q + 2 on.
LEMMA RowsShift ==
    ASSUME NEW c, NEW f \in Seq(Frame), f # <<>>, NEW q \in Nat,
           NEW n \in 1 .. Len(f), HoldsRows(c, f, q, n)
    PROVE  /\ Head(f) = RowFrame(c, q + 1)
           /\ HoldsRows(c, Tail(f), q + 1, n - 1)
<1>1. Head(f) = f[1] /\ 1 \in 1 .. n /\ Len(f) \in Nat
  BY TailRows
<1>2. ASSUME NEW i \in 1 .. n - 1
      PROVE  Tail(f)[i] = RowFrame(c, (q + 1) + i)
  <2>1. i + 1 \in 1 .. n /\ i \in 1 .. Len(f) - 1 /\ q + (i + 1) = (q + 1) + i
    BY <1>1
  <2> QED
    BY <2>1, TailRows DEF HoldsRows
<1> QED
  BY <1>1, <1>2 DEF HoldsRows

\* The answer comes in, one row after the other.
LEMMA RowInFlight ==
    ASSUME TypeOK, MutexOK, InFlightOK, NEW c \in Callers, ReceiveRow(c)
    PROVE  /\ \A i \in 1 .. Len(got'[c]) : got'[c][i] = Row(c, i)'
           /\ Served(c, using[c])' \/ Finished(c, using[c])'
<1> DEFINE s == using[c]
           f == frames[s]
           q == Len(got[c])
           r == [call |-> Head(f).call, row |-> Head(f).row]
<1>1. /\ s \in Sessions /\ f \in Seq(Frame) /\ f # <<>> /\ got[c] \in Seq(Received)
      /\ q \in Nat /\ Len(f) \in Nat \ {0}
  BY CallerTypes DEF TypeOK, ReceiveRow
<1>2. /\ \A i \in 1 .. q : got[c][i] = Row(c, i)
      /\ Served(c, s) \/ Finished(c, s)
  BY DEF InFlightOK, ReceiveRow, Waits
<1>3. /\ got'[c] = Append(got[c], r) /\ frames'[s] = Tail(f)
      /\ UNCHANGED <<calls, using, stdin, serving>> /\ Head(f).kind = "row"
  BY <1>1 DEF ReceiveRow, TypeOK
<1>4. /\ Served(c, s) => HoldsRows(c, f, q, Len(f))
      /\ Finished(c, s) => Len(f) # 1 /\ HoldsRows(c, f, q, Len(f) - 1)
  <2>1. Served(c, s) => HoldsRows(c, f, q, Len(f))
    BY DEF Served, HoldsRows
  <2>2. Finished(c, s) => HoldsRows(c, f, q, Len(f) - 1)
    BY DEF Finished, HoldsRows
  <2>3. Finished(c, s) => Len(f) # 1
    BY <1>1, <1>3, TailRows DEF Finished
  <2> QED
    BY <2>1, <2>2, <2>3
<1>5. /\ Len(f) - 1 \in Nat
      /\ (q + 1) + (Len(f) - 1) = q + Len(f)
      /\ Len(f) # 1 => /\ Len(f) - 1 \in 1 .. Len(f)
                       /\ Len(f) - 1 \in 1 .. Len(f) - 1 /\ Len(f) - 1 # 0
                       /\ (Len(f) - 1) + 1 = Len(f)
      /\ Len(f) \in 1 .. Len(f)
      /\ (q + 1) + (Len(f) - 1) - 1 = q + Len(f) - 1
  <2>1. \A m \in Nat, n \in Nat \ {0} :
          /\ n - 1 \in Nat
          /\ (m + 1) + (n - 1) = m + n
          /\ n # 1 => /\ n - 1 \in 1 .. n /\ n - 1 \in 1 .. n - 1 /\ n - 1 # 0
                      /\ (n - 1) + 1 = n
          /\ n \in 1 .. n
          /\ (m + 1) + (n - 1) - 1 = m + n - 1
    OBVIOUS
  <2> HIDE DEF f, q
  <2> QED
    BY <1>1, <2>1
<1>6. PICK m \in 1 .. Len(f) : HoldsRows(c, f, q, m)
  <2> HIDE DEF f, q
  <2> QED
    BY <1>2, <1>4, <1>5
<1>7. /\ Head(f) = RowFrame(c, q + 1)
      /\ \A n \in 1 .. Len(f) : HoldsRows(c, f, q, n) => HoldsRows(c, Tail(f), q + 1, n - 1)
  <2> HIDE DEF f, q
  <2> QED
    BY <1>1, <1>6, RowsShift
<1>8. r = Row(c, q + 1)
  BY <1>7 DEF Row, RowFrame
<1>9. /\ Len(got'[c]) = q + 1 /\ got'[c][q + 1] = Row(c, q + 1)
      /\ \A i \in 1 .. q : got'[c][i] = got[c][i]
  <2>1. Head(f) \in Frame
    BY <1>1
  <2>2. r \in Received
    BY <1>3, <2>1, FrameTypes
  <2> HIDE DEF r
  <2> QED
    BY <1>1, <1>3, <1>8, <2>2
<1>10. \A i : Row(c, i)' = Row(c, i) /\ RowFrame(c, i)' = RowFrame(c, i)
  BY <1>3 DEF Row, RowFrame, ThisCall
<1>11. \A i \in 1 .. Len(got'[c]) : got'[c][i] = Row(c, i)'
  BY <1>1, <1>2, <1>9, <1>10
<1>12. /\ frames'[s] = Tail(f) /\ Len(Tail(f)) = Len(f) - 1
      /\ \A i \in 1 .. Len(f) - 1 : Tail(f)[i] = f[i + 1]
  BY <1>1, <1>3, TailRows
<1>13. CASE Served(c, s)
  <2>1. HoldsRows(c, frames'[s], q + 1, Len(frames'[s]))
    BY <1>4, <1>12, <1>5, <1>13, <1>7
  <2>2. Served(c, using[c])'
    <3>1. Len(got'[c]) = q + 1 /\ Len(got'[c]) + Len(frames'[s]) = q + Len(f)
      BY <1>9, <1>12, <1>5
    <3>2. stdin'[s] = <<>> /\ serving'[s] = [call |-> ThisCall(c), sent |-> q + Len(f)]
      BY <1>3, <1>13 DEF Served
    <3> HIDE DEF f, q
    <3> QED
      BY <1>3, <1>10, <2>1, <3>1, <3>2 DEF Served, HoldsRows, ThisCall
  <2> QED
    BY <1>11, <2>2
<1>14. CASE Finished(c, s)
  <2>1. HoldsRows(c, frames'[s], q + 1, Len(frames'[s]) - 1)
    BY <1>4, <1>12, <1>5, <1>14, <1>7
  <2>2. frames'[s][Len(frames'[s])] = f[Len(f)]
    <3>1. Len(f) - 1 \in 1 .. Len(f) - 1 /\ (Len(f) - 1) + 1 = Len(f)
      BY <1>4, <1>5, <1>14
    <3> HIDE DEF f
    <3> QED
      BY <1>12, <3>1
  <2>3. frames'[s] # <<>>
    <3>1. Len(frames'[s]) # 0
      BY <1>4, <1>12, <1>5, <1>14
    <3> QED
      BY <3>1
  <2>4. /\ Len(got'[c]) = q + 1
        /\ Len(got'[c]) + Len(frames'[s]) - 1 = q + Len(f) - 1
    BY <1>9, <1>12, <1>5
  <2>5. /\ stdin'[s] = <<>> /\ serving'[s] = NotServing
        /\ f[Len(f)].kind \in {"end", "fail"}
        /\ f[Len(f)].kind = "end" => q + Len(f) - 1 = Rows
    BY <1>3, <1>14 DEF Finished
  <2>6. Finished(c, using[c])'
    <3> HIDE DEF f, q
    <3> QED
      BY <1>3, <1>10, <2>1, <2>2, <2>3, <2>4, <2>5 DEF Finished, HoldsRows
  <2> QED
    BY <1>11, <2>6
<1> QED
  BY <1>2, <1>13, <1>14

\* The callers keep the account of every command in flight.
LEMMA CallerInFlight ==
    ASSUME TypeOK, MutexOK, CallOK, QuietOK, InFlightOK, KillsOrAlone,
           NEW d \in Callers, CallerStep(d)
    PROVE  InFlightOK'
<1> SUFFICES ASSUME NEW c \in Callers, pc'[c] = "draining"
             PROVE  /\ \A i \in 1 .. Len(got'[c]) : got'[c][i] = Row(c, i)'
                    /\ \/ Waits(c, using[c])' \/ Served(c, using[c])'
                       \/ Finished(c, using[c])'
  BY DEF InFlightOK
<1>1. CASE c # d
  <2>1. pc[c] = "draining"
    BY <1>1
       DEF TypeOK, CallerStep, StartCall, ContinueCall, RefuseCancelled, NewCall,
           ReuseSession, SpawnSession, LockSession, WriteRequest, WriteFails,
           ReceiveRow, ReceiveEnd, Disconnected, SeeCancelled, Timeout,
           EndCommand, EndCall
  <2>2. UNCHANGED <<calls[c], using[c], got[c], stdin[using[c]],
                    serving[using[c]], frames[using[c]]>>
    BY <1>1, <2>1, OthersInFlight
  <2>3. \A i : Row(c, i)' = Row(c, i) /\ RowFrame(c, i)' = RowFrame(c, i)
    BY <2>2 DEF Row, RowFrame, ThisCall
  <2>4. ThisCall(c)' = ThisCall(c)
    BY <2>2 DEF ThisCall
  <2>5. /\ got'[c] = got[c] /\ using'[c] = using[c]
        /\ stdin'[using[c]] = stdin[using[c]]
        /\ serving'[using[c]] = serving[using[c]]
        /\ frames'[using[c]] = frames[using[c]]
    BY <2>2
  <2>6. /\ \A i \in 1 .. Len(got[c]) : got[c][i] = Row(c, i)
        /\ Waits(c, using[c]) \/ Served(c, using[c]) \/ Finished(c, using[c])
    BY <2>1 DEF InFlightOK
  <2>7. \A i \in 1 .. Len(got'[c]) : got'[c][i] = Row(c, i)'
    BY <2>3, <2>5, <2>6
  <2>8. CASE Waits(c, using[c])
    BY <2>4, <2>5, <2>7, <2>8 DEF Waits
  <2>9. CASE Served(c, using[c])
    BY <2>3, <2>4, <2>5, <2>7, <2>9 DEF Served
  <2>10. CASE Finished(c, using[c])
    BY <2>3, <2>5, <2>7, <2>10 DEF Finished
  <2> QED
    BY <2>6, <2>8, <2>9, <2>10
<1>2. CASE c = d /\ WriteRequest(c)
  <2>1. Quiet(using[c]) /\ got[c] = <<>> /\ using[c] \in Sessions
    BY <1>2, WriterIsAlone, CallerTypes DEF WriteRequest, CallOK
  <2>2. stdin'[using[c]] = <<ThisCall(c)>>
    BY <1>2, <2>1 DEF WriteRequest, Quiet, TypeOK
  <2> QED
    BY <1>2, <2>1, <2>2 DEF WriteRequest, Quiet, Waits, ThisCall
<1>3. CASE c = d /\ ReceiveRow(c)
  BY <1>3, RowInFlight
<1>4. CASE c = d /\ ~WriteRequest(c) /\ ~ReceiveRow(c)
  BY <1>4
     DEF TypeOK, CallerStep, StartCall, ContinueCall, RefuseCancelled, NewCall,
         ReuseSession, SpawnSession, LockSession, WriteFails, ReceiveEnd,
         Disconnected, SeeCancelled, Timeout, EndCommand, EndCall
<1> QED
  BY <1>1, <1>2, <1>3, <1>4

-----------------------------------------------------------------------------
(* The children without a command, and the answers *)

\* A child without a request has nothing to say.
LEMMA ChildQuiet ==
    ASSUME TypeOK, QuietOK, NEW s \in Sessions, ChildStep(s)
    PROVE  QuietOK'
<1> SUFFICES ASSUME NEW t \in Sessions,
                    proc'[t] # "gone", Referenced(t)', Drained(t)', ~Doomed(t)'
             PROVE  Quiet(t)'
  BY DEF QuietOK
<1>1. Referenced(t) /\ Drained(t) /\ ~Doomed(t)
  BY ChildKeepsCallers DEF Referenced, Drained, Doomed
<1>2. proc[t] # "gone"
  BY DEF TypeOK, ChildStep, ServerStep, ReadRequest, EmitRow, EmitEnd, EmitFailure,
         Emit, WorkerSeesEof, Crash, Hang
<1>3. Quiet(t)
  BY <1>1, <1>2 DEF QuietOK
<1> QED
  BY <1>3 DEF Quiet, TypeOK, ChildStep, ServerStep, ReadRequest, EmitRow, EmitEnd,
              EmitFailure, Emit, WorkerSeesEof, Crash, Hang

\* When the terminal frame is taken it is the last there is.
LEMMA EndIsLast ==
    ASSUME TypeOK, MutexOK, InFlightOK, NEW c \in Callers, ReceiveEnd(c)
    PROVE  /\ Finished(c, using[c])
           /\ Len(frames[using[c]]) = 1
<1> DEFINE f == frames[using[c]]
<1>1. f \in Seq(Frame) /\ f # <<>> /\ Head(f).kind # "row" /\ Len(got[c]) \in Nat
  BY CallerTypes DEF TypeOK, ReceiveEnd
<1>2. Head(f) = f[1] /\ Len(f) \in Nat \ {0}
  BY <1>1, TailRows
<1>3. f[1].kind # "row"
  BY <1>1, <1>2
<1>4. \A i \in Nat : RowFrame(c, i).kind = "row"
  BY DEF RowFrame
<1>5. ~Served(c, using[c])
  BY <1>1, <1>2, <1>3, <1>4 DEF Served
<1>6. Finished(c, using[c])
  BY <1>1, <1>5 DEF InFlightOK, Waits, ReceiveEnd
<1>7. ~(1 \in 1 .. Len(f) - 1)
  BY <1>1, <1>3, <1>4, <1>6 DEF Finished
<1>8. \A n \in Nat \ {0} : ~(1 \in 1 .. n - 1) => n = 1
  OBVIOUS
<1>9. Len(f) = 1
  BY <1>2, <1>7, <1>8
<1> QED
  BY <1>6, <1>9

\* A command leaves its child drained or dead.
LEMMA CallerQuiet ==
    ASSUME TypeOK, MutexOK, QuietOK, InFlightOK, KillsOrAlone,
           NEW d \in Callers, CallerStep(d)
    PROVE  QuietOK'
<1> SUFFICES ASSUME NEW t \in Sessions,
                    proc'[t] # "gone", Referenced(t)', Drained(t)', ~Doomed(t)'
             PROVE  Quiet(t)'
  BY DEF QuietOK
<1> USE SessionAssumption DEF TypeOK, callerVars, childVars
<1>1. ASSUME /\ proc[t] # "gone" /\ Referenced(t) /\ Drained(t) /\ ~Doomed(t)
             /\ UNCHANGED <<stdin[t], serving[t], frames[t]>>
      PROVE  Quiet(t)'
  BY <1>1 DEF QuietOK, Quiet
<1>2. CASE RefuseCancelled(d)
  BY <1>1, <1>2 DEF RefuseCancelled, NewCall, Referenced, Drained, Doomed
<1>3. CASE ReuseSession(d)
  <2>1. /\ pc[d] = "idle" /\ using' = [using EXCEPT ![d] = pool]
        /\ pc' = [pc EXCEPT ![d] = "locking"]
        /\ outcome' = [outcome EXCEPT ![d] = "none"]
        /\ UNCHANGED <<pool, holder, proc, stdin, serving, frames>>
    BY <1>3 DEF ReuseSession, NewCall
  <2>2. Referenced(t)
    BY <2>1 DEF Referenced
  <2>3. Drained(t)
    BY <2>1 DEF Drained, MutexOK
  <2>4. ~Doomed(t)
    BY <2>1 DEF Doomed
  <2> QED
    BY <1>1, <2>1, <2>2, <2>3, <2>4
<1>4. CASE SpawnSession(d)
  <2>1. PICK s \in Sessions :
          /\ pool' = s /\ using' = [using EXCEPT ![d] = s]
          /\ proc' = [proc EXCEPT ![s] = "up"]
          /\ stdin' = [stdin EXCEPT ![s] = <<>>]
          /\ serving' = [serving EXCEPT ![s] = NotServing]
          /\ frames' = [frames EXCEPT ![s] = <<>>]
    BY <1>4 DEF SpawnSession
  <2>2. CASE t = s
    BY <2>1, <2>2 DEF Quiet
  <2>3. CASE t # s
    <3>1. /\ pc[d] = "idle" /\ pc' = [pc EXCEPT ![d] = "locking"]
          /\ outcome' = [outcome EXCEPT ![d] = "none"] /\ holder' = holder
      BY <1>4 DEF SpawnSession, NewCall
    <3>2. Referenced(t)
      BY <2>1, <2>3 DEF Referenced
    <3>3. Drained(t)
      BY <3>1 DEF Drained, MutexOK
    <3>4. ~Doomed(t)
      BY <2>1, <3>1 DEF Doomed
    <3>5. proc[t] # "gone" /\ UNCHANGED <<stdin[t], serving[t], frames[t]>>
      BY <2>1, <2>3
    <3> QED
      BY <1>1, <3>2, <3>3, <3>4, <3>5
  <2> QED
    BY <2>2, <2>3
<1>5. CASE LockSession(d)
  <2>1. /\ using[d] \in Sessions /\ holder[using[d]] = None
        /\ holder' = [holder EXCEPT ![using[d]] = d]
        /\ pc[d] = "locking" /\ pc' = [pc EXCEPT ![d] = "writing"]
    BY <1>5, CallerTypes DEF LockSession
  <2>2. Drained(t)
    <3> SUFFICES ASSUME NEW c \in Callers, holder[t] = c PROVE pc[c] = "writing"
      BY DEF Drained
    <3>1. c # d /\ t # using[d]
      BY <2>1 DEF MutexOK
    <3>2. holder'[t] = c
      BY <2>1, <3>1
    <3> QED
      BY <2>1, <3>1, <3>2 DEF Drained
  <2> QED
    BY <1>1, <1>5, <2>2 DEF LockSession, Referenced, Doomed
<1>6. CASE WriteRequest(d) \/ ReceiveRow(d)
  <2>1. /\ using[d] \in Sessions /\ holder[using[d]] = d
        /\ pc[d] \in {"writing", "draining"} /\ pc' = [pc EXCEPT ![d] = "draining"]
        /\ UNCHANGED <<pool, using, outcome, holder, proc>>
    BY <1>6, CallerTypes DEF WriteRequest, ReceiveRow, MutexOK
  <2>2. t # using[d]
    BY <2>1 DEF Drained
  <2>3. Drained(t)
    <3> SUFFICES ASSUME NEW c \in Callers, holder[t] = c PROVE pc[c] = "writing"
      BY DEF Drained
    <3>1. c # d
      BY <2>2 DEF MutexOK
    <3>2. pc'[c] = "writing"
      <4>1. holder'[t] = c
        BY <2>1
      <4> QED
        BY <4>1 DEF Drained
    <3> QED
      BY <2>1, <3>1, <3>2
  <2>4. UNCHANGED <<stdin[t], serving[t], frames[t]>>
    BY <1>6, <2>2 DEF WriteRequest, ReceiveRow
  <2>5. Referenced(t) /\ ~Doomed(t)
    BY <2>1 DEF Referenced, Doomed
  <2> QED
    BY <1>1, <2>1, <2>3, <2>4, <2>5
<1>7. CASE \/ WriteFails(d) \/ ReceiveEnd(d) \/ Disconnected(d)
           \/ SeeCancelled(d) \/ Timeout(d)
  <2>1. /\ using[d] \in Sessions
        /\ pc[d] \in {"writing", "draining"} /\ pc' = [pc EXCEPT ![d] = "ending"]
        /\ holder' = [holder EXCEPT ![using[d]] = None]
        /\ UNCHANGED <<pool, using, stdin, serving>>
        /\ \E result \in Outcomes : outcome' = [outcome EXCEPT ![d] = result]
    BY <1>7, CallerTypes
       DEF WriteFails, ReceiveEnd, Disconnected, SeeCancelled, Timeout, EndCommand,
           Outcomes
  <2>2. CASE t # using[d]
    <3>1. Referenced(t) /\ ~Doomed(t)
      BY <2>1, <2>2 DEF Referenced, Doomed
    <3>2. Drained(t)
      BY <2>1, <2>2 DEF Drained, MutexOK
    <3>3. proc[t] # "gone" /\ UNCHANGED <<stdin[t], serving[t], frames[t]>>
      BY <1>7, <2>1, <2>2
         DEF WriteFails, ReceiveEnd, Disconnected, SeeCancelled, Timeout, EndCommand,
             Kill
    <3> QED
      BY <1>1, <3>1, <3>2, <3>3
  <2>3. CASE t = using[d] /\ (WriteFails(d) \/ Disconnected(d))
    BY <2>3 DEF WriteFails, Disconnected
  <2>4. CASE t = using[d] /\ ReceiveEnd(d)
    <3>1. Tail(frames[t]) = <<>>
      BY <2>4, EndIsLast, OneLeft
    <3> QED
      BY <2>1, <2>4, <3>1, EndIsLast DEF ReceiveEnd, Finished, Quiet
  <2>5. CASE t = using[d] /\ (SeeCancelled(d) \/ Timeout(d))
    <3>1. outcome'[d] \in Retires /\ using'[d] = t /\ pc'[d] = "ending"
      BY <2>1, <2>5 DEF SeeCancelled, Timeout, EndCommand, Retires
    <3>2. ~Wrapped
      BY <3>1 DEF Doomed
    <3> QED
      BY <2>5, <3>2 DEF SeeCancelled, Timeout, Kill
  <2> QED
    BY <1>7, <2>2, <2>3, <2>4, <2>5
<1>8. CASE EndCall(d)
  <2>1. /\ pc[d] = "ending" /\ pc' = [pc EXCEPT ![d] = "idle"]
        /\ using' = [using EXCEPT ![d] = None]
        /\ pool' = IF outcome[d] \in Retires THEN None ELSE pool
        /\ UNCHANGED <<outcome, holder, stdin, serving, frames>>
    BY <1>8 DEF EndCall, LetGo
  <2>2. proc[t] # "gone"
    BY <1>8 DEF EndCall, LetGo
  <2>3. Referenced(t)
    BY <2>1 DEF Referenced
  <2>4. Drained(t)
    BY <2>1 DEF Drained, MutexOK
  <2>5. ~Doomed(t)
    <3> SUFFICES ASSUME NEW c \in Callers, Wrapped, using[c] = t, pc[c] = "ending",
                        outcome[c] \in Retires
                 PROVE  FALSE
      BY DEF Doomed
    <3>1. \A e \in Callers : e = d
      BY DEF KillsOrAlone
    <3>2. pool' = None /\ using'[d] = None
      BY <2>1, <3>1
    <3> QED
      BY <3>1, <3>2 DEF Referenced
  <2> QED
    BY <1>1, <2>1, <2>2, <2>3, <2>4, <2>5
<1> QED
  BY <1>2, <1>3, <1>4, <1>5, <1>6, <1>7, <1>8 DEF CallerStep, StartCall, ContinueCall

\* A command that ends well ends with its last frame.
LEMMA CallerAnswers ==
    ASSUME TypeOK, MutexOK, CallOK, InFlightOK, AnswersAreOwn,
           NEW d \in Callers, CallerStep(d)
    PROVE  AnswersAreOwn'
<1> SUFFICES ASSUME NEW c \in Callers, outcome'[c] = "ok"
             PROVE  got'[c] = [i \in 1 .. Rows |-> [call |-> ThisCall(c)', row |-> i]]
  BY DEF AnswersAreOwn
<1> USE DEF TypeOK, callerVars, childVars
<1>1. CASE c = d /\ ReceiveEnd(d)
  <2>1. /\ Finished(c, using[c]) /\ Len(frames[using[c]]) = 1
        /\ frames[using[c]] # <<>> /\ using[c] \in Sessions
    BY <1>1, EndIsLast, CallerTypes DEF ReceiveEnd
  <2>2. Head(frames[using[c]]).kind = "end"
    BY <1>1 DEF ReceiveEnd, EndCommand
  <2>3. frames[using[c]][1].kind = "end"
    BY <2>1, <2>2, TailRows
  <2>4. Len(got[c]) = Rows
    BY <2>1, <2>3, SessionAssumption DEF Finished
  <2>5. \A i \in 1 .. Len(got[c]) : got[c][i] = Row(c, i)
    BY <1>1 DEF InFlightOK, ReceiveEnd
  <2>6. got[c] = [i \in 1 .. Rows |-> [call |-> ThisCall(c), row |-> i]]
    BY <2>4, <2>5 DEF Row
  <2> QED
    BY <1>1, <2>6 DEF ReceiveEnd, EndCommand, ThisCall
<1>2. CASE ~(c = d /\ ReceiveEnd(d))
  <2>1. /\ outcome[c] = "ok" /\ calls'[c] = calls[c] /\ got'[c] = got[c]
    BY <1>2
       DEF CallerStep, StartCall, ContinueCall, RefuseCancelled, NewCall,
           ReuseSession, SpawnSession, LockSession, WriteRequest, WriteFails,
           ReceiveRow, ReceiveEnd, Disconnected, SeeCancelled, Timeout,
           EndCommand, EndCall, CallOK
  <2> QED
    BY <2>1 DEF AnswersAreOwn, ThisCall
<1> QED
  BY <1>1, <1>2

-----------------------------------------------------------------------------
(* Every step *)

\* A step is the cancel flag's, a caller's or a child's.
LEMMA NextSteps ==
    Next => \/ Cancel
            \/ \E c \in Callers : CallerStep(c)
            \/ \E s \in Sessions : ChildStep(s)
BY DEF Next, CallerStep, ChildStep

\* A step that changes at most the cancel flag.
LEMMA CancelIInv ==
    ASSUME IInv, Cancel \/ UNCHANGED vars
    PROVE  IInv'
<1>1. /\ UNCHANGED <<pool, pc, calls, using, got, outcome, holder, proc, stdin,
                     serving, frames, faults>>
      /\ cancelled' \in BOOLEAN
  BY DEF IInv, TypeOK, Cancel, vars, callerVars, childVars
<1>2. TypeOK'
  BY <1>1 DEF IInv, TypeOK
<1>3. MutexOK' /\ CallOK' /\ OrphansDie' /\ AnswersAreOwn'
  BY <1>1 DEF IInv, MutexOK, CallOK, OrphansDie, Referenced, AnswersAreOwn, ThisCall
<1>4. QuietOK'
  BY <1>1 DEF IInv, QuietOK, Referenced, Drained, Doomed, Quiet
<1>5. InFlightOK'
  BY <1>1 DEF IInv, InFlightOK, Waits, Served, Finished, Row, RowFrame, ThisCall
<1> QED
  BY <1>2, <1>3, <1>4, <1>5 DEF IInv

\* What needs no assumption on wrapping.
LEMMA TypeStep == TypeOK /\ MutexOK /\ [Next]_vars => TypeOK' /\ MutexOK'
<1> SUFFICES ASSUME TypeOK, MutexOK, [Next]_vars PROVE TypeOK' /\ MutexOK'
  OBVIOUS
<1>1. CASE Cancel \/ UNCHANGED vars
  <2>1. /\ UNCHANGED <<pool, pc, calls, using, got, outcome, holder, proc, stdin,
                       serving, frames, faults>>
        /\ cancelled' \in BOOLEAN
    BY <1>1 DEF TypeOK, Cancel, vars, callerVars, childVars
  <2> QED
    BY <2>1 DEF TypeOK, MutexOK
<1>2. CASE \E c \in Callers : CallerStep(c)
  BY <1>2, CallerTypeOK, CallerMutexOK
<1>3. CASE \E s \in Sessions : ChildStep(s)
  BY <1>3, ChildTypeOK, ChildKeepsCallers DEF MutexOK
<1> QED
  BY <1>1, <1>2, <1>3, NextSteps

\* The invariant is inductive, when a kill reaches the worker or a caller is alone.
LEMMA Step == KillsOrAlone /\ IInv /\ [Next]_vars => IInv'
<1> SUFFICES ASSUME KillsOrAlone, IInv, [Next]_vars PROVE IInv'
  OBVIOUS
<1>1. CASE Cancel \/ UNCHANGED vars
  BY <1>1, CancelIInv
<1>2. CASE \E c \in Callers : CallerStep(c)
  <2>1. PICK c \in Callers : CallerStep(c)
    BY <1>2
  <2>2. TypeOK' /\ MutexOK' /\ CallOK' /\ OrphansDie'
    BY <2>1, CallerTypeOK, CallerMutexOK, CallerCallOK, CallerOrphansDie DEF IInv
  <2>3. QuietOK' /\ InFlightOK' /\ AnswersAreOwn'
    BY <2>1, CallerQuiet, CallerInFlight, CallerAnswers DEF IInv
  <2> QED
    BY <2>2, <2>3 DEF IInv
<1>3. CASE \E s \in Sessions : ChildStep(s)
  <2>1. PICK s \in Sessions : ChildStep(s)
    BY <1>3
  <2>2. MutexOK' /\ CallOK' /\ AnswersAreOwn'
    BY <2>1, ChildKeepsCallers DEF IInv, MutexOK, CallOK, AnswersAreOwn, ThisCall
  <2>3. TypeOK' /\ OrphansDie' /\ QuietOK' /\ InFlightOK'
    BY <2>1, ChildTypeOK, ChildOrphansDie, ChildQuiet, ChildInFlight DEF IInv
  <2> QED
    BY <2>2, <2>3 DEF IInv
<1> QED
  BY <1>1, <1>2, <1>3, NextSteps

-----------------------------------------------------------------------------
(* The theorems *)

\* Every variable of the engine, its callers and its children keeps its range,
\* and a caller has the session's mutex exactly while it writes and drains:
\* no two threads are ever in one child's pipes.
THEOREM TypeCorrect == Spec => [](TypeOK /\ MutexOK)
<1>1. Init => TypeOK /\ MutexOK
  BY InitIInv DEF IInv
<1>2. TypeOK /\ MutexOK /\ [Next]_vars => TypeOK' /\ MutexOK'
  BY TypeStep
<1> QED
  BY <1>1, <1>2, PTL DEF Spec

\* What drive_command, the reader thread and the server loop keep between them:
\* at every moment each child holds exactly the rest of its one command's answer.
THEOREM Invariance == ASSUME KillsOrAlone PROVE Spec => []IInv
<1>1. Init => IInv
  BY InitIInv
<1>2. IInv /\ [Next]_vars => IInv'
  BY Step
<1> QED
  BY <1>1, <1>2, PTL DEF Spec

\* A command that collect_rows and its like finish with success returned every
\* row of its own request, in order, and no row of another one.
THEOREM AnswersOfOwnCall == ASSUME KillsOrAlone PROVE Spec => []AnswersAreOwn
<1>1. IInv => AnswersAreOwn
  BY DEF IInv
<1> QED
  BY <1>1, Invariance, PTL

\* A session that waits for a command, in the map or in the hands of a caller
\* that is about to write one, has nothing left of any earlier command.  That
\* holds for the `lake env` children of a Lake package and one caller, as the
\* commands use the engine, and for any number of callers of bare workers.
THEOREM PooledSessionsAreQuiet == ASSUME KillsOrAlone PROVE Spec => []PooledSessionIsQuiet
<1>1. IInv => PooledSessionIsQuiet
  <2> SUFFICES ASSUME IInv, NEW s \in Sessions, proc[s] = "up", WaitsForCommand(s)
               PROVE  Quiet(s)
    BY DEF PooledSessionIsQuiet, Quiet
  <2>1. CASE pool = s /\ holder[s] = None /\ ~BeingRetired(s)
    <3>1. Referenced(s) /\ ~Doomed(s)
      BY <2>1 DEF Referenced, Doomed, BeingRetired
    <3>2. Drained(s)
      BY <2>1, SessionAssumption DEF Drained
    <3> QED
      BY <3>1, <3>2 DEF IInv, QuietOK
  <2>2. CASE \E c \in Callers : using[c] = s /\ pc[c] = "writing"
    BY <2>2, WriterIsAlone DEF IInv
  <2> QED
    BY <2>1, <2>2 DEF WaitsForCommand
<1> QED
  BY <1>1, Invariance, PTL

-----------------------------------------------------------------------------
(* The engine implements the service *)

Asking == [c \in Callers |-> pc[c] # "idle"]
Answer == [c \in Callers |-> IF Returned(c) THEN got[c] ELSE None]

\* At first nobody asks.
LEMMA InitService == Init => Service!Init
BY DEF Init, Service!Init, Returned

\* A step of the callers that neither begins nor ends a call.
LEMMA SameForService ==
    ASSUME UNCHANGED calls,
           \A c \in Callers : /\ pc'[c] = "idle" <=> pc[c] = "idle"
                              /\ Returned(c)' = Returned(c)
                              /\ Returned(c) => got'[c] = got[c]
    PROVE  UNCHANGED Service!serviceVars
<1>1. Asking' = Asking
  BY DEF Asking
<1>2. Answer' = Answer
  BY DEF Answer
<1> QED
  BY <1>1, <1>2 DEF Service!serviceVars, Asking, Answer

\* Each step of a caller is one of the service, or invisible to it.
LEMMA CallerService ==
    ASSUME IInv, NEW c \in Callers, CallerStep(c)
    PROVE  Service!Next \/ UNCHANGED Service!serviceVars
<1> USE DEF IInv, TypeOK
<1>1. CASE RefuseCancelled(c)
  <2>1. Asking' = Asking /\ ~Asking[c] /\ Answer' = [Answer EXCEPT ![c] = None]
    BY <1>1 DEF RefuseCancelled, NewCall, Asking, Answer, Returned
  <2>2. Service!Refuse(c)
    BY <1>1, <2>1 DEF RefuseCancelled, NewCall, Service!Refuse, Asking, Answer
  <2> QED
    BY <2>2 DEF Service!Next
<1>2. CASE ReuseSession(c) \/ SpawnSession(c)
  <2>1. /\ Asking' = [Asking EXCEPT ![c] = TRUE] /\ ~Asking[c]
        /\ Answer' = [Answer EXCEPT ![c] = None]
    <3>1. /\ pc[c] = "idle" /\ pc' = [pc EXCEPT ![c] = "locking"]
          /\ got' = [got EXCEPT ![c] = <<>>]
          /\ outcome' = [outcome EXCEPT ![c] = "none"]
      BY <1>2 DEF ReuseSession, SpawnSession, NewCall
    <3>2. Asking' = [Asking EXCEPT ![c] = TRUE] /\ ~Asking[c]
      BY <3>1 DEF Asking
    <3>3. Answer' = [Answer EXCEPT ![c] = None]
      BY <3>1 DEF Answer, Returned
    <3> QED
      BY <3>2, <3>3
  <2>2. Service!Ask(c)
    BY <1>2, <2>1 DEF ReuseSession, SpawnSession, NewCall, Service!Ask, Asking, Answer
  <2> QED
    BY <2>2 DEF Service!Next
<1>3. CASE EndCall(c)
  <2>1. /\ pc[c] = "ending" /\ pc' = [pc EXCEPT ![c] = "idle"]
        /\ UNCHANGED <<calls, got, outcome>>
    BY <1>3 DEF EndCall
  <2>2. Asking' = [Asking EXCEPT ![c] = FALSE] /\ Asking[c]
    BY <2>1 DEF Asking
  <2>3. CASE outcome[c] = "ok"
    <3>1. got[c] = [i \in 1 .. Rows |-> [call |-> <<c, calls[c]>>, row |-> i]]
      BY <2>3 DEF AnswersAreOwn, ThisCall
    <3>2. Answer' = [Answer EXCEPT ![c] = got[c]]
      BY <2>1, <2>3 DEF Answer, Returned
    <3>3. Service!Return(c)
      BY <2>1, <2>2, <3>1, <3>2 DEF Service!Return, Service!Complete, Asking, Answer
    <3> QED
      BY <3>3 DEF Service!Next
  <2>4. CASE outcome[c] # "ok"
    <3>1. Answer' = Answer
      BY <2>1, <2>4 DEF Answer, Returned
    <3>2. Service!Error(c)
      BY <2>1, <2>2, <3>1 DEF Service!Error, Asking, Answer
    <3> QED
      BY <3>2 DEF Service!Next
  <2> QED
    BY <2>3, <2>4
<1>4. CASE \/ LockSession(c) \/ WriteRequest(c) \/ WriteFails(c) \/ ReceiveRow(c)
           \/ ReceiveEnd(c) \/ Disconnected(c) \/ SeeCancelled(c) \/ Timeout(c)
  <2>1. /\ calls' = calls /\ pc[c] # "idle" /\ pc'[c] # "idle"
        /\ \A d \in Callers \ {c} :
             pc'[d] = pc[d] /\ outcome'[d] = outcome[d] /\ got'[d] = got[d]
    BY <1>4
       DEF LockSession, WriteRequest, WriteFails, ReceiveRow, ReceiveEnd,
           Disconnected, SeeCancelled, Timeout, EndCommand
  <2> QED
    BY <2>1, SameForService DEF Returned
<1> QED
  BY <1>1, <1>2, <1>3, <1>4 DEF CallerStep, StartCall, ContinueCall

\* The subprocess engine is, for the threads that call it, the service of
\* WorkerService: each call ends with its own complete answer or with an error.
THEOREM EngineIsService == ASSUME KillsOrAlone PROVE Spec => Service!Spec
<1>1. Init => Service!Init
  BY InitService
<1>2. IInv /\ [Next]_vars => [Service!Next]_(Service!serviceVars)
  <2> SUFFICES ASSUME IInv, [Next]_vars
               PROVE  Service!Next \/ UNCHANGED Service!serviceVars
    OBVIOUS
  <2>1. CASE \E c \in Callers : CallerStep(c)
    BY <2>1, CallerService
  <2>2. CASE Cancel \/ UNCHANGED vars \/ \E s \in Sessions : ChildStep(s)
    <3>1. UNCHANGED <<pc, calls, got, outcome>>
      BY <2>2, ChildKeepsCallers DEF Cancel, vars, callerVars
    <3> QED
      BY <3>1, SameForService DEF Returned
  <2> QED
    BY <2>1, <2>2, NextSteps
<1> QED
  BY <1>1, <1>2, Invariance, PTL DEF Spec, Service!Spec

=============================================================================
