--------------------------- MODULE ExecutionProofs ---------------------------
(***************************************************************************)
(* Proofs about the execution of tool calls: ToolBatch for every number of *)
(* calls, every set of inputs and hooks and any files, and McpClient for   *)
(* every set of callers and servers.                                       *)
(***************************************************************************)
EXTENDS ToolBatch, McpClient, FiniteSetTheorems, WellFoundedInduction, TLAPS


(***************************************************************************)
(* ToolBatch.                                                              *)
(***************************************************************************)

\* What an input names are files.
NamesFiles(in) == \A k \in DOMAIN in.names : in.names[k] \in Paths

\* Inputs are the model's or a hook's; the kinds are settled in the order of
\* the calls.
BatchTypes ==
    /\ pc \in {"prepare", "batches", "returned"} /\ n \in 0 .. N
    /\ kind \in [Calls -> {"none", "safe", "serial", "bad"}]
    /\ step \in [Calls -> Steps]
    /\ DOMAIN input = Calls /\ DOMAIN updated = Calls
    /\ \A i \in Calls : NamesFiles(input[i]) /\ (updated[i] # NoInput => NamesFiles(updated[i]))
    /\ DOMAIN file = Paths
    /\ \A i \in Calls : kind[i] = "none" <=> i > n

\* The tool of a call has changed its file and the call is not yet recorded.
Unrecorded(i) == step[i] \in {"fill", "called"}

\* ... or is recorded under another name.
RecordedElsewhere(i) == step[i] = "done" /\ Misnamed(input[i])

\* A file that is not what it was is attributed, or is about to be, or the call
\* that changed it names another file too; a call that has reached its tool keeps
\* its input.
FilesInv ==
    \A p \in Paths : file[p] # Files[p] =>
        \/ p \in attribution
        \/ \E i \in Calls : (Unrecorded(i) \/ RecordedElsewhere(i)) /\ ToolPath(input[i]) = p

BatchIInv ==
    /\ BatchTypes /\ FilesInv
    /\ pc = "returned" => \A i \in Calls : step[i] \in Ended

\* No call has touched a file at first.
LEMMA InitBatchIInv == Init => BatchIInv
<1> SUFFICES ASSUME Init PROVE BatchIInv
  OBVIOUS
<1> USE BatchAssumption DEF Init
<1>1. BatchTypes
  <2>1. \A i \in Calls : input[i] \in Inputs /\ updated[i] = NoInput
    OBVIOUS
  <2>2. n \in 0 .. N /\ \A i \in Calls : i > n
    BY DEF Calls
  <2>3. QED
    BY <2>1, <2>2 DEF BatchTypes, Steps, Paths, NamesFiles
<1>2. FilesInv
  BY DEF FilesInv
<1>3. QED
  BY <1>1, <1>2 DEF BatchIInv

\* Every step keeps the invariant: the tools change a file before their call is
\* recorded, and the record names the file that the call used.
LEMMA NextBatchIInv == BatchIInv /\ [Next]_vars => BatchIInv'
<1> SUFFICES ASSUME BatchIInv, [Next]_vars PROVE BatchIInv'
  OBVIOUS
<1> USE BatchAssumption DEF BatchIInv, BatchTypes, FilesInv, Unrecorded, RecordedElsewhere, Steps, Ended
<1>1. ASSUME NEW k \in {"safe", "serial", "bad"}, Prepare(k) PROVE BatchIInv'
  <2>1. n' \in Calls /\ n' = n + 1 /\ n' \in 0 .. N
    BY <1>1 DEF Prepare, Calls
  <2>2. \A i \in Calls : kind'[i] = "none" <=> i > n'
    BY <1>1, <2>1 DEF Prepare, Calls
  <2>3. QED
    BY <1>1, <2>1, <2>2 DEF Prepare, outcome, disk, hooks
<1>2. CASE BuildBatches
  BY <1>2 DEF BuildBatches, prepared, hooks, outcome, disk
<1>3. CASE Return
  BY <1>3 DEF Return, prepared, hooks, outcome, disk
<1>4. CASE Cancel
  BY <1>4 DEF Cancel, prepared, hooks, outcome, disk
<1>5. ASSUME NEW i \in Calls, PassOver(i) PROVE BatchIInv'
  BY <1>5 DEF PassOver, prepared, hooks, outcome, disk
<1>6. ASSUME NEW i \in Calls, Begin(i) PROVE BatchIInv'
  BY <1>6 DEF Begin, prepared, outcome, disk
<1>7. ASSUME NEW i \in Calls, SeeCancel(i) PROVE BatchIInv'
  BY <1>7 DEF SeeCancel, prepared, hooks, disk
<1>8. ASSUME NEW i \in Calls, NEW h \in DOMAIN Hooks, HookEnds(i, h) PROVE BatchIInv'
  <2>1. PICK u \in Answers(h) : updated' = [updated EXCEPT ![i] = Merge(@, u)]
    BY <1>8 DEF HookEnds
  <2>2. u # NoInput => NamesFiles(u)
    BY <2>1 DEF Answers, Paths, NamesFiles
  <2>3. DOMAIN updated' = Calls /\ \A j \in Calls : updated'[j] # NoInput => NamesFiles(updated'[j])
    BY <2>1, <2>2 DEF Merge
  <2>4. QED
    BY <1>8, <2>3 DEF HookEnds, prepared, outcome, disk
<1>9. ASSUME NEW i \in Calls, UseInput(i) PROVE BatchIInv'
  <2>1. \A j \in Calls : \/ j = i /\ ~Unrecorded(j) /\ ~RecordedElsewhere(j)
                         \/ j # i /\ step'[j] = step[j] /\ input'[j] = input[j]
    BY <1>9 DEF UseInput
  <2>2. FilesInv'
    BY <1>9, <2>1 DEF UseInput, outcome, disk
  <2>3. QED
    BY <1>9, <2>2 DEF UseInput, prepared, outcome, disk
<1>10. ASSUME NEW i \in Calls, EditReads(i) PROVE BatchIInv'
  <2>1. /\ file' = file /\ isError' \in {isError, [isError EXCEPT ![i] = TRUE]}
        /\ step' \in {[step EXCEPT ![i] = "called"], [step EXCEPT ![i] = "truncate"]}
    BY <1>10 DEF EditReads, ToolFails, DiskFails
  <2>2. QED
    BY <1>10, <2>1 DEF EditReads, prepared, hooks
<1>11. ASSUME NEW i \in Calls, WriteBegins(i) PROVE BatchIInv'
  <2>1. /\ file' = file /\ isError' \in {isError, [isError EXCEPT ![i] = TRUE]}
        /\ step' \in {[step EXCEPT ![i] = "called"], [step EXCEPT ![i] = "truncate"]}
    BY <1>11 DEF WriteBegins, ToolFails
  <2>2. QED
    BY <1>11, <2>1 DEF WriteBegins, prepared, hooks
<1>12. ASSUME NEW i \in Calls, Truncate(i) PROVE BatchIInv'
  <2>1. \/ file' = file
        \/ /\ file' = [file EXCEPT ![ToolPath(input[i])] = FileOf(<<>>)]
           /\ step' = [step EXCEPT ![i] = "fill"]
    BY <1>12 DEF Truncate, ToolFails, DiskFails
  <2>2. step' \in {[step EXCEPT ![i] = "called"], [step EXCEPT ![i] = "fill"]}
    BY <1>12 DEF Truncate, ToolFails, DiskFails
  <2>3. FilesInv'
    BY <1>12, <2>1, <2>2 DEF Truncate
  <2>4. QED
    BY <1>12, <2>1, <2>2, <2>3 DEF Truncate, prepared, hooks
<1>13. ASSUME NEW i \in Calls, Fill(i) PROVE BatchIInv'
  BY <1>13 DEF Fill, prepared, hooks
<1>14. ASSUME NEW i \in Calls, Finish(i) PROVE BatchIInv'
  <2>1. /\ attribution' = attribution \union ({ShownPath(input[i])} \ {NoPath})
        /\ file' = file /\ input' = input /\ step' = [step EXCEPT ![i] = "done"]
    BY <1>14 DEF Finish, Recorded, disk
  <2>2. ASSUME NEW p \in Paths, ToolPath(input[i]) = p
        PROVE  p \in attribution' \/ RecordedElsewhere(i)'
    BY <2>1, <2>2 DEF Misnamed, Paths
  <2>3. FilesInv'
    BY <1>14, <2>1, <2>2
  <2>4. QED
    BY <1>14, <2>1, <2>3 DEF Finish, prepared, hooks
<1>15. CASE UNCHANGED vars
  BY <1>15 DEF vars, prepared, hooks, outcome, disk
<1>16. QED
  BY <1>1, <1>2, <1>3, <1>4, <1>5, <1>6, <1>7, <1>8, <1>9, <1>10, <1>11, <1>12, <1>13,
     <1>14, <1>15
  DEF Next, Execute, Rest

\* The inductive invariant holds of every behaviour of ExecuteTools.
THEOREM BatchInvariance == Spec => []BatchIInv
BY InitBatchIInv, NextBatchIInv, PTL DEF Spec

\* When the calls have ended, every file that one of them has changed, or left
\* empty, is attributed to the agent, whatever its hooks chose for it, unless the
\* input names another file under a key that the record prefers.
THEOREM EveryChangeIsAttributed == Spec => []ChangesAreAttributed
<1>1. BatchIInv => ChangesAreAttributed
  BY DEF BatchIInv, FilesInv, Unrecorded, RecordedElsewhere, Ended, ChangesAreAttributed
<1>2. QED
  BY <1>1, BatchInvariance, PTL

-----------------------------------------------------------------------------
(* The contract of ordered calls.                                          *)

\* Every set of numbers that is not empty has a least one.
LEMMA LeastNumber ==
    ASSUME NEW T \in SUBSET Nat, T # {}
    PROVE  \E m \in T : \A k \in T : m <= k
<1> DEFINE R == OpToRel(<, Nat)
<1>1. \A x, y \in Nat : x < y => <<x, y>> \in R
  BY DEF OpToRel
<1>2. IsWellFoundedOn(R, Nat)
  BY NatLessThanWellFounded
<1> HIDE DEF R
<1>3. PICK m \in T : \A k \in T : ~(<<k, m>> \in R)
  BY <1>2, WFMin
<1>4. ASSUME NEW k \in T PROVE m <= k
  <2>1. k \in Nat /\ m \in Nat
    OBVIOUS
  <2>2. ~(k < m)
    BY <1>1, <1>3, <2>1
  <2>3. QED
    BY <2>1, <2>2
<1>5. QED
  BY <1>4

\* Min, of FiniteSetsExt, on numbers.
LEMMA MinIsLeast ==
    ASSUME NEW T \in SUBSET Nat, T # {}
    PROVE  Min(T) \in T /\ \A k \in T : Min(T) <= k
BY LeastNumber DEF Min

\* A call is executed with itself, and after every call in front of its batch.
LEMMA BatchIs ==
    ASSUME NEW i \in Calls
    PROVE  /\ Batch(i) \in SUBSET Calls /\ i \in Batch(i)
           /\ \A j \in Calls : j < i /\ (kind[i] # "safe" \/ kind[j] # "safe") => j < Min(Batch(i))
           /\ Slots(i) \in Nat /\ Slots(i) <= MaxParallel
<1> USE BatchAssumption
<1>0. Calls \subseteq Nat /\ IsFiniteSet(Calls)
  <2>1. IsFiniteSet(1 .. N)
    BY FS_Interval, 1 \in Int, N \in Int
  <2>2. QED
    BY <2>1 DEF Calls
<1>1. Batch(i) \in SUBSET Calls
  BY DEF Batch
<1>2. i \in Batch(i)
  <2>1. CASE kind[i] = "safe"
    <3>1. \A k \in (i .. i) \union (i .. i) : k = i
      BY <1>0
    <3>2. QED
      BY <2>1, <3>1 DEF Batch
  <2>2. QED
    BY <2>1 DEF Batch
<1>3. Min(Batch(i)) \in Batch(i)
  BY <1>0, <1>1, <1>2, MinIsLeast
<1>4. ASSUME NEW j \in Calls, j < i, kind[i] # "safe" \/ kind[j] # "safe"
      PROVE  j < Min(Batch(i))
  <2>1. CASE kind[i] # "safe"
    <3>1. Batch(i) = {i}
      BY <2>1 DEF Batch
    <3>2. Min(Batch(i)) = i
      BY <1>3, <3>1
    <3>3. QED
      BY <1>4, <3>2
  <2>2. CASE kind[i] = "safe" /\ kind[j] # "safe"
    <3> DEFINE m == Min(Batch(i))
    <3>1. m \in Nat /\ j \in Nat /\ i \in Nat
      BY <1>0, <1>1, <1>3
    <3>2. \A k \in (i .. m) \union (m .. i) : kind[k] = "safe"
      BY <1>3, <2>2 DEF Batch
    <3> HIDE DEF m
    <3>3. ~(m <= j)
      BY <1>4, <2>2, <3>1, <3>2
    <3>4. QED
      BY <3>1, <3>3 DEF m
  <2>3. QED
    BY <1>4, <2>1, <2>2
<1>5. Slots(i) \in Nat /\ Slots(i) <= MaxParallel
  <2> DEFINE both == {MaxParallel, Cardinality(Batch(i))}
  <2>1. Cardinality(Batch(i)) \in Nat
    BY <1>0, <1>1, FS_Subset, FS_CardinalityType
  <2>2. both \in SUBSET Nat /\ both # {} /\ MaxParallel \in both
    BY <2>1
  <2> HIDE DEF both
  <2>3. Min(both) \in Nat /\ Min(both) <= MaxParallel
    BY <2>2, MinIsLeast
  <2>4. QED
    BY <2>3 DEF both, Slots
<1>6. QED
  BY <1>1, <1>2, <1>4, <1>5

\* A call whose batch is being executed may start or be passed over.
LEMMA BatchMayStart ==
    ASSUME BatchIInv, NEW i \in Calls, MayBegin(i)
    PROVE  Contract!MayStart(i)
<1> SUFFICES ASSUME NEW j \in Calls, j < i, kind[i] # "safe" \/ kind[j] # "safe"
             PROVE  CallState(j) = "done"
  BY DEF Contract!MayStart, Contract!Ordered
<1>1. j < Min(Batch(i))
  BY BatchIs
<1>2. step[j] \in Ended
  BY <1>1 DEF MayBegin
<1>3. QED
  BY <1>2 DEF Ended, CallState

CallStates == [i \in Calls |-> CallState(i)]

\* Initial states map to initial states.
LEMMA InitBatchContract == Init => Contract!Init
BY DEF Init, Contract!Init, CallState

\* Every step maps to a step of the contract or to none.
LEMMA NextBatchContract == BatchIInv /\ [Next]_vars => [Contract!Next]_(Contract!vars)
<1> SUFFICES ASSUME BatchIInv, [Next]_vars PROVE [Contract!Next]_(Contract!vars)
  OBVIOUS
<1> USE BatchAssumption
<1> DEFINE AbstractStep == [Contract!Next]_(Contract!vars)
<1>0. step \in [Calls -> Steps] /\ n \in 0 .. N /\ \A i \in Calls : kind[i] = "none" <=> i > n
  BY DEF BatchIInv, BatchTypes
<1>1. ASSUME kind' = kind, \A i \in Calls : CallState(i)' = CallState(i) PROVE AbstractStep
  BY <1>1 DEF Contract!vars
<1>2. ASSUME NEW k \in {"safe", "serial", "bad"}, Prepare(k) PROVE AbstractStep
  <2>1. n' \in Calls /\ n' = n + 1
    BY <1>0, <1>2 DEF Prepare, Calls
  <2>2. kind[n'] = "none" /\ \A j \in Calls : j < n' => kind[j] # "none"
    BY <1>0, <2>1 DEF Calls
  <2>3. kind' = [kind EXCEPT ![n'] = k] /\ step' = step
    BY <1>2 DEF Prepare
  <2>4. CallStates' = CallStates
    BY <2>3 DEF CallStates, CallState
  <2>5. Contract!Submit(n', k)
    BY <2>2, <2>3, <2>4 DEF Contract!Submit, CallStates
  <2>6. QED
    BY <2>1, <2>5 DEF Contract!Next, Contract!Kinds
<1>3. CASE BuildBatches \/ Return \/ Cancel \/ Rest
  BY <1>1, <1>3 DEF BuildBatches, Return, Cancel, Rest, vars, prepared, CallState
<1>4. ASSUME NEW i \in Calls, NEW s \in Steps, step' = [step EXCEPT ![i] = s], kind' = kind,
             CallState(i) = "running", s \notin Ended \union {"idle"}
      PROVE  AbstractStep
  <2>1. \A j \in Calls : CallState(j)' = CallState(j)
    BY <1>0, <1>4 DEF CallState, Ended
  <2>2. QED
    BY <1>1, <1>4, <2>1
<1>5. ASSUME NEW i \in Calls, NEW s \in Ended, step' = [step EXCEPT ![i] = s], kind' = kind,
             step[i] = "idle", kind[i] \in {"safe", "bad"}, MayBegin(i)
      PROVE  AbstractStep
  <2>1. CallStates' = [CallStates EXCEPT ![i] = "done"] /\ CallStates[i] = "idle"
    BY <1>0, <1>5 DEF CallStates, CallState, Ended
  <2>2. Contract!MayStart(i)
    BY <1>5, BatchMayStart
  <2>3. Contract!Skip(i)
    BY <1>5, <2>1, <2>2 DEF Contract!Skip, CallStates
  <2>4. QED
    BY <2>3 DEF Contract!Next
<1>6. ASSUME NEW i \in Calls, PassOver(i) PROVE AbstractStep
  BY <1>5, <1>6 DEF PassOver, prepared, Ended
<1>7. ASSUME NEW i \in Calls, SeeCancel(i) PROVE AbstractStep
  BY <1>5, <1>7 DEF SeeCancel, prepared, Ended
<1>8. ASSUME NEW i \in Calls, Begin(i) PROVE AbstractStep
  <2>1. step' = [step EXCEPT ![i] = "hooks"] /\ kind' = kind
    BY <1>8 DEF Begin, prepared
  <2>2. CallStates' = [CallStates EXCEPT ![i] = "running"] /\ CallStates[i] = "idle"
    BY <1>0, <1>8, <2>1 DEF Begin, CallStates, CallState
  <2>3. Contract!MayStart(i)
    BY <1>8, BatchMayStart DEF Begin
  <2>4. Cardinality(Running) < MaxParallel
    <3>1. Running \in SUBSET Calls /\ IsFiniteSet(Calls)
      BY FS_Interval, 1 \in Int, N \in Int DEF Running, Calls
    <3>2. Cardinality(Running) \in Nat
      BY <3>1, FS_Subset, FS_CardinalityType
    <3>3. Cardinality(Running) < Slots(i) /\ Slots(i) <= MaxParallel /\ Slots(i) \in Int
      BY <1>8, BatchIs DEF Begin
    <3>4. QED
      BY <3>2, <3>3
  <2>5. Contract!Running = Running
    BY <1>0 DEF Contract!Running, Running, CallState, Ended
  <2>6. Contract!Cardinality(Contract!Running) < MaxParallel
    BY <2>4, <2>5 DEF Cardinality, Contract!Cardinality
  <2>7. Contract!Start(i)
    BY <1>8, <2>1, <2>2, <2>3, <2>6 DEF Contract!Start, Begin, CallStates
  <2>8. QED
    BY <2>7 DEF Contract!Next
<1>9. ASSUME NEW i \in Calls, Finish(i) PROVE AbstractStep
  <2>1. step' = [step EXCEPT ![i] = "done"] /\ kind' = kind /\ step[i] = "called"
    BY <1>9 DEF Finish, prepared
  <2>2. CallStates' = [CallStates EXCEPT ![i] = "done"] /\ CallStates[i] = "running"
    BY <1>0, <2>1 DEF CallStates, CallState
  <2>3. Contract!Finish(i)
    BY <2>1, <2>2 DEF Contract!Finish, CallStates
  <2>4. QED
    BY <2>3 DEF Contract!Next
<1>10. ASSUME NEW i \in Calls, NEW h \in DOMAIN Hooks, HookEnds(i, h) PROVE AbstractStep
  BY <1>1, <1>10 DEF HookEnds, prepared, CallState
<1>11. ASSUME NEW i \in Calls, UseInput(i) PROVE AbstractStep
  BY <1>4, <1>11 DEF UseInput, prepared, CallState, Steps, Ended
<1>12. ASSUME NEW i \in Calls, EditReads(i) PROVE AbstractStep
  <2>1. step' = [step EXCEPT ![i] = "called"] \/ step' = [step EXCEPT ![i] = "truncate"]
    BY <1>12 DEF EditReads, ToolFails, DiskFails
  <2>2. QED
    BY <1>4, <1>12, <2>1 DEF EditReads, prepared, CallState, Steps, Ended
<1>13. ASSUME NEW i \in Calls, WriteBegins(i) PROVE AbstractStep
  <2>1. step' = [step EXCEPT ![i] = "called"] \/ step' = [step EXCEPT ![i] = "truncate"]
    BY <1>13 DEF WriteBegins, ToolFails
  <2>2. QED
    BY <1>4, <1>13, <2>1 DEF WriteBegins, prepared, CallState, Steps, Ended
<1>14. ASSUME NEW i \in Calls, Truncate(i) PROVE AbstractStep
  <2>1. step' = [step EXCEPT ![i] = "called"] \/ step' = [step EXCEPT ![i] = "fill"]
    BY <1>14 DEF Truncate, ToolFails, DiskFails
  <2>2. QED
    BY <1>4, <1>14, <2>1 DEF Truncate, prepared, CallState, Steps, Ended
<1>15. ASSUME NEW i \in Calls, Fill(i) PROVE AbstractStep
  BY <1>4, <1>15 DEF Fill, prepared, CallState, Steps, Ended
<1>16. CASE UNCHANGED vars
  BY <1>1, <1>16 DEF vars, prepared, CallState
<1>17. QED
  BY <1>2, <1>3, <1>6, <1>7, <1>8, <1>9, <1>10, <1>11, <1>12, <1>13, <1>14, <1>15, <1>16
  DEF Next, Execute

\* ExecuteTools keeps the contract that the streaming scheduler keeps with other
\* code: serial and refused calls wait for all before them and are waited for,
\* at most MaxParallel run together, and none runs twice.
THEOREM BatchKeepsContract == Spec => ImplementsOrderedCalls
<1>1. Spec => Contract!Init /\ [][Contract!Next]_(Contract!vars)
  BY InitBatchContract, NextBatchContract, BatchInvariance, PTL DEF Spec
<1>2. QED
  BY <1>1 DEF ImplementsOrderedCalls, Contract!Spec

-----------------------------------------------------------------------------
(***************************************************************************)
(* McpClient.                                                              *)
(***************************************************************************)

\* The inductive invariant: only the server of the client's transport can be
\* alive, there is none while a new one is started, and what is in its pipe
\* belongs to the holder of the mutex.
McpIInv ==
    /\ McpTypeOK
    /\ \A s \in Servers : server[s] # "off" => transport = s
    /\ loop = "start" => transport = None
    /\ RepliesAreTaken

\* At first there is neither a server nor a request.
LEMMA InitMcpIInv == McpInit => McpIInv
<1> SUFFICES ASSUME McpInit PROVE McpIInv
  OBVIOUS
<1> USE McpAssumption DEF McpInit
<1>1. McpTypeOK
  BY DEF McpTypeOK, LoopSteps, Handshake
<1>2. QED
  BY <1>1 DEF McpIInv, RepliesAreTaken

\* Every step keeps the invariant.
LEMMA NextMcpIInv == McpIInv /\ [McpNext]_mcpVars => McpIInv'
<1> SUFFICES ASSUME McpIInv, [McpNext]_mcpVars PROVE McpIInv'
  OBVIOUS
<1> USE McpAssumption
    DEF McpIInv, McpTypeOK, RepliesAreTaken, LoopSteps, Handshake, Connected, Answered, client
<1>1. ASSUME NEW c \in Callers, Call(c) PROVE McpIInv'
  BY <1>1 DEF Call
<1>2. ASSUME NEW c \in Callers, BeginCall(c) PROVE McpIInv'
  BY <1>2 DEF BeginCall, Ask
<1>3. ASSUME NEW c \in Callers, EndCall(c) PROVE McpIInv'
  BY <1>3 DEF EndCall, TakeReply
<1>4. CASE Tick
  BY <1>4 DEF Tick
<1>5. CASE SeeClosed
  BY <1>5 DEF SeeClosed
<1>6. CASE BeginCheck
  BY <1>6 DEF BeginCheck, Ask
<1>7. CASE EndCheck
  BY <1>7 DEF EndCheck, TakeReply
<1>8. CASE BeginConnect
  BY <1>8 DEF BeginConnect
<1>9. CASE StartServer
  BY <1>9 DEF StartServer
<1>10. CASE Shake
  BY <1>10 DEF Shake, Ask, NextStep
<1>11. CASE ConnectFails
  BY <1>11 DEF ConnectFails, TakeReply
<1>12. CASE ConnectEnds
  BY <1>12 DEF ConnectEnds, TakeReply
<1>13. CASE AskClose
  BY <1>13 DEF AskClose
<1>14. CASE Close
  BY <1>14 DEF Close
<1>15. ASSUME NEW s \in Servers, Reply(s) PROVE McpIInv'
  BY <1>15 DEF Reply
<1>16. ASSUME NEW s \in Servers, Die(s) PROVE McpIInv'
  BY <1>16 DEF Die
<1>17. CASE UNCHANGED mcpVars
  BY <1>17 DEF mcpVars
<1>18. QED
  BY <1>1, <1>2, <1>3, <1>4, <1>5, <1>6, <1>7, <1>8, <1>9, <1>10, <1>11, <1>12, <1>13,
     <1>14, <1>15, <1>16, <1>17
  DEF McpNext, Connect

\* The inductive invariant holds of every behaviour of the client.
THEOREM McpInvariance == McpSpec => []McpIInv
BY InitMcpIInv, NextMcpIInv, PTL DEF McpSpec

\* Every variable keeps its type, and client.mu is held by the goroutine that
\* waits for a reply or connects, and by no other.
THEOREM McpTypeCorrect == McpSpec => []McpTypeOK
<1>1. McpIInv => McpTypeOK
  BY DEF McpIInv
<1>2. QED
  BY <1>1, McpInvariance, PTL

\* However many reconnects fail, at most one server process is alive, and the
\* client can close it: Connect closes the old transport before it starts one.
THEOREM AtMostOneServer == McpSpec => []OneServer
<1>1. McpIInv => OneServer
  <2> SUFFICES ASSUME McpIInv PROVE OneServer
    OBVIOUS
  <2> DEFINE Alive == {s \in Servers : server[s] # "off"}
  <2>1. Alive \subseteq {transport}
    BY DEF McpIInv
  <2>2. IsFiniteSet({transport}) /\ Cardinality({transport}) = 1
    BY FS_Singleton
  <2>3. Cardinality(Alive) <= 1
    BY <2>1, <2>2, FS_Subset
  <2>4. QED
    BY <2>3 DEF McpIInv, OneServer
<1>2. QED
  BY <1>1, McpInvariance, PTL

\* Whoever takes client.mu finds the pipe empty, so that the reply it reads
\* answers its own request, whose id it does not check.
THEOREM PipeIsEmpty == McpSpec => []RepliesAreTaken
<1>1. McpIInv => RepliesAreTaken
  BY DEF McpIInv
<1>2. QED
  BY <1>1, McpInvariance, PTL
=============================================================================
