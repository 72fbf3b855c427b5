-------------------------- MODULE DocumentsProofs --------------------------
(***************************************************************************)
(* Machine-checked proofs about Documents, for every set of calls and      *)
(* sections and any number of retries.                                     *)
(***************************************************************************)
EXTENDS Documents, FiniteSetTheorems, TLAPS

\* Shapes of the variables; run is a table of frames.
Frame(x) == [stage |-> x.stage, ref |-> x.ref, hash |-> x.hash, base |-> x.base, out |-> x.out]
Shape ==
  /\ args \in [Calls -> Arguments \cup {None}]
  /\ run = [e \in Executions |-> Frame(run[e])]
  /\ \A e \in Executions : run[e].stage \in Stages
  /\ documents = [d \in Executions |-> documents[d]]
  /\ result = [c \in Calls |-> result[c]]

\* The executions of a call are numbered from 1, and there are some once the call
\* has its arguments.
Consecutive ==
  \A c \in Calls : \E k \in 0 .. MaxRetries + 1 : Started(c) = 1 .. k /\ (k = 0 <=> args[c] = None)

\* Two executions of a call under way at once have been recorded.
Alone ==
  \A e, f \in Executions :
    e[1] = f[1] /\ run[e].stage \in Live /\ run[f].stage \in Live /\ e[1] \notin overlapped => e = f

\* Which operations have which stages.
Kinds ==
  \A e \in Executions :
    /\ run[e].stage = "replay" => args[e[1]].op # "folder"
    /\ run[e].stage = "prepare" => args[e[1]].op \in {"folder", "create"}
    /\ run[e].stage \in {"load", "sections", "put"} => args[e[1]].op \in {"update", "delete", "finalize"}
    /\ run[e].stage \in {"sections", "put"} => args[e[1]].op = "update"

Base == Shape /\ Consecutive /\ Alone /\ Kinds

\* A revision is of a call, the only one of that call, and of a document whose
\* execution has committed.
Revisions ==
  /\ \A r \in revisions :
       /\ r.doc \in Executions /\ r.call \in Calls
       /\ args[r.call] # None /\ r.op = args[r.call].op /\ r.op # "folder"
       /\ run[r.doc].stage \in {"respond", "over"}
  /\ \A r, s \in revisions : r.call = s.call => r = s

\* The stages between the replay check and the commit.
Past == {"load", "prepare", "sections", "put", "commit"}

\* What the replay check has seen is still so: no revision of the call.
Unwritten ==
  \A e \in Executions :
    run[e].stage \in Past /\ e[1] \notin overlapped => find_revision_by_tool_call(e[1]) = {}

\* The versions of a document are the numbers up to that of its row, each once, and
\* the row is that of the last one.
Linear ==
  \A d \in Executions :
    documents[d] # None =>
      /\ documents[d].version \in Nat \ {0}
      /\ \A r \in RevisionsOf(d) : r.version \in 1 .. documents[d].version
      /\ \A v \in 1 .. documents[d].version : \E r \in RevisionsOf(d) : r.version = v
      /\ \A r, s \in RevisionsOf(d) : r.version = s.version => r = s
      /\ \E r \in RevisionsOf(d) :
           /\ r.version = documents[d].version /\ r.ref = documents[d].ref /\ r.hash = documents[d].hash
           /\ status_for_revision(r.op) = documents[d].status

\* The object of a revision, or of an execution that is to commit one, has the text
\* recorded, and is named after a call that has its revision or is to commit it.
Held(ref, hash) == ref \in DOMAIN objects /\ (ref.call \notin overlapped => objects[ref] = hash)
Objects ==
  /\ \A r \in revisions : Held(r.ref, r.hash) /\ \E s \in revisions : s.call = r.ref.call
  /\ \A e \in Executions : run[e].stage = "commit" =>
       /\ args[e[1]].op \in {"create", "update"} => Held(run[e].ref, run[e].hash) /\ run[e].ref.call = e[1]
       /\ args[e[1]].op \in {"delete", "finalize"} =>
            \E r \in revisions : r.ref = run[e].ref /\ r.hash = run[e].hash

\* An outcome tells which revisions its call has.
Truth(c, out) ==
  {[id |-> r.doc, version |-> r.version] : r \in find_revision_by_tool_call(c)} =
    IF out.ok THEN {[id |-> out.id, version |-> out.version]} ELSE {}
Told ==
  /\ \A e \in Executions :
       run[e].stage = "respond" /\ e[1] \notin overlapped /\ args[e[1]].op # "folder" => Truth(e[1], run[e].out)
  /\ \A c \in Calls : result[c] # None =>
       /\ args[c] # None
       /\ c \notin overlapped => /\ \A e \in Executions : e[1] = c => run[e].stage \notin Live
                                 /\ args[c].op # "folder" => Truth(c, result[c])

IInv == Base /\ Revisions /\ Unwritten /\ Linear /\ Objects /\ Told

USE DocumentsAssumption, NullAssumption DEF tables

-----------------------------------------------------------------------------
(* Frames and stages                                                       *)

\* An execution is a call and a number.
LEMMA Pairs ==
  /\ \A e \in Executions : e[1] \in Calls /\ e[2] \in 1 .. MaxRetries + 1 /\ e = <<e[1], e[2]>>
  /\ \A c \in Calls, i \in 1 .. MaxRetries + 1 : <<c, i>> \in Executions /\ <<c, i>>[1] = c /\ <<c, i>>[2] = i
BY DEF Executions

\* The frame of e becomes the given one, the others stay.
Becomes(e, stage, ref, hash, base, out) ==
  /\ run' = [f \in Executions |-> Frame(run'[f])]
  /\ \A f \in Executions \ {e} : run'[f] = run[f]
  /\ run'[e].stage = stage /\ run'[e].ref = ref /\ run'[e].hash = hash /\ run'[e].base = base
  /\ run'[e].out = out

\* What the updates of an execution's frame leave.
LEMMA FrameSteps ==
  ASSUME Shape, NEW e \in Executions
  PROVE  /\ \A stage : run' = [run EXCEPT ![e].stage = stage] =>
              Becomes(e, stage, run[e].ref, run[e].hash, run[e].base, run[e].out)
         /\ \A out : Answer(e, out) => Becomes(e, "respond", None, None, None, out)
         /\ run' = [run EXCEPT ![e] = [Idle EXCEPT !.stage = "over"]] =>
              Becomes(e, "over", None, None, None, None)
         /\ \A stage, ref, hash, base : Keep(e, stage, ref, hash, base) => Becomes(e, stage, ref, hash, base, None)
<1>1. run = [f \in Executions |-> Frame(run[f])] /\ run[e] = Frame(run[e])
  BY DEF Shape
<1>2. ASSUME NEW stage, run' = [run EXCEPT ![e].stage = stage]
      PROVE  Becomes(e, stage, run[e].ref, run[e].hash, run[e].base, run[e].out)
  <2>1. run' = [f \in Executions |-> IF f = e THEN [run[e] EXCEPT !.stage = stage] ELSE run[f]]
    BY <1>1, <1>2
  <2>2. [run[e] EXCEPT !.stage = stage] =
          [stage |-> stage, ref |-> run[e].ref, hash |-> run[e].hash, base |-> run[e].base, out |-> run[e].out]
    BY <1>1 DEF Frame
  <2>3. run'[e] = [stage |-> stage, ref |-> run[e].ref, hash |-> run[e].hash, base |-> run[e].base, out |-> run[e].out]
    BY <2>1, <2>2
  <2>4. \A f \in Executions \ {e} : run'[f] = run[f] /\ run[f] = Frame(run[f])
    BY <1>1, <2>1
  <2>5. run'[e] = Frame(run'[e])
    BY <2>3 DEF Frame
  <2>6. \A f \in Executions : run'[f] = Frame(run'[f])
    BY <2>4, <2>5
  <2>7. run' = [f \in Executions |-> Frame(run'[f])]
    BY <2>1, <2>6
  <2>8. QED BY <2>3, <2>4, <2>7 DEF Becomes
<1>3. ASSUME NEW out, Answer(e, out)
      PROVE  Becomes(e, "respond", None, None, None, out)
  BY <1>1, <1>3 DEF Becomes, Frame, Answer
<1>4. ASSUME run' = [run EXCEPT ![e] = [Idle EXCEPT !.stage = "over"]]
      PROVE  Becomes(e, "over", None, None, None, None)
  <2>1. [Idle EXCEPT !.stage = "over"] = [stage |-> "over", ref |-> None, hash |-> None, base |-> None, out |-> None]
    BY DEF Idle
  <2>2. run' = [f \in Executions |-> IF f = e THEN [Idle EXCEPT !.stage = "over"] ELSE run[f]]
    BY <1>1, <1>4
  <2>3. run'[e] = [stage |-> "over", ref |-> None, hash |-> None, base |-> None, out |-> None]
    BY <2>1, <2>2
  <2>4. \A f \in Executions \ {e} : run'[f] = run[f] /\ run[f] = Frame(run[f])
    BY <1>1, <2>2
  <2>5. run'[e] = Frame(run'[e])
    BY <2>3 DEF Frame
  <2>6. \A f \in Executions : run'[f] = Frame(run'[f])
    BY <2>4, <2>5
  <2>7. run' = [f \in Executions |-> Frame(run'[f])]
    BY <2>2, <2>6
  <2>8. QED BY <2>3, <2>4, <2>7 DEF Becomes
<1>5. ASSUME NEW stage, NEW ref, NEW hash, NEW base, Keep(e, stage, ref, hash, base)
      PROVE  Becomes(e, stage, ref, hash, base, None)
  BY <1>1, <1>5 DEF Becomes, Frame, Keep
<1>6. QED BY <1>2, <1>3, <1>4, <1>5

\* The operations and what their arguments are.
LEMMA Ops ==
  /\ MaxVersion \in Nat
  /\ \A a \in Arguments :
       /\ a.op \in {"folder", "create", "update", "delete", "finalize"} /\ a.parts \subseteq SectionIds
       /\ a.op \in {"update", "delete", "finalize"} => a.on \in Executions /\ a.at \in Nat \ {0}
<1>1. MaxVersion \in Nat
  BY FS_CardinalityType DEF MaxVersion
<1>2. ASSUME NEW a \in Arguments
      PROVE  /\ a.op \in {"folder", "create", "update", "delete", "finalize"} /\ a.parts \subseteq SectionIds
             /\ a.op \in {"update", "delete", "finalize"} => a.on \in Executions /\ a.at \in Nat \ {0}
  BY <1>1, <1>2 DEF Arguments
<1>3. QED BY <1>1, <1>2

\* An execution that has begun has a call with arguments.
LEMMA Issued ==
  ASSUME Shape, Consecutive, NEW e \in Executions, run[e].stage # "off"
  PROVE  e[1] \in Calls /\ args[e[1]] # None /\ args[e[1]] \in Arguments
<1>1. e[1] \in Calls /\ e[2] \in 1 .. MaxRetries + 1 /\ e = <<e[1], e[2]>>
  BY Pairs
<1>2. e[2] \in Started(e[1])
  BY <1>1 DEF Started
<1>3. PICK k \in 0 .. MaxRetries + 1 : Started(e[1]) = 1 .. k /\ (k = 0 <=> args[e[1]] = None)
  BY <1>1 DEF Consecutive
<1>4. k # 0
  BY <1>1, <1>2, <1>3
<1>5. args[e[1]] # None
  BY <1>3, <1>4
<1>6. QED BY <1>1, <1>5 DEF Shape

\* The steps of an execution.
Acts(e) ==
  \/ Die(e) \/ Respond(e)
  \/ _replay_result(e) \/ _document_for_analysis(e) \/ ReadSections(e) \/ PutObjects(e) \/ Prepare(e)
  \/ add_folder_node(e) \/ add_document_with_revision(e) \/ update_document_with_revision(e)

\* The stages an execution moves on to.
Moves(e) ==
  /\ run' = [f \in Executions |-> Frame(run'[f])]
  /\ \A f \in Executions \ {e} : run'[f] = run[f]
  /\ run[e].stage \in Live
  /\ \/ run'[e].stage \in {"respond", "over"} /\ (run'[e].stage = "respond" => run[e].stage # "respond")
     \/ /\ run[e].stage = "replay" /\ find_revision_by_tool_call(e[1]) = {}
        /\ run'[e].stage = IF args[e[1]].op = "create" THEN "prepare" ELSE "load"
     \/ run[e].stage = "load" /\ run'[e].stage = IF args[e[1]].op = "update" THEN "sections" ELSE "commit"
     \/ run[e].stage = "sections" /\ run'[e].stage = "put"
     \/ run[e].stage \in {"put", "prepare"} /\ run'[e].stage = "commit"
LEMMA MoveSteps ==
  ASSUME Shape, NEW e \in Executions, Acts(e)
  PROVE  Moves(e) /\ UNCHANGED <<args, overlapped>>
<1> USE DEF Moves, Live, Stages
<1>0. /\ \A stage, ref, hash, base, out : Becomes(e, stage, ref, hash, base, out) =>
           /\ run' = [f \in Executions |-> Frame(run'[f])]
           /\ \A f \in Executions \ {e} : run'[f] = run[f]
           /\ run'[e].stage = stage
      /\ run[e].stage \in Stages
  BY DEF Becomes, Shape
<1> HIDE DEF Becomes
<1>1. CASE Die(e)
  BY <1>0, <1>1, FrameSteps DEF Die
<1>2. CASE Respond(e)
  <2>1. run[e].stage = "respond" /\ Becomes(e, "over", None, None, None, None) /\ UNCHANGED <<args, overlapped>>
    BY <1>2, FrameSteps DEF Respond
  <2>2. QED BY <1>0, <2>1
<1>3. CASE _replay_result(e)
  <2>1. CASE \E r \in find_revision_by_tool_call(e[1]) :
               Answer(e, document_result(r.doc, r.version, status_for_revision(r.op)))
    BY <1>0, <1>3, <2>1, FrameSteps DEF _replay_result
  <2>2. CASE find_revision_by_tool_call(e[1]) = {} /\ Goto(e, IF args[e[1]].op = "create" THEN "prepare" ELSE "load")
    <3> DEFINE s == IF args[e[1]].op = "create" THEN "prepare" ELSE "load"
    <3>1. Becomes(e, s, run[e].ref, run[e].hash, run[e].base, run[e].out)
      BY <2>2, FrameSteps DEF Goto
    <3>2. QED BY <1>0, <1>3, <2>2, <3>1 DEF _replay_result
  <2>3. QED BY <1>3, <2>1, <2>2 DEF _replay_result
<1>4. CASE _document_for_analysis(e)
  <2> DEFINE s == IF args[e[1]].op = "update" THEN "sections" ELSE "commit"
             d == documents[args[e[1]].on]
  <2>1. Keep(e, s, d.ref, d.hash, None) \/ Answer(e, Error)
    BY <1>4 DEF _document_for_analysis
  <2>2. Becomes(e, s, d.ref, d.hash, None, None) \/ Becomes(e, "respond", None, None, None, Error)
    BY <2>1, FrameSteps
  <2>3. QED BY <1>0, <1>4, <2>2 DEF _document_for_analysis
<1>5. CASE ReadSections(e)
  <2>1. Becomes(e, "put", None, None, _merged_sections(e), None)
    BY <1>5, FrameSteps DEF ReadSections
  <2>2. QED BY <1>0, <1>5, <2>1 DEF ReadSections
<1>6. CASE PutObjects(e)
  <2> DEFINE r == ContentKey(args[e[1]].on, args[e[1]].at + 1, e[1])
             h == _render_document_content(e[1], run[e].base)
  <2>1. Becomes(e, "commit", r, h, run[e].base, None)
    BY <1>6, FrameSteps DEF PutObjects
  <2>2. QED BY <1>0, <1>6, <2>1 DEF PutObjects
<1>7. CASE Prepare(e)
  <2> DEFINE r == ContentKey(e, 1, e[1])
             h == _render_document_content(e[1], NewSections(e))
  <2>1. Keep(e, "commit", r, h, NewSections(e)) \/ Answer(e, Error)
    BY <1>7 DEF Prepare
  <2>2. Becomes(e, "commit", r, h, NewSections(e), None) \/ Becomes(e, "respond", None, None, None, Error)
    BY <2>1, FrameSteps
  <2>3. QED BY <1>0, <1>7, <2>2 DEF Prepare
<1>8. CASE add_folder_node(e)
  BY <1>0, <1>8, FrameSteps DEF add_folder_node, IntegrityError
<1>9. CASE add_document_with_revision(e)
  BY <1>0, <1>9, FrameSteps DEF add_document_with_revision, IntegrityError
<1>10. CASE update_document_with_revision(e)
  BY <1>0, <1>10, FrameSteps DEF update_document_with_revision, IntegrityError
<1>11. QED BY <1>1, <1>2, <1>3, <1>4, <1>5, <1>6, <1>7, <1>8, <1>9, <1>10 DEF Acts

\* A call is issued or delivered again: its next execution begins, if the bound
\* leaves one.
Begins(c, k) ==
  /\ Started(c) = 1 .. k
  /\ <<c, k + 1>> \in Executions /\ run[<<c, k + 1>>].stage = "off"
  /\ run' = [f \in Executions |-> Frame(run'[f])]
  /\ \A f \in Executions \ {<<c, k + 1>>} : run'[f] = run[f]
  /\ run'[<<c, k + 1>>].stage = FirstStage(args'[c].op)
  /\ args'[c] \in Arguments
  /\ k = 0 \/ args'[c] = args[c]
  /\ overlapped' = IF \E i \in 1 .. k : run[<<c, i>>].stage \in Live THEN overlapped \cup {c} ELSE overlapped
LEMMA BeginSteps ==
  ASSUME Shape, Consecutive, NEW c \in Calls, Issue(c) \/ Redeliver(c)
  PROVE  /\ (run' = run /\ args' = args) \/ \E k \in 0 .. MaxRetries : Begins(c, k)
         /\ args' \in [Calls -> Arguments \cup {None}]
         /\ \A x \in Calls : x # c => args'[x] = args[x]
         /\ args[c] # None => args'[c] = args[c]
         /\ overlapped \subseteq overlapped' /\ overlapped' \subseteq overlapped \cup {c}
         /\ UNCHANGED <<tables, objects, result>>
         /\ args[c] = None \/ result[c] = None
<1>1. PICK k \in 0 .. MaxRetries + 1 : Started(c) = 1 .. k /\ (k = 0 <=> args[c] = None)
  BY DEF Consecutive
<1>2. ASSUME k <= MaxRetries
      PROVE  <<c, k + 1>> \in Executions /\ run[<<c, k + 1>>].stage = "off"
  <2>1. k + 1 \in 1 .. MaxRetries + 1 /\ k + 1 \notin 1 .. k
    BY <1>2
  <2>2. QED BY <1>1, <2>1, Pairs DEF Started
<1>3. CASE Issue(c)
  <2>1. PICK a \in Arguments :
          args' = [args EXCEPT ![c] = a] /\ run' = [run EXCEPT ![<<c, 1>>].stage = FirstStage(a.op)]
    BY <1>3 DEF Issue
  <2>2. args[c] = None /\ k = 0 /\ UNCHANGED <<tables, objects, result, overlapped>>
    BY <1>1, <1>3 DEF Issue
  <2>3. <<c, 1>> \in Executions /\ run[<<c, 1>>].stage = "off"
    BY <1>2, <2>2
  <2>4. /\ run' = [f \in Executions |-> Frame(run'[f])]
        /\ \A f \in Executions \ {<<c, 1>>} : run'[f] = run[f]
        /\ run'[<<c, 1>>].stage = FirstStage(a.op)
    BY <2>1, <2>3, FrameSteps, ZenonT(60) DEF Becomes
  <2>5. /\ args'[c] = a /\ args' \in [Calls -> Arguments \cup {None}]
        /\ \A x \in Calls : x # c => args'[x] = args[x]
    BY <2>1 DEF Shape
  <2>6. Begins(c, 0)
    BY <1>1, <2>2, <2>3, <2>4, <2>5 DEF Begins
  <2>7. QED BY <2>2, <2>5, <2>6
<1>4. CASE Redeliver(c)
  <2>1. Cardinality(Started(c)) = k
    BY <1>1, FS_Interval
  <2>2. /\ args[c] # None /\ result[c] = None /\ UNCHANGED <<args, tables, objects, result>>
        /\ run' = [run EXCEPT ![<<c, k + 1>>].stage = FirstStage(args[c].op)]
        /\ overlapped' = IF \E i \in 1 .. k : run[<<c, i>>].stage \in Live
                         THEN overlapped \cup {c} ELSE overlapped
    BY <1>1, <1>4, <2>1 DEF Redeliver
  <2>3. args[c] \in Arguments /\ args' \in [Calls -> Arguments \cup {None}]
    BY <2>2 DEF Shape
  <2>4. CASE k <= MaxRetries
    <3> DEFINE x == <<c, k + 1>>
    <3>1. x \in Executions /\ run' = [run EXCEPT ![x].stage = FirstStage(args[c].op)]
      BY <1>2, <2>2, <2>4
    <3> HIDE DEF x
    <3>2. Becomes(x, FirstStage(args[c].op), run[x].ref, run[x].hash, run[x].base, run[x].out)
      BY <3>1, FrameSteps
    <3>3. /\ run' = [f \in Executions |-> Frame(run'[f])]
          /\ \A f \in Executions \ {x} : run'[f] = run[f]
          /\ run'[x].stage = FirstStage(args[c].op)
      BY <3>2 DEF Becomes
    <3>4. Begins(c, k)
      BY <1>1, <1>2, <2>2, <2>3, <2>4, <3>3 DEF Begins, x
    <3>5. QED BY <2>2, <2>3, <2>4, <3>4
  <2>5. CASE k > MaxRetries
    <3>1. <<c, k + 1>> \notin Executions
      BY <2>5 DEF Executions
    <3>2. run = [f \in Executions |-> Frame(run[f])]
      BY DEF Shape
    <3> DEFINE x == <<c, k + 1>>
    <3>3. x \notin Executions /\ run' = [run EXCEPT ![x].stage = FirstStage(args[c].op)]
      BY <2>2, <3>1
    <3> HIDE DEF x
    <3>4. run' = run
      BY <3>2, <3>3
    <3>5. QED BY <2>2, <2>3, <3>4
  <2>6. QED BY <2>4, <2>5
<1>5. QED BY <1>3, <1>4

\* A step of an execution leaves the shapes and the stages in order.
LEMMA BaseActs ==
  ASSUME Base, documents' = [d \in Executions |-> documents'[d]], result' = [c \in Calls |-> result'[c]],
         NEW e \in Executions, Acts(e)
  PROVE  Base'
<1>1. Moves(e) /\ UNCHANGED <<args, overlapped>>
  BY MoveSteps DEF Base
<1>2. /\ run'[e].stage \in Stages \ {"off"} /\ run[e].stage \in Live
      /\ \A f \in Executions \ {e} : run'[f] = run[f]
  BY <1>1 DEF Moves, Stages, Live
<1>3. Shape'
  BY <1>1, <1>2 DEF Base, Shape, Moves
<1>4. \A c \in Calls : Started(c)' = Started(c)
  <2>1. ASSUME NEW f \in Executions
        PROVE  run'[f].stage # "off" <=> run[f].stage # "off"
    BY <1>2 DEF Live, Stages
  <2>2. QED BY <2>1, Pairs DEF Started
<1>5. Consecutive'
  BY <1>1, <1>4 DEF Base, Consecutive
<1>6. Alone'
  <2>1. \A f \in Executions : run'[f].stage \in Live => run[f].stage \in Live
    BY <1>2
  <2>2. QED BY <1>1, <2>1 DEF Base, Alone
<1>7. Kinds'
  <2>1. args[e[1]].op \in {"folder", "create", "update", "delete", "finalize"}
    BY <1>2, Issued, Ops DEF Base, Live
  <2>2. /\ run'[e].stage = "replay" => args[e[1]].op # "folder"
        /\ run'[e].stage = "prepare" => args[e[1]].op \in {"folder", "create"}
        /\ run'[e].stage \in {"load", "sections", "put"} => args[e[1]].op \in {"update", "delete", "finalize"}
        /\ run'[e].stage \in {"sections", "put"} => args[e[1]].op = "update"
    BY <1>1, <2>1 DEF Moves, Base, Kinds
  <2>3. QED BY <1>1, <1>2, <2>2 DEF Base, Kinds
<1>8. QED BY <1>3, <1>5, <1>6, <1>7 DEF Base

\* So does the beginning of an execution.
LEMMA BaseBegins ==
  ASSUME Base, NEW c \in Calls, Issue(c) \/ Redeliver(c)
  PROVE  Base'
<1>1. /\ (run' = run /\ args' = args) \/ \E k \in 0 .. MaxRetries : Begins(c, k)
      /\ args' \in [Calls -> Arguments \cup {None}]
      /\ \A x \in Calls : x # c => args'[x] = args[x]
      /\ overlapped \subseteq overlapped'
      /\ UNCHANGED <<documents, result>>
  BY BeginSteps DEF Base
<1>2. CASE run' = run /\ args' = args
  BY <1>1, <1>2 DEF Base, Shape, Consecutive, Started, Alone, Kinds
<1>3. ASSUME NEW k \in 0 .. MaxRetries, Begins(c, k)
      PROVE  Base'
  <2> DEFINE x == <<c, k + 1>>
  <2>1. /\ x \in Executions /\ run[x].stage = "off" /\ x[1] = c /\ x[2] = k + 1
        /\ run' = [f \in Executions |-> Frame(run'[f])]
        /\ \A f \in Executions \ {x} : run'[f] = run[f]
        /\ run'[x].stage = FirstStage(args'[c].op)
    BY <1>3 DEF Begins
  <2>2. /\ Started(c) = 1 .. k /\ args'[c] \in Arguments
        /\ overlapped' = IF \E i \in 1 .. k : run[<<c, i>>].stage \in Live THEN overlapped \cup {c} ELSE overlapped
        /\ k = 0 \/ args'[c] = args[c]
    BY <1>3 DEF Begins
  <2>3. run'[x].stage \in {"replay", "prepare"}
    BY <2>1 DEF FirstStage
  <2>4. Shape'
    <3>1. \A f \in Executions : run'[f].stage \in Stages
      BY <2>1, <2>3 DEF Base, Shape, Stages
    <3>2. QED BY <1>1, <2>1, <3>1 DEF Base, Shape
  <2>5. \A y \in Calls \ {c} : Started(y)' = Started(y)
    <3>1. ASSUME NEW y \in Calls \ {c}, NEW i \in 1 .. MaxRetries + 1
          PROVE  run'[<<y, i>>] = run[<<y, i>>]
      <4>1. <<y, i>> \in Executions /\ <<y, i>>[1] = y
        BY Pairs
      <4>2. QED BY <2>1, <4>1
    <3>2. QED BY <3>1 DEF Started
  <2>6. Started(c)' = 1 .. k + 1
    <3>1. ASSUME NEW i \in 1 .. MaxRetries + 1
          PROVE  run'[<<c, i>>].stage # "off" <=> i \in 1 .. k + 1
      <4>1. <<c, i>> \in Executions /\ (run[<<c, i>>].stage # "off" <=> i \in 1 .. k)
        BY <2>2, Pairs DEF Started
      <4>2. CASE i = k + 1
        BY <2>1, <2>3, <4>2
      <4>3. CASE i # k + 1
        <5>1. <<c, i>> # x
          BY <4>3
        <5>2. QED BY <2>1, <4>1, <4>3, <5>1
      <4>4. QED BY <4>2, <4>3
    <3>2. QED BY <3>1 DEF Started
  <2>7. Consecutive'
    <3>1. ASSUME NEW y \in Calls
          PROVE  \E j \in 0 .. MaxRetries + 1 : Started(y)' = 1 .. j /\ (j = 0 <=> args'[y] = None)
      <4>1. CASE y = c
        <5>1. k + 1 \in 0 .. MaxRetries + 1 /\ k + 1 # 0 /\ args'[c] # None
          BY <2>2
        <5>2. QED BY <2>6, <4>1, <5>1
      <4>2. CASE y # c
        BY <1>1, <2>5, <4>2 DEF Base, Consecutive
      <4>3. QED BY <4>1, <4>2
    <3>2. QED BY <3>1 DEF Consecutive
  <2> HIDE DEF x
  <2>8. Alone'
    <3> SUFFICES ASSUME NEW f \in Executions, NEW g \in Executions, f[1] = g[1], run'[f].stage \in Live,
                        run'[g].stage \in Live, f[1] \notin overlapped'
                 PROVE  f = g
      BY DEF Alone
    <3>1. ASSUME NEW h \in Executions, h[1] = c, h # x, run'[h].stage \in Live, c \notin overlapped'
          PROVE  FALSE
      <4>1. run[h].stage \in Live /\ h[2] \in 1 .. MaxRetries + 1 /\ h = <<c, h[2]>>
        BY <2>1, <3>1, Pairs
      <4>2. h[2] \in Started(c)
        BY <4>1 DEF Started, Live
      <4>3. QED BY <2>2, <3>1, <4>1, <4>2
    <3>2. CASE f = x \/ g = x
      BY <2>1, <3>1, <3>2
    <3>3. CASE f # x /\ g # x
      BY <1>1, <2>1, <3>3 DEF Base, Alone
    <3>4. QED BY <3>2, <3>3
  <2>9. Kinds'
    <3> SUFFICES ASSUME NEW f \in Executions
                 PROVE  /\ run'[f].stage = "replay" => args'[f[1]].op # "folder"
                        /\ run'[f].stage = "prepare" => args'[f[1]].op \in {"folder", "create"}
                        /\ run'[f].stage \in {"load", "sections", "put"} =>
                             args'[f[1]].op \in {"update", "delete", "finalize"}
                        /\ run'[f].stage \in {"sections", "put"} => args'[f[1]].op = "update"
      BY DEF Kinds
    <3>1. CASE f = x
      BY <2>1, <3>1 DEF FirstStage
    <3>2. CASE f # x
      <4>1. run[f].stage = "off" \/ args'[f[1]] = args[f[1]]
        <5>1. CASE f[1] = c
          <6>1. f[2] \in 1 .. MaxRetries + 1 /\ f = <<c, f[2]>>
            BY <5>1, Pairs
          <6>2. run[f].stage = "off" \/ f[2] \in 1 .. k
            BY <2>2, <6>1 DEF Started
          <6>3. QED BY <2>2, <5>1, <6>1, <6>2
        <5>2. CASE f[1] # c
          BY <1>1, <5>2, Pairs
        <5>3. QED BY <5>1, <5>2
      <4>2. QED BY <2>1, <3>2, <4>1 DEF Base, Kinds
    <3>3. QED BY <3>1, <3>2
  <2>10. QED BY <2>4, <2>7, <2>8, <2>9 DEF Base
<1>4. QED BY <1>1, <1>2, <1>3

-----------------------------------------------------------------------------
(* What a step writes                                                      *)

\* Execution e commits version v of document d and answers with it.
Commits(e, d, v) ==
  /\ run[e].stage = "commit" /\ d \in Executions
  /\ find_revision_by_tool_call(e[1]) = {}
  /\ args[e[1]].op \in {"create", "update", "delete", "finalize"}
  /\ IF args[e[1]].op = "create" THEN d = e /\ v = 1
     ELSE /\ d = args[e[1]].on /\ v = args[e[1]].at + 1 /\ args[e[1]].at \in Nat \ {0} /\ Matches(d, args[e[1]].at)
          /\ ~ \E r \in revisions : r.doc = d /\ r.version = v
  /\ documents' = [documents EXCEPT ![d] = [status |-> status_for_revision(args[e[1]].op), version |-> v,
                                            ref |-> run[e].ref, hash |-> run[e].hash]]
  /\ revisions' = revisions \cup {revision_payload(e, d, v)}
  /\ sections' = IF args[e[1]].op = "create" THEN [sections EXCEPT ![d] = _section_rows(e, d, v, run[e].base)]
                 ELSE IF args[e[1]].parts = {} THEN sections
                 ELSE [sections EXCEPT ![d] = _upsert_section(d, _section_rows(e, d, v, run[e].base))]
  /\ run'[e].stage = "respond" /\ run'[e].out.ok /\ run'[e].out.id = d /\ run'[e].out.version = v
  /\ UNCHANGED <<objects, result>>

\* Otherwise documents, sections and revisions stay, and an answer is that of
\* the replay check, a refusal or about a folder.
Spares(e) ==
  /\ UNCHANGED <<documents, revisions, sections>>
  /\ run'[e].stage = "respond" =>
       \/ args[e[1]].op = "folder"
       \/ run[e].stage \in Past /\ run'[e].out.ok = FALSE
       \/ \E r \in find_revision_by_tool_call(e[1]) :
            run'[e].out.ok /\ run'[e].out.id = r.doc /\ run'[e].out.version = r.version
LEMMA CommitSteps ==
  ASSUME Base, NEW e \in Executions, Acts(e)
  PROVE  Spares(e) \/ \E d \in Executions, v \in Nat : Commits(e, d, v)
<1> USE DEF Spares, Past
<1>0. Shape
  BY DEF Base
<1>1. CASE Die(e)
  BY <1>0, <1>1, FrameSteps DEF Die, Becomes
<1>2. CASE Respond(e)
  BY <1>0, <1>2, FrameSteps DEF Respond, Becomes
<1>3. CASE _replay_result(e)
  <2>1. UNCHANGED <<documents, revisions, sections>>
    BY <1>3 DEF _replay_result
  <2>2. CASE \E r \in find_revision_by_tool_call(e[1]) :
               Answer(e, document_result(r.doc, r.version, status_for_revision(r.op)))
    <3>1. PICK r \in find_revision_by_tool_call(e[1]) :
            Answer(e, document_result(r.doc, r.version, status_for_revision(r.op)))
      BY <2>2
    <3>2. run'[e].out = document_result(r.doc, r.version, status_for_revision(r.op))
      BY <1>0, <3>1, FrameSteps DEF Becomes
    <3>3. run'[e].out.ok /\ run'[e].out.id = r.doc /\ run'[e].out.version = r.version
      BY <3>2 DEF document_result
    <3>4. QED BY <2>1, <3>3
  <2>3. CASE Goto(e, IF args[e[1]].op = "create" THEN "prepare" ELSE "load")
    <3> DEFINE s == IF args[e[1]].op = "create" THEN "prepare" ELSE "load"
    <3>1. Becomes(e, s, run[e].ref, run[e].hash, run[e].base, run[e].out)
      BY <1>0, <2>3, FrameSteps DEF Goto
    <3>2. run'[e].stage # "respond"
      BY <3>1 DEF Becomes
    <3>3. QED BY <2>1, <3>2
  <2>4. QED BY <1>3, <2>2, <2>3 DEF _replay_result
<1>4. CASE _document_for_analysis(e)
  <2> DEFINE s == IF args[e[1]].op = "update" THEN "sections" ELSE "commit"
             d == documents[args[e[1]].on]
  <2>1. Keep(e, s, d.ref, d.hash, None) \/ Answer(e, Error)
    BY <1>4 DEF _document_for_analysis
  <2>2. Becomes(e, s, d.ref, d.hash, None, None) \/ Becomes(e, "respond", None, None, None, Error)
    BY <1>0, <2>1, FrameSteps
  <2>3. run'[e].stage = "respond" => run'[e].out = Error
    BY <2>2 DEF Becomes
  <2>4. QED BY <1>4, <2>3 DEF _document_for_analysis, Error
<1>5. CASE ReadSections(e)
  <2>1. Becomes(e, "put", None, None, _merged_sections(e), None)
    BY <1>0, <1>5, FrameSteps DEF ReadSections
  <2>2. QED BY <1>5, <2>1 DEF ReadSections, Becomes
<1>6. CASE PutObjects(e)
  <2> DEFINE r == ContentKey(args[e[1]].on, args[e[1]].at + 1, e[1])
             h == _render_document_content(e[1], run[e].base)
  <2>1. Becomes(e, "commit", r, h, run[e].base, None)
    BY <1>0, <1>6, FrameSteps DEF PutObjects
  <2>2. QED BY <1>6, <2>1 DEF PutObjects, Becomes
<1>7. CASE Prepare(e)
  <2> DEFINE r == ContentKey(e, 1, e[1])
             h == _render_document_content(e[1], NewSections(e))
  <2>1. Keep(e, "commit", r, h, NewSections(e)) \/ Answer(e, Error)
    BY <1>7 DEF Prepare
  <2>2. Becomes(e, "commit", r, h, NewSections(e), None) \/ Becomes(e, "respond", None, None, None, Error)
    BY <1>0, <2>1, FrameSteps
  <2>3. run'[e].stage = "respond" => run'[e].out = Error
    BY <2>2 DEF Becomes
  <2>4. QED BY <1>7, <2>3 DEF Prepare, Error
<1>8. CASE add_folder_node(e)
  BY <1>8 DEF add_folder_node, IntegrityError
<1>9. CASE add_document_with_revision(e)
  <2>1. CASE IntegrityError(e)
    BY <1>0, <1>9, <2>1, FrameSteps DEF add_document_with_revision, IntegrityError, Becomes
  <2>2. CASE ~ IntegrityError(e)
    <3>1. Answer(e, document_result(e, 1, "draft"))
      BY <1>9, <2>2 DEF add_document_with_revision
    <3>2. run'[e].stage = "respond" /\ run'[e].out = document_result(e, 1, "draft")
      BY <1>0, <3>1, FrameSteps DEF Becomes
    <3>3. run'[e].out.ok /\ run'[e].out.id = e /\ run'[e].out.version = 1
      BY <3>2 DEF document_result
    <3>4. Commits(e, e, 1)
      BY <1>9, <2>2, <3>2, <3>3 DEF add_document_with_revision, Commits, _insert_revision, status_for_revision
    <3>5. QED BY <3>4
  <2>3. QED BY <2>1, <2>2
<1>10. CASE update_document_with_revision(e)
  <2> DEFINE a == args[e[1]]
             v == a.at + 1
             status == status_for_revision(a.op)
  <2>1. a \in Arguments
    BY <1>10, Issued DEF Base, update_document_with_revision
  <2>2. a.on \in Executions /\ a.at \in Nat \ {0}
    BY <1>10, <2>1, Ops DEF update_document_with_revision
  <2>3. CASE ~ Matches(a.on, a.at)
    <3>1. Answer(e, Error) /\ UNCHANGED tables
      BY <1>10, <2>3 DEF update_document_with_revision
    <3>2. run'[e].out = Error
      BY <1>0, <3>1, FrameSteps DEF Becomes
    <3>3. QED BY <1>10, <3>1, <3>2 DEF update_document_with_revision, Error
  <2>4. CASE IntegrityError(e)
    BY <1>0, <2>4, FrameSteps DEF IntegrityError, Becomes
  <2>5. CASE Matches(a.on, a.at) /\ ~ IntegrityError(e)
    <3>1. /\ Answer(e, document_result(a.on, v, status))
          /\ find_revision_by_tool_call(e[1]) = {} /\ ~ \E r \in revisions : r.doc = a.on /\ r.version = v
          /\ documents' = [documents EXCEPT ![a.on] =
                             [status |-> status, version |-> v, ref |-> run[e].ref, hash |-> run[e].hash]]
          /\ revisions' = revisions \cup {revision_payload(e, a.on, v)}
          /\ sections' = IF a.parts = {} THEN sections
                         ELSE [sections EXCEPT ![a.on] = _upsert_section(a.on, _section_rows(e, a.on, v, run[e].base))]
          /\ run[e].stage = "commit" /\ a.op \in {"update", "delete", "finalize"}
          /\ UNCHANGED <<objects, result>>
      BY <1>10, <2>5 DEF update_document_with_revision, _insert_revision
    <3>2. run'[e].stage = "respond" /\ run'[e].out = document_result(a.on, v, status)
      BY <1>0, <3>1, FrameSteps DEF Becomes
    <3>3. run'[e].out.ok /\ run'[e].out.id = a.on /\ run'[e].out.version = v
      BY <3>2 DEF document_result
    <3>4. Commits(e, a.on, v)
      BY <2>2, <2>5, <3>1, <3>2, <3>3 DEF Commits
    <3>5. QED BY <2>2, <3>4
  <2>6. QED BY <2>3, <2>4, <2>5
<1>11. QED BY <1>1, <1>2, <1>3, <1>4, <1>5, <1>6, <1>7, <1>8, <1>9, <1>10 DEF Acts

\* A step is one of an execution, the beginning of one or none.
LEMMA StepKinds ==
  ASSUME [Next]_vars
  PROVE  (\E e \in Executions : Acts(e)) \/ (\E c \in Calls : Issue(c) \/ Redeliver(c)) \/ UNCHANGED vars
BY DEF Next, Acts

\* What is settled stays settled: arguments, and executions that are done.
LEMMA Settled ==
  ASSUME Base, [Next]_vars
  PROVE  /\ \A c \in Calls : args[c] # None => args'[c] = args[c]
         /\ overlapped \subseteq overlapped'
         /\ \A f \in Executions : run[f].stage \in {"respond", "over"} => run'[f].stage \in {"respond", "over"}
<1>1. ASSUME NEW e \in Executions, Acts(e)
      PROVE  /\ \A c \in Calls : args[c] # None => args'[c] = args[c]
             /\ overlapped \subseteq overlapped'
             /\ \A f \in Executions : run[f].stage \in {"respond", "over"} => run'[f].stage \in {"respond", "over"}
  <2>1. Moves(e) /\ UNCHANGED <<args, overlapped>>
    BY <1>1, MoveSteps DEF Base
  <2>2. run[e].stage \in {"respond", "over"} => run'[e].stage \in {"respond", "over"}
    BY <2>1 DEF Moves
  <2>3. QED BY <2>1, <2>2 DEF Moves
<1>2. ASSUME NEW c \in Calls, Issue(c) \/ Redeliver(c)
      PROVE  /\ \A x \in Calls : args[x] # None => args'[x] = args[x]
             /\ overlapped \subseteq overlapped'
             /\ \A f \in Executions : run[f].stage \in {"respond", "over"} => run'[f].stage \in {"respond", "over"}
  <2>1. /\ (run' = run /\ args' = args) \/ \E k \in 0 .. MaxRetries : Begins(c, k)
        /\ \A x \in Calls : x # c => args'[x] = args[x]
        /\ args[c] # None => args'[c] = args[c]
        /\ overlapped \subseteq overlapped'
    BY <1>2, BeginSteps DEF Base
  <2>2. QED BY <2>1 DEF Begins
<1>3. CASE UNCHANGED vars
  BY <1>3 DEF vars
<1>4. QED BY <1>1, <1>2, <1>3, StepKinds

\* Beginning an execution writes nothing.
LEMMA BeginsWrite ==
  ASSUME NEW c \in Calls, Issue(c) \/ Redeliver(c)
  PROVE  UNCHANGED <<documents, revisions, objects, result>>
BY DEF Issue, Redeliver

\* A step writes one revision, that of the execution that commits, or none.
LEMMA RevisionSteps ==
  ASSUME Base, [Next]_vars
  PROVE  \/ UNCHANGED <<documents, revisions>>
         \/ \E e \in Executions, d \in Executions, v \in Nat : Acts(e) /\ Commits(e, d, v)
<1>1. ASSUME NEW e \in Executions, Acts(e)
      PROVE  UNCHANGED <<documents, revisions>> \/ \E d \in Executions, v \in Nat : Acts(e) /\ Commits(e, d, v)
  BY <1>1, CommitSteps DEF Spares
<1>2. CASE UNCHANGED vars
  BY <1>2 DEF vars
<1>3. QED BY <1>1, <1>2, BeginsWrite, StepKinds

\* What a commit adds.
LEMMA NewRevision ==
  ASSUME Base, NEW e \in Executions, NEW d \in Executions, NEW v \in Nat, Acts(e), Commits(e, d, v)
  PROVE  \E n : /\ revisions' = revisions \cup {n} /\ n.doc = d /\ n.version = v /\ n.call = e[1] /\ n.op = args[e[1]].op
                /\ n.ref = run[e].ref /\ n.hash = run[e].hash
                /\ e[1] \in Calls /\ args[e[1]] \in Arguments /\ args[e[1]] # None /\ UNCHANGED <<args, overlapped>>
<1> DEFINE n == revision_payload(e, d, v)
<1>1. revisions' = revisions \cup {n} /\ run[e].stage = "commit"
  BY DEF Commits
<1>2. n.doc = d /\ n.version = v /\ n.call = e[1] /\ n.op = args[e[1]].op /\ n.ref = run[e].ref /\ n.hash = run[e].hash
  BY DEF revision_payload
<1>3. e[1] \in Calls /\ args[e[1]] \in Arguments /\ args[e[1]] # None /\ UNCHANGED <<args, overlapped>>
  BY <1>1, Issued, MoveSteps DEF Base
<1> HIDE DEF n
<1>4. QED BY <1>1, <1>2, <1>3

LEMMA RevisionsPreserved ==
  ASSUME Base, Revisions, Linear, [Next]_vars
  PROVE  Revisions'
<1>1. /\ \A c \in Calls : args[c] # None => args'[c] = args[c]
      /\ \A f \in Executions : run[f].stage \in {"respond", "over"} => run'[f].stage \in {"respond", "over"}
  BY Settled
<1>2. \A r \in revisions :
        /\ r.doc \in Executions /\ r.call \in Calls
        /\ args'[r.call] # None /\ r.op = args'[r.call].op /\ r.op # "folder"
        /\ run'[r.doc].stage \in {"respond", "over"}
  BY <1>1 DEF Revisions
<1>3. CASE UNCHANGED <<documents, revisions>>
  BY <1>2, <1>3 DEF Revisions
<1>4. ASSUME NEW e \in Executions, NEW d \in Executions, NEW v \in Nat, Acts(e), Commits(e, d, v)
      PROVE  Revisions'
  <2>1. PICK n : /\ revisions' = revisions \cup {n} /\ n.doc = d /\ n.call = e[1] /\ n.op = args[e[1]].op
                 /\ e[1] \in Calls /\ args[e[1]] # None
    BY <1>4, NewRevision
  <2>2. find_revision_by_tool_call(e[1]) = {} /\ n.op # "folder"
    BY <1>4, <2>1 DEF Commits
  <2>3. run'[d].stage \in {"respond", "over"}
    <3>1. CASE args[e[1]].op = "create"
      BY <1>4, <3>1 DEF Commits
    <3>2. CASE args[e[1]].op # "create"
      <4>1. documents[d] # None
        BY <1>4, <3>2 DEF Commits, Matches
      <4>2. PICK r \in RevisionsOf(d) : TRUE
        BY <4>1 DEF Linear
      <4>3. QED BY <1>2, <4>2 DEF RevisionsOf
    <3>3. QED BY <3>1, <3>2
  <2>4. args'[e[1]] = args[e[1]]
    BY <1>1, <2>1
  <2>5. QED BY <1>2, <2>1, <2>2, <2>3, <2>4 DEF Revisions, find_revision_by_tool_call
<1>5. QED BY <1>3, <1>4, RevisionSteps

LEMMA UnwrittenPreserved ==
  ASSUME Base, Revisions, Revisions', Unwritten, [Next]_vars
  PROVE  Unwritten'
<1> SUFFICES ASSUME NEW f \in Executions, run'[f].stage \in Past, f[1] \notin overlapped',
                    NEW s \in revisions', s.call = f[1]
             PROVE  FALSE
  BY DEF Unwritten, find_revision_by_tool_call
<1>0. f[1] \notin overlapped
  BY Settled
<1>1. ASSUME NEW e \in Executions, Acts(e)
      PROVE  FALSE
  <2>1. Moves(e)
    BY <1>1, MoveSteps DEF Base
  <2>2. find_revision_by_tool_call(f[1]) = {}
    <3>1. CASE f = e
      <4>1. run[e].stage \in Past \/ find_revision_by_tool_call(e[1]) = {}
        BY <2>1, <3>1 DEF Moves, Past
      <4>2. QED BY <1>0, <3>1, <4>1 DEF Unwritten
    <3>2. CASE f # e
      BY <1>0, <2>1, <3>2 DEF Moves, Unwritten
    <3>3. QED BY <3>1, <3>2
  <2>3. CASE Spares(e)
    BY <2>2, <2>3 DEF Spares, find_revision_by_tool_call
  <2>4. ASSUME NEW d \in Executions, NEW v \in Nat, Commits(e, d, v)
        PROVE  FALSE
    <3>1. PICK n : revisions' = revisions \cup {n} /\ n.call = e[1]
      BY <1>1, <2>4, NewRevision
    <3>2. s = n /\ f[1] = e[1]
      BY <2>2, <3>1 DEF find_revision_by_tool_call
    <3>3. run'[e].stage = "respond" /\ run[e].stage = "commit"
      BY <2>4 DEF Commits
    <3>4. f # e /\ run[f].stage \in Past
      BY <2>1, <3>3 DEF Moves, Past
    <3>5. QED BY <1>0, <3>2, <3>3, <3>4 DEF Base, Alone, Past, Live, Stages
  <2>5. QED BY <1>1, <2>3, <2>4, CommitSteps
<1>2. ASSUME NEW c \in Calls, Issue(c) \/ Redeliver(c)
      PROVE  FALSE
  <2>1. s \in revisions
    BY <1>2, BeginsWrite
  <2>2. ASSUME run[f].stage \in Past
        PROVE  FALSE
    BY <1>0, <2>1, <2>2 DEF Unwritten, find_revision_by_tool_call
  <2>3. PICK k \in 0 .. MaxRetries : Begins(c, k)
    BY <1>2, <2>2, BeginSteps DEF Base
  <2>4. f = <<c, k + 1>> /\ f[1] = c /\ run'[f].stage = FirstStage(args'[c].op)
    BY <2>2, <2>3 DEF Begins
  <2>5. args'[c].op = "folder"
    BY <2>4 DEF FirstStage, Past
  <2>6. QED BY <2>4, <2>5 DEF Revisions
<1>3. CASE UNCHANGED vars
  BY <1>0, <1>3 DEF vars, Unwritten, find_revision_by_tool_call
<1>4. QED BY <1>1, <1>2, <1>3, StepKinds

LEMMA LinearPreserved ==
  ASSUME Base, Revisions, Linear, [Next]_vars
  PROVE  Linear'
<1>1. CASE UNCHANGED <<documents, revisions>>
  BY <1>1 DEF Linear, RevisionsOf
<1>2. ASSUME NEW e \in Executions, NEW d \in Executions, NEW v \in Nat, Acts(e), Commits(e, d, v)
      PROVE  Linear'
  <2>1. PICK n : /\ revisions' = revisions \cup {n} /\ n.doc = d /\ n.version = v /\ n.op = args[e[1]].op
                 /\ n.ref = run[e].ref /\ n.hash = run[e].hash
    BY <1>2, NewRevision
  <2>2. documents' = [documents EXCEPT ![d] = [status |-> status_for_revision(args[e[1]].op), version |-> v,
                                               ref |-> run[e].ref, hash |-> run[e].hash]]
    BY <1>2 DEF Commits
  <2>3. /\ \A x \in Executions \ {d} : documents'[x] = documents[x] /\ RevisionsOf(x)' = RevisionsOf(x)
        /\ RevisionsOf(d)' = RevisionsOf(d) \cup {n}
    BY <2>1, <2>2 DEF RevisionsOf, Base, Shape
  <2>4. /\ documents'[d].version = v /\ documents'[d].ref = n.ref /\ documents'[d].hash = n.hash
        /\ documents'[d].status = status_for_revision(n.op)
    BY <2>1, <2>2 DEF Base, Shape
  <2> DEFINE Good(x) ==
        /\ documents[x].version \in Nat \ {0}
        /\ \A r \in RevisionsOf(x) : r.version \in 1 .. documents[x].version
        /\ \A w \in 1 .. documents[x].version : \E r \in RevisionsOf(x) : r.version = w
        /\ \A r, s \in RevisionsOf(x) : r.version = s.version => r = s
        /\ \E r \in RevisionsOf(x) :
             /\ r.version = documents[x].version /\ r.ref = documents[x].ref /\ r.hash = documents[x].hash
             /\ status_for_revision(r.op) = documents[x].status
  <2>5. \A x \in Executions \ {d} : documents'[x] # None => Good(x)'
    BY <2>3 DEF Linear
  <2>6. Good(d)'
    <3>1. CASE args[e[1]].op = "create"
      <4>1. d = e /\ v = 1 /\ run[e].stage = "commit"
        BY <1>2, <3>1 DEF Commits
      <4>2. RevisionsOf(d)' = {n}
        BY <2>3, <4>1 DEF Revisions, RevisionsOf
      <4>3. QED BY <2>1, <2>4, <4>1, <4>2
    <3>2. CASE args[e[1]].op # "create"
      <4>1. /\ documents[d] # None /\ v = documents[d].version + 1 /\ v \in Nat \ {0}
            /\ ~ \E r \in revisions : r.doc = d /\ r.version = v
        BY <1>2, <3>2 DEF Commits, Matches
      <4>2. Good(d)
        BY <4>1 DEF Linear
      <4>3. ~ \E r \in RevisionsOf(d) : r.version = v
        BY <4>1 DEF RevisionsOf
      <4>4. n \in RevisionsOf(d)'
        BY <2>3
      <4>5. documents'[d].version = documents[d].version + 1 /\ documents[d].version \in Nat \ {0}
        BY <2>4, <4>1, <4>2
      <4>6. \A r \in RevisionsOf(d)' : r.version \in 1 .. documents'[d].version
        BY <2>1, <2>3, <4>1, <4>2, <4>5
      <4>7. \A w \in 1 .. documents'[d].version : \E r \in RevisionsOf(d)' : r.version = w
        BY <2>1, <2>3, <4>1, <4>2, <4>5
      <4>8. \A r, s \in RevisionsOf(d)' : r.version = s.version => r = s
        BY <2>1, <2>3, <4>2, <4>3
      <4>9. QED BY <2>1, <2>4, <4>1, <4>4, <4>6, <4>7, <4>8
    <3>3. QED BY <3>1, <3>2
  <2> HIDE DEF Good
  <2>7. \A x \in Executions : documents'[x] # None => Good(x)'
    BY <2>5, <2>6
  <2>8. QED BY <2>7 DEF Linear, Good
<1>3. QED BY <1>1, <1>2, RevisionSteps

-----------------------------------------------------------------------------
(* Objects                                                                 *)

\* The objects a call writes for a version are named after the call, and the content
\* is one of them.
LEMMA WrittenObjects ==
  ASSUME NEW e, NEW d, NEW v, NEW merged
  PROVE  /\ ContentKey(d, v, e[1]).call = e[1]
         /\ \A k \in DOMAIN VersionObjects(e, d, v, merged) : k.call = e[1]
         /\ ContentKey(d, v, e[1]) \in DOMAIN VersionObjects(e, d, v, merged)
         /\ VersionObjects(e, d, v, merged)[ContentKey(d, v, e[1])] = _render_document_content(e[1], merged)
<1> DEFINE c == e[1]
           rows == IF args[c].parts = {} THEN [s \in {} |-> None] ELSE _section_rows(e, d, v, merged)
           keys == {ContentKey(d, v, c)} \cup {rows[s].ref : s \in DOMAIN rows}
<1>1. VersionObjects(e, d, v, merged) =
        [k \in keys |-> IF k.part = Body THEN _render_document_content(c, merged) ELSE rows[k.part].hash]
  BY DEF VersionObjects
<1>2. ContentKey(d, v, c).call = c /\ ContentKey(d, v, c).part = Body
  BY DEF ContentKey, document_content_key
<1>3. \A s \in DOMAIN rows : rows[s].ref.call = c
  <2>1. CASE args[c].parts = {}
    BY <2>1
  <2>2. CASE args[c].parts # {}
    <3>1. rows = _section_rows(e, d, v, merged)
      BY <2>2
    <3>2. \A s \in DOMAIN merged : document_content_key(d, s, merged[s].id, v, c).call = c
      BY DEF document_content_key
    <3>3. QED BY <3>1, <3>2 DEF _section_rows
  <2>3. QED BY <2>1, <2>2
<1> HIDE DEF rows
<1>4. QED BY <1>1, <1>2, <1>3

\* Writing objects keeps the others.
LEMMA PutKeeps ==
  ASSUME NEW contents, Put(contents), NEW c, \A k \in DOMAIN contents : k.call = c
  PROVE  /\ \A k \in DOMAIN objects : k \in DOMAIN objects' /\ (k.call # c => objects'[k] = objects[k])
         /\ \A k \in DOMAIN contents : k \in DOMAIN objects' /\ objects'[k] = contents[k]
BY DEF Put

\* What a step of execution e does to the objects, and what it is to commit.
Stores(e) ==
  /\ \A k \in DOMAIN objects : k \in DOMAIN objects' /\ (k.call # e[1] => objects'[k] = objects[k])
  /\ run[e].stage \notin {"put", "prepare"} => objects' = objects
  /\ run[e].stage \in {"put", "prepare"} /\ run'[e].stage = "commit" /\ args[e[1]].op # "folder" =>
       /\ run'[e].ref \in DOMAIN objects' /\ objects'[run'[e].ref] = run'[e].hash
       /\ run'[e].ref.call = e[1]
  /\ run[e].stage = "load" /\ run'[e].stage = "commit" =>
       LET d == documents[args[e[1]].on] IN d # None /\ run'[e].ref = d.ref /\ run'[e].hash = d.hash
LEMMA StoreSteps ==
  ASSUME Base, NEW e \in Executions, Acts(e)
  PROVE  Stores(e)
<1> USE DEF Stores
<1>0. Shape
  BY DEF Base
<1>1. CASE Die(e)
  BY <1>0, <1>1, FrameSteps DEF Die, Becomes
<1>2. CASE Respond(e)
  BY <1>2 DEF Respond
<1>3. CASE _replay_result(e)
  BY <1>3 DEF _replay_result
<1>4. CASE _document_for_analysis(e)
  <2> DEFINE s == IF args[e[1]].op = "update" THEN "sections" ELSE "commit"
             d == documents[args[e[1]].on]
  <2>1. (d # None /\ Keep(e, s, d.ref, d.hash, None)) \/ Answer(e, Error)
    BY <1>4 DEF _document_for_analysis
  <2>2. \/ d # None /\ Becomes(e, s, d.ref, d.hash, None, None)
        \/ Becomes(e, "respond", None, None, None, Error)
    BY <1>0, <2>1, FrameSteps
  <2>3. run'[e].stage = "commit" => d # None /\ run'[e].ref = d.ref /\ run'[e].hash = d.hash
    BY <2>2 DEF Becomes
  <2>4. objects' = objects /\ run[e].stage = "load"
    BY <1>4 DEF _document_for_analysis
  <2>5. QED BY <2>3, <2>4
<1>5. CASE ReadSections(e)
  BY <1>5 DEF ReadSections
<1>6. CASE PutObjects(e)
  <2> DEFINE a == args[e[1]]
             r == ContentKey(a.on, a.at + 1, e[1])
             h == _render_document_content(e[1], run[e].base)
             objs == VersionObjects(e, a.on, a.at + 1, run[e].base)
  <2>1. Keep(e, "commit", r, h, run[e].base) /\ Put(objs) /\ run[e].stage = "put"
    BY <1>6 DEF PutObjects
  <2>2. run'[e].ref = r /\ run'[e].hash = h
    BY <1>0, <2>1, FrameSteps DEF Becomes
  <2>3. r.call = e[1] /\ (\A k \in DOMAIN objs : k.call = e[1]) /\ r \in DOMAIN objs /\ objs[r] = h
    BY WrittenObjects
  <2> HIDE DEF objs, r, h
  <2>4. /\ \A k \in DOMAIN objects : k \in DOMAIN objects' /\ (k.call # e[1] => objects'[k] = objects[k])
        /\ r \in DOMAIN objects' /\ objects'[r] = h
    BY <2>1, <2>3, PutKeeps
  <2>5. QED BY <2>1, <2>2, <2>3, <2>4
<1>7. CASE Prepare(e)
  <2> DEFINE a == args[e[1]]
             r == ContentKey(e, 1, e[1])
             h == _render_document_content(e[1], NewSections(e))
             objs == VersionObjects(e, e, 1, NewSections(e))
             refused == [k \in {r} |-> h]
  <2>1. /\ IF ParentAccepted(a.on) THEN Keep(e, "commit", r, h, NewSections(e)) ELSE Answer(e, Error)
        /\ IF a.op = "folder" THEN UNCHANGED objects ELSE Put(IF ParentAccepted(a.on) THEN objs ELSE refused)
        /\ run[e].stage = "prepare"
    BY <1>7 DEF Prepare
  <2>2. run'[e].stage = "commit" => ParentAccepted(a.on) /\ run'[e].ref = r /\ run'[e].hash = h
    <3>1. CASE ParentAccepted(a.on)
      <4>1. Keep(e, "commit", r, h, NewSections(e))
        BY <2>1, <3>1
      <4>2. QED BY <1>0, <3>1, <4>1, FrameSteps DEF Becomes
    <3>2. CASE ~ ParentAccepted(a.on)
      <4>1. Answer(e, Error)
        BY <2>1, <3>2
      <4>2. QED BY <1>0, <4>1, FrameSteps DEF Becomes
    <3>3. QED BY <3>1, <3>2
  <2>3. r.call = e[1] /\ (\A k \in DOMAIN objs : k.call = e[1]) /\ r \in DOMAIN objs /\ objs[r] = h
    BY WrittenObjects
  <2>4. \A k \in DOMAIN refused : k.call = e[1]
    BY <2>3
  <2> HIDE DEF objs, r, h, refused
  <2>5. CASE a.op = "folder"
    BY <2>1, <2>5
  <2>6. CASE a.op # "folder" /\ ParentAccepted(a.on)
    <3>1. Put(objs)
      BY <2>1, <2>6
    <3>2. /\ \A k \in DOMAIN objects : k \in DOMAIN objects' /\ (k.call # e[1] => objects'[k] = objects[k])
          /\ r \in DOMAIN objects' /\ objects'[r] = h
      BY <2>3, <3>1, PutKeeps
    <3>3. QED BY <2>1, <2>2, <2>3, <3>2
  <2>7. CASE a.op # "folder" /\ ~ ParentAccepted(a.on)
    <3>1. Put(refused)
      BY <2>1, <2>7
    <3>2. \A k \in DOMAIN objects : k \in DOMAIN objects' /\ (k.call # e[1] => objects'[k] = objects[k])
      BY <2>4, <3>1, PutKeeps
    <3>3. QED BY <2>1, <2>2, <2>7, <3>2
  <2>8. QED BY <2>5, <2>6, <2>7
<1>8. CASE add_folder_node(e)
  BY <1>8 DEF add_folder_node
<1>9. CASE add_document_with_revision(e)
  BY <1>9 DEF add_document_with_revision
<1>10. CASE update_document_with_revision(e)
  BY <1>10 DEF update_document_with_revision
<1>11. QED BY <1>1, <1>2, <1>3, <1>4, <1>5, <1>6, <1>7, <1>8, <1>9, <1>10 DEF Acts

\* Held after a step.
HeldNext(ref, hash) == ref \in DOMAIN objects' /\ (ref.call \notin overlapped' => objects'[ref] = hash)
LEMMA ObjectsPreserved ==
  ASSUME Base, Revisions, Unwritten, Linear, Objects, [Next]_vars
  PROVE  Objects'
<1>1. ASSUME NEW e \in Executions, Acts(e)
      PROVE  Objects'
  <2>1. Moves(e) /\ UNCHANGED <<args, overlapped>>
    BY <1>1, MoveSteps DEF Base
  <2>2. Stores(e)
    BY <1>1, StoreSteps
  <2>3. \A r \in revisions : HeldNext(r.ref, r.hash) /\ \E s \in revisions : s.call = r.ref.call
    <3> SUFFICES ASSUME NEW r \in revisions
                 PROVE  HeldNext(r.ref, r.hash)
      BY DEF Objects
    <3>1. Held(r.ref, r.hash)
      BY DEF Objects
    <3>2. PICK s \in revisions : s.call = r.ref.call
      BY DEF Objects
    <3>3. r.ref \in DOMAIN objects'
      BY <2>2, <3>1 DEF Held, HeldNext, Stores
    <3>4. ASSUME r.ref.call \notin overlapped, r.ref.call = e[1]
          PROVE  objects' = objects
      <4>1. find_revision_by_tool_call(e[1]) # {}
        BY <3>2, <3>4 DEF find_revision_by_tool_call
      <4>2. run[e].stage \notin {"put", "prepare"}
        BY <3>4, <4>1 DEF Unwritten, Past
      <4>3. QED BY <2>2, <4>2 DEF Stores
    <3>5. r.ref.call \notin overlapped => objects'[r.ref] = objects[r.ref]
      BY <2>2, <3>1, <3>4 DEF Held, HeldNext, Stores
    <3>6. QED BY <2>1, <3>1, <3>3, <3>5 DEF Held, HeldNext
  <2>4. revisions \subseteq revisions'
    BY <1>1, CommitSteps DEF Spares, Commits
  <2>5. \A r \in revisions' : HeldNext(r.ref, r.hash) /\ \E s \in revisions' : s.call = r.ref.call
    <3>1. CASE Spares(e)
      BY <2>3, <3>1 DEF Spares
    <3>2. ASSUME NEW d \in Executions, NEW v \in Nat, Commits(e, d, v)
          PROVE  \A r \in revisions' : HeldNext(r.ref, r.hash) /\ \E s \in revisions' : s.call = r.ref.call
      <4>1. PICK n : revisions' = revisions \cup {n} /\ n.call = e[1] /\ n.ref = run[e].ref /\ n.hash = run[e].hash
        BY <1>1, <3>2, NewRevision
      <4>2. /\ run[e].stage = "commit" /\ args[e[1]].op \in {"create", "update", "delete", "finalize"}
            /\ UNCHANGED objects
        BY <3>2 DEF Commits
      <4>3. CASE args[e[1]].op \in {"create", "update"}
        <5>1. Held(n.ref, n.hash) /\ n.ref.call = e[1]
          BY <4>1, <4>2, <4>3 DEF Objects
        <5>2. HeldNext(n.ref, n.hash)
          BY <2>1, <4>2, <5>1 DEF Held, HeldNext
        <5>3. QED BY <2>3, <2>4, <4>1, <5>1, <5>2
      <4>4. CASE args[e[1]].op \in {"delete", "finalize"}
        <5>1. PICK r \in revisions : r.ref = n.ref /\ r.hash = n.hash
          BY <4>1, <4>2, <4>4 DEF Objects
        <5>2. QED BY <2>3, <2>4, <4>1, <5>1
      <4>5. QED BY <4>2, <4>3, <4>4
    <3>3. QED BY <1>1, <3>1, <3>2, CommitSteps
  <2>6. ASSUME NEW f \in Executions, run'[f].stage = "commit"
        PROVE  /\ args[f[1]].op \in {"create", "update"} => HeldNext(run'[f].ref, run'[f].hash) /\ run'[f].ref.call = f[1]
               /\ args[f[1]].op \in {"delete", "finalize"} =>
                    \E r \in revisions' : r.ref = run'[f].ref /\ r.hash = run'[f].hash
    <3>1. CASE f = e /\ run[e].stage = "load"
      <4>1. args[e[1]].op \in {"update", "delete", "finalize"} /\ args[e[1]].op # "update"
        BY <2>1, <2>6, <3>1 DEF Moves, Base, Kinds
      <4> DEFINE d == args[e[1]].on
      <4>2. documents[d] # None /\ run'[e].ref = documents[d].ref /\ run'[e].hash = documents[d].hash
        BY <2>2, <2>6, <3>1 DEF Stores
      <4>3. d \in Executions
        BY <3>1, <4>1, Issued, Ops DEF Base
      <4>4. \E r \in RevisionsOf(d) : r.ref = documents[d].ref /\ r.hash = documents[d].hash
        BY <4>2, <4>3 DEF Linear
      <4>5. QED BY <2>4, <3>1, <4>1, <4>2, <4>4 DEF RevisionsOf
    <3>2. CASE f = e /\ run[e].stage # "load"
      <4>1. run[e].stage \in {"put", "prepare"}
        BY <2>1, <2>6, <3>2 DEF Moves
      <4>2. args[e[1]].op \in {"folder", "create", "update"}
        BY <4>1 DEF Base, Kinds
      <4>3. QED BY <2>2, <2>6, <3>2, <4>1, <4>2 DEF Stores, HeldNext
    <3>3. CASE f # e
      <4>1. run'[f] = run[f] /\ run[f].stage = "commit"
        BY <2>1, <2>6, <3>3 DEF Moves
      <4>2. ASSUME args[f[1]].op \in {"create", "update"}
            PROVE  HeldNext(run[f].ref, run[f].hash) /\ run[f].ref.call = f[1]
        <5>1. Held(run[f].ref, run[f].hash) /\ run[f].ref.call = f[1]
          BY <4>1, <4>2 DEF Objects
        <5>2. f[1] \notin overlapped => f[1] # e[1]
          BY <2>1, <3>3, <4>1 DEF Base, Alone, Moves, Live, Stages
        <5>3. QED BY <2>1, <2>2, <5>1, <5>2 DEF Held, HeldNext, Stores
      <4>3. args[f[1]].op \in {"delete", "finalize"} => \E r \in revisions : r.ref = run[f].ref /\ r.hash = run[f].hash
        BY <4>1 DEF Objects
      <4>4. QED BY <2>4, <4>1, <4>2, <4>3
    <3>4. QED BY <3>1, <3>2, <3>3
  <2>7. QED BY <2>1, <2>5, <2>6 DEF Objects, Held, HeldNext
<1>2. ASSUME NEW c \in Calls, Issue(c) \/ Redeliver(c)
      PROVE  Objects'
  <2>1. UNCHANGED <<documents, revisions, objects, result>> /\ overlapped \subseteq overlapped'
    BY <1>2, BeginsWrite, Settled
  <2>2. \A ref, hash : Held(ref, hash) => HeldNext(ref, hash)
    BY <2>1 DEF Held, HeldNext
  <2>3. \A f \in Executions : run'[f].stage = "commit" => run'[f] = run[f] /\ args'[f[1]] = args[f[1]]
    <3> SUFFICES ASSUME NEW f \in Executions, run'[f].stage = "commit"
                 PROVE  run'[f] = run[f] /\ args'[f[1]] = args[f[1]]
      OBVIOUS
    <3>1. run'[f] = run[f]
      BY <1>2, BeginSteps DEF Base, Begins, FirstStage
    <3>2. QED BY <3>1, Issued, Settled DEF Base
  <2>4. QED BY <2>1, <2>2, <2>3 DEF Objects, Held, HeldNext
<1>3. CASE UNCHANGED vars
  BY <1>3 DEF vars, Objects, Held
<1>4. QED BY <1>1, <1>2, <1>3, StepKinds

-----------------------------------------------------------------------------
(* Results                                                                 *)

\* Only Respond stores results.
LEMMA ResultSteps ==
  ASSUME NEW e \in Executions, Acts(e), ~ Respond(e)
  PROVE  result' = result
BY DEF Acts, Die, _replay_result, _document_for_analysis, ReadSections, PutObjects, Prepare, add_folder_node,
       add_document_with_revision, update_document_with_revision

\* Truth after a step.
TruthNext(c, out) ==
  {[id |-> r.doc, version |-> r.version] : r \in {x \in revisions' : x.call = c}} =
    IF out.ok THEN {[id |-> out.id, version |-> out.version]} ELSE {}
LEMMA ToldPreserved ==
  ASSUME Base, Revisions, Unwritten, Told, [Next]_vars
  PROVE  Told'
<1>1. ASSUME NEW e \in Executions, Acts(e)
      PROVE  Told'
  <2>1. Moves(e) /\ UNCHANGED <<args, overlapped>>
    BY <1>1, MoveSteps DEF Base
  <2>2. e[1] \in Calls /\ args[e[1]] # None
    BY <2>1, Issued DEF Moves, Base, Live
  <2>3. \A c \in Calls : c # e[1] => find_revision_by_tool_call(c)' = find_revision_by_tool_call(c)
    <3>1. CASE Spares(e)
      BY <3>1 DEF Spares, find_revision_by_tool_call
    <3>2. ASSUME NEW d \in Executions, NEW v \in Nat, Commits(e, d, v)
          PROVE  \A c \in Calls : c # e[1] => find_revision_by_tool_call(c)' = find_revision_by_tool_call(c)
      <4>1. PICK n : revisions' = revisions \cup {n} /\ n.call = e[1]
        BY <1>1, <3>2, NewRevision
      <4>2. QED BY <4>1 DEF find_revision_by_tool_call
    <3>3. QED BY <1>1, <3>1, <3>2, CommitSteps
  <2>4. ASSUME NEW f \in Executions, run'[f].stage = "respond", f[1] \notin overlapped, args[f[1]].op # "folder"
        PROVE  TruthNext(f[1], run'[f].out)
    <3>1. CASE f = e
      <4>1. CASE Spares(e)
        <5>1. find_revision_by_tool_call(e[1])' = find_revision_by_tool_call(e[1])
          BY <4>1 DEF Spares, find_revision_by_tool_call
        <5>2. CASE run[e].stage \in Past /\ run'[e].out.ok = FALSE
          <6>1. find_revision_by_tool_call(e[1]) = {}
            BY <2>4, <3>1, <5>2 DEF Unwritten
          <6>2. QED BY <3>1, <5>1, <5>2, <6>1 DEF Truth, TruthNext, find_revision_by_tool_call
        <5>3. ASSUME NEW r \in find_revision_by_tool_call(e[1]),
                     run'[e].out.ok /\ run'[e].out.id = r.doc /\ run'[e].out.version = r.version
              PROVE  TruthNext(f[1], run'[f].out)
          <6>1. find_revision_by_tool_call(e[1]) = {r}
            BY <5>3 DEF Revisions, find_revision_by_tool_call
          <6>2. QED BY <3>1, <5>1, <5>3, <6>1 DEF Truth, TruthNext, find_revision_by_tool_call
        <5>4. QED BY <2>4, <3>1, <4>1, <5>2, <5>3 DEF Spares
      <4>2. ASSUME NEW d \in Executions, NEW v \in Nat, Commits(e, d, v)
            PROVE  TruthNext(f[1], run'[f].out)
        <5>1. PICK n : revisions' = revisions \cup {n} /\ n.call = e[1] /\ n.doc = d /\ n.version = v
          BY <1>1, <4>2, NewRevision
        <5>2. find_revision_by_tool_call(e[1])' = {n}
          BY <4>2, <5>1 DEF Commits, find_revision_by_tool_call
        <5>3. run'[e].out.ok /\ run'[e].out.id = d /\ run'[e].out.version = v
          BY <4>2 DEF Commits
        <5>4. QED BY <3>1, <5>1, <5>2, <5>3 DEF TruthNext, find_revision_by_tool_call
      <4>3. QED BY <1>1, <4>1, <4>2, CommitSteps
    <3>2. CASE f # e
      <4>1. run'[f] = run[f] /\ run[f].stage = "respond"
        BY <2>1, <2>4, <3>2 DEF Moves
      <4>2. f[1] # e[1] /\ f[1] \in Calls
        BY <2>1, <2>4, <3>2, <4>1, Pairs DEF Base, Alone, Moves, Live, Stages
      <4>3. QED BY <2>3, <2>4, <4>1, <4>2 DEF Told, Truth, TruthNext, find_revision_by_tool_call
    <3>3. QED BY <3>1, <3>2
  <2>5. ASSUME NEW c \in Calls, result'[c] # None
        PROVE  /\ args[c] # None
               /\ c \notin overlapped => /\ \A f \in Executions : f[1] = c => run'[f].stage \notin Live
                                         /\ args[c].op # "folder" => TruthNext(c, result'[c])
    <3>1. CASE Respond(e) /\ c = e[1] /\ Latest(e)
      <4>1. run[e].stage = "respond" /\ result' = [result EXCEPT ![c] = run[e].out] /\ revisions' = revisions
        BY <3>1 DEF Respond
      <4>2. result'[c] = run[e].out
        BY <2>2, <3>1, <4>1 DEF Base, Shape
      <4>3. run'[e].stage = "over"
        BY <3>1, FrameSteps DEF Base, Respond, Becomes
      <4>4. ASSUME c \notin overlapped, NEW f \in Executions, f[1] = c
            PROVE  run'[f].stage \notin Live
        BY <2>1, <3>1, <4>3, <4>4 DEF Base, Alone, Moves, Live
      <4>5. c \notin overlapped /\ args[c].op # "folder" => Truth(c, run[e].out)
        BY <3>1, <4>1 DEF Told
      <4>6. QED BY <2>2, <3>1, <4>1, <4>2, <4>4, <4>5 DEF Truth, TruthNext, find_revision_by_tool_call
    <3>2. CASE ~ (Respond(e) /\ c = e[1] /\ Latest(e))
      <4>1. result'[c] = result[c]
        BY <1>1, <2>2, <3>2, ResultSteps DEF Respond, Base, Shape
      <4>2. c \notin overlapped => c # e[1]
        BY <2>1, <2>5, <4>1 DEF Told, Moves
      <4>3. c \notin overlapped => \A f \in Executions : f[1] = c => run'[f].stage \notin Live
        BY <2>1, <2>5, <4>1, <4>2 DEF Told, Moves
      <4>4. QED BY <2>3, <2>5, <4>1, <4>2, <4>3 DEF Told, Truth, TruthNext, find_revision_by_tool_call
    <3>3. QED BY <3>1, <3>2
  <2>6. QED BY <2>1, <2>4, <2>5 DEF Told, Truth, TruthNext, find_revision_by_tool_call
<1>2. ASSUME NEW c \in Calls, Issue(c) \/ Redeliver(c)
      PROVE  Told'
  <2>1. UNCHANGED <<documents, revisions, objects, result>> /\ overlapped \subseteq overlapped'
    BY <1>2, BeginsWrite, Settled
  <2>2. \A x, out : TruthNext(x, out) <=> Truth(x, out)
    BY <2>1 DEF Truth, TruthNext, find_revision_by_tool_call
  <2>3. ASSUME NEW f \in Executions, run'[f].stage = "respond", f[1] \notin overlapped', args'[f[1]].op # "folder"
        PROVE  Truth(f[1], run'[f].out)
    <3>1. run'[f] = run[f]
      BY <1>2, <2>3, BeginSteps DEF Base, Begins, FirstStage
    <3>2. args'[f[1]] = args[f[1]]
      BY <2>3, <3>1, Issued, Settled DEF Base
    <3>3. QED BY <2>1, <2>3, <3>1, <3>2 DEF Told
  <2>4. ASSUME NEW x \in Calls, result[x] # None
        PROVE  /\ args'[x] # None
               /\ x \notin overlapped' => /\ \A f \in Executions : f[1] = x => run'[f].stage \notin Live
                                          /\ args'[x].op # "folder" => Truth(x, result[x])
    <3>1. args[x] # None /\ args'[x] = args[x]
      BY <2>4, Settled DEF Told
    <3>2. x # c
      BY <1>2, <2>4, <3>1, BeginSteps DEF Base
    <3>3. ASSUME NEW f \in Executions, f[1] = x
          PROVE  run'[f] = run[f]
      <4>1. ASSUME NEW k \in 0 .. MaxRetries
            PROVE  f # <<c, k + 1>>
        BY <3>2, <3>3
      <4>2. run' = run \/ \E k \in 0 .. MaxRetries : Begins(c, k)
        BY <1>2, BeginSteps DEF Base
      <4>3. ASSUME NEW k \in 0 .. MaxRetries, Begins(c, k)
            PROVE  run'[f] = run[f]
        <5>1. \A g \in Executions \ {<<c, k + 1>>} : run'[g] = run[g]
          BY <4>3 DEF Begins
        <5>2. QED BY <4>1, <5>1
      <4>4. QED BY <4>2, <4>3
    <3>4. QED BY <2>1, <2>4, <3>1, <3>3 DEF Told
  <2>5. QED BY <2>1, <2>2, <2>3, <2>4 DEF Told, Truth, TruthNext, find_revision_by_tool_call
<1>3. CASE UNCHANGED vars
  BY <1>3 DEF vars, Told, Truth, find_revision_by_tool_call
<1>4. QED BY <1>1, <1>2, <1>3, StepKinds

-----------------------------------------------------------------------------
(* The theorems                                                            *)

LEMMA InvInit == Init => IInv
<1> SUFFICES ASSUME Init
             PROVE  IInv
  OBVIOUS
<1>1. \A e \in Executions : e[1] \in Calls /\ run[e] = Idle /\ run[e].stage = "off" /\ documents[e] = None
  BY Pairs DEF Init, Idle
<1>2. Shape
  BY <1>1 DEF Init, Shape, Frame, Idle, Stages
<1>3. Consecutive
  <2>1. ASSUME NEW c \in Calls
        PROVE  Started(c) = 1 .. 0 /\ args[c] = None
    BY <1>1, Pairs DEF Init, Started
  <2>2. 0 \in 0 .. MaxRetries + 1
    OBVIOUS
  <2>3. QED BY <2>1, <2>2 DEF Consecutive
<1>4. Alone /\ Kinds /\ Unwritten /\ Linear
  BY <1>1 DEF Alone, Kinds, Unwritten, Past, Linear, Live, Stages
<1>5. Revisions /\ Objects /\ Told
  BY <1>1 DEF Init, Revisions, Objects, Told
<1>6. QED BY <1>2, <1>3, <1>4, <1>5 DEF IInv, Base

LEMMA InvStep == IInv /\ [Next]_vars => IInv'
<1> SUFFICES ASSUME IInv, [Next]_vars
             PROVE  IInv'
  OBVIOUS
<1> USE DEF IInv
<1>1. Base'
  <2>1. ASSUME NEW e \in Executions, Acts(e)
        PROVE  Base'
    <3>1. documents' = [d \in Executions |-> documents'[d]]
      BY <2>1, CommitSteps DEF Spares, Commits, Base, Shape
    <3>2. result' = [c \in Calls |-> result'[c]]
      <4>1. CASE Respond(e)
        BY <4>1 DEF Respond, Base, Shape
      <4>2. CASE ~ Respond(e)
        BY <2>1, <4>2, ResultSteps DEF Base, Shape
      <4>3. QED BY <4>1, <4>2
    <3>3. QED BY <2>1, <3>1, <3>2, BaseActs
  <2>2. CASE UNCHANGED vars
    BY <2>2 DEF vars, Base, Shape, Consecutive, Started, Alone, Kinds
  <2>3. QED BY <2>1, <2>2, BaseBegins, StepKinds
<1>2. Revisions' /\ Linear'
  BY RevisionsPreserved, LinearPreserved
<1>3. Unwritten' /\ Objects' /\ Told'
  BY <1>2, UnwrittenPreserved, ObjectsPreserved, ToldPreserved
<1>4. QED BY <1>1, <1>2, <1>3

\* The invariant holds in every reachable state.
THEOREM Invariant == Spec => []IInv
BY InvInit, InvStep, PTL DEF Spec

LEMMA LinearHistory == Linear => HistoryIsLinear
<1> SUFFICES ASSUME Linear, NEW d \in Executions, documents[d] # None
             PROVE  /\ {r.version : r \in RevisionsOf(d)} = 1 .. documents[d].version
                    /\ Cardinality(RevisionsOf(d)) = documents[d].version
                    /\ \E r \in RevisionsOf(d) :
                         /\ r.version = documents[d].version /\ r.ref = documents[d].ref
                         /\ r.hash = documents[d].hash /\ status_for_revision(r.op) = documents[d].status
  BY DEF HistoryIsLinear
<1> DEFINE R == RevisionsOf(d)
           n == documents[d].version
           numbered == [r \in R |-> r.version]
<1>1. /\ n \in Nat \ {0}
      /\ \A r \in R : r.version \in 1 .. n
      /\ \A v \in 1 .. n : \E r \in R : r.version = v
      /\ \A r, s \in R : r.version = s.version => r = s
      /\ \E r \in R : /\ r.version = n /\ r.ref = documents[d].ref /\ r.hash = documents[d].hash
                      /\ status_for_revision(r.op) = documents[d].status
  BY DEF Linear
<1> HIDE DEF R, n
<1>2. numbered \in Bijection(R, 1 .. n)
  BY <1>1 DEF Bijection, Injection, Surjection, IsInjective
<1>3. IsFiniteSet(1 .. n) /\ Cardinality(1 .. n) = n
  BY <1>1, FS_Interval
<1>4. Cardinality(R) = n
  BY <1>2, <1>3, FS_Injection DEF Bijection
<1>5. {r.version : r \in R} = 1 .. n
  BY <1>1
<1>6. QED BY <1>1, <1>4, <1>5 DEF R, n

\* The revisions of a document are numbered 1 .. version without gap or repetition,
\* and its row is that of the last one, whatever two calls saw before they wrote
\* (update_document_with_revision: the compare and swap on current_version).
THEOREM HistoryLinear == Spec => []HistoryIsLinear
<1>1. IInv => HistoryIsLinear
  BY LinearHistory DEF IInv
<1>2. QED BY <1>1, Invariant, PTL

\* The object of a revision exists and has the text whose digest the revision
\* records, unless its call was executed twice at once (document_content_key names
\* it after the call; objects are put before the transaction).
THEOREM ContentKept == Spec => []ContentIntact
<1>1. IInv => ContentIntact
  BY DEF IInv, Objects, Held, ContentIntact
<1>2. QED BY <1>1, Invariant, PTL

\* The stored result of a call names its revision or, for an error, says that there
\* is none, across deaths and redeliveries (_replay_result).
THEOREM ResultsTruthful == Spec => []ReportedTruthfully
<1>1. IInv => ReportedTruthfully
  BY DEF IInv, Told, Truth, ReportedTruthfully
<1>2. QED BY <1>1, Invariant, PTL

-----------------------------------------------------------------------------
(* Sections                                                                *)

\* The version an execution writes.
Target(e) == IF args[e[1]].op = "create" THEN e ELSE args[e[1]].on
Number(e) == IF args[e[1]].op = "create" THEN 1 ELSE args[e[1]].at + 1

\* A section's object is named after a call that has its revision.
SectionRefs ==
  /\ sections = [d \in Executions |-> sections[d]]
  /\ \A d \in Executions : \A s \in DOMAIN sections[d] :
       /\ s \in SectionIds /\ sections[d][s].ref \in DOMAIN objects
       /\ \E r \in revisions : r.call = sections[d][s].ref.call

\* An execution that is to commit sections has them all, rendered them and wrote
\* them, unless the document has moved on.
SectionKey(e, s) == document_content_key(Target(e), s, run[e].base[s].id, Number(e), e[1])
RenderedBy(e) ==
  run[e].stage \in {"put", "commit"} /\ args[e[1]].op \in {"create", "update"} =>
    /\ DOMAIN run[e].base \subseteq SectionIds /\ args[e[1]].parts \subseteq DOMAIN run[e].base
    /\ args[e[1]].op = "create" => DOMAIN run[e].base = args[e[1]].parts
    /\ args[e[1]].op = "update" /\ Matches(args[e[1]].on, args[e[1]].at) =>
         DOMAIN sections[args[e[1]].on] \subseteq DOMAIN run[e].base
    /\ run[e].stage = "commit" =>
         /\ run[e].hash = _render_document_content(e[1], run[e].base)
         /\ args[e[1]].parts # {} =>
              \A s \in DOMAIN run[e].base :
                /\ SectionKey(e, s) \in DOMAIN objects
                /\ e[1] \notin overlapped => objects[SectionKey(e, s)] = [p \in {s} |-> run[e].base[s].text]
Rendered == \A e \in Executions : RenderedBy(e)

\* delete and finalize carry the digest of the row they are to replace.
Copied ==
  \A e \in Executions :
    run[e].stage = "commit" /\ args[e[1]].op \in {"delete", "finalize"} /\ Matches(args[e[1]].on, args[e[1]].at) =>
      run[e].hash = documents[args[e[1]].on].hash

\* The document an execution has loaded was at the expected version.
Loaded ==
  \A e \in Executions :
    run[e].stage \in {"sections", "put", "commit"} /\ args[e[1]].op \in {"update", "delete", "finalize"} =>
      /\ \E r \in revisions : r.doc = args[e[1]].on
      /\ documents[args[e[1]].on].version \in Nat /\ args[e[1]].at <= documents[args[e[1]].on].version

SectionsInv == SectionRefs /\ Loaded /\ Rendered /\ Copied /\ SectionsAreTheContent

\* The rows of a commit that brings sections.
NewRows(e, d) ==
  /\ sections' = [x \in Executions |-> sections'[x]]
  /\ \A x \in Executions \ {d} : sections'[x] = sections[x]
  /\ DOMAIN sections'[d] = DOMAIN run[e].base
  /\ \A s \in DOMAIN run[e].base : sections'[d][s].ref = SectionKey(e, s)
LEMMA SectionSteps ==
  ASSUME Base, SectionRefs, Rendered, NEW e \in Executions, NEW d \in Executions, NEW v \in Nat, Acts(e), Commits(e, d, v)
  PROVE  /\ d = Target(e) /\ v = Number(e)
         /\ \/ args[e[1]].op \in {"delete", "finalize"} /\ sections' = sections
            \/ args[e[1]].op = "update" /\ args[e[1]].parts = {} /\ sections' = sections
            \/ /\ args[e[1]].op \in {"create", "update"} /\ NewRows(e, d)
               /\ args[e[1]].parts = {} => DOMAIN run[e].base = {}
<1> DEFINE a == args[e[1]]
           rows == _section_rows(e, d, v, run[e].base)
<1>1. /\ run[e].stage = "commit" /\ a.op \in {"create", "update", "delete", "finalize"}
      /\ a.op # "create" => Matches(d, a.at) /\ d = a.on
      /\ sections' = IF a.op = "create" THEN [sections EXCEPT ![d] = rows] ELSE IF a.parts = {} THEN sections
                     ELSE [sections EXCEPT ![d] = _upsert_section(d, rows)]
  BY DEF Commits
<1>2. d = Target(e) /\ v = Number(e)
  BY DEF Commits, Target, Number
<1>3. a \in Arguments
  BY <1>1, Issued DEF Base
<1>4. /\ DOMAIN rows = DOMAIN run[e].base
      /\ \A s \in DOMAIN run[e].base :
           /\ rows[s] = [id |-> rows[s].id, ref |-> rows[s].ref, hash |-> rows[s].hash]
           /\ rows[s].ref = SectionKey(e, s)
  BY <1>2 DEF _section_rows, SectionKey
<1> HIDE DEF rows
<1>5. sections = [x \in Executions |-> sections[x]]
  BY DEF SectionRefs
<1>6. CASE a.op \in {"delete", "finalize"}
  <2>1. a.parts = {}
    BY <1>3, <1>6 DEF Arguments
  <2>2. QED BY <1>1, <1>2, <1>6, <2>1
<1>7. CASE a.op = "update" /\ a.parts = {}
  BY <1>1, <1>2, <1>7
<1>8. CASE a.op = "create"
  <2>1. sections' = [sections EXCEPT ![d] = rows]
    BY <1>1, <1>8
  <2>2. NewRows(e, d)
    BY <1>4, <1>5, <2>1 DEF NewRows
  <2>3. DOMAIN run[e].base = a.parts
    BY <1>1, <1>8 DEF Rendered, RenderedBy
  <2>4. QED BY <1>2, <1>8, <2>2, <2>3
<1>9. CASE a.op = "update" /\ a.parts # {}
  <2> DEFINE up == _upsert_section(d, rows)
  <2>1. sections' = [sections EXCEPT ![d] = up]
    BY <1>1, <1>9
  <2>2. DOMAIN sections[d] \subseteq DOMAIN rows
    BY <1>1, <1>4, <1>9 DEF Rendered, RenderedBy
  <2>3. DOMAIN up = DOMAIN rows
    BY <2>2 DEF _upsert_section
  <2>4. ASSUME NEW s \in DOMAIN rows
        PROVE  up[s].ref = rows[s].ref
    <3>1. PICK i : up[s] = [rows[s] EXCEPT !.id = i]
      BY <2>4 DEF _upsert_section
    <3>2. rows[s] = [id |-> rows[s].id, ref |-> rows[s].ref, hash |-> rows[s].hash]
      BY <1>4, <2>4
    <3>3. QED BY <3>1, <3>2
  <2> HIDE DEF up
  <2>5. NewRows(e, d)
    BY <1>4, <1>5, <2>1, <2>3, <2>4 DEF NewRows
  <2>6. QED BY <1>2, <1>9, <2>5
<1>10. QED BY <1>1, <1>6, <1>7, <1>8, <1>9

\* What an execution carries from its reads to its transaction.
LEMMA Carried ==
  ASSUME Base, NEW e \in Executions, Acts(e)
  PROVE  /\ run'[e].stage = "put" => run'[e].base = _merged_sections(e) /\ run[e].stage = "sections"
         /\ run[e].stage = "put" /\ run'[e].stage = "commit" =>
              /\ run'[e].base = run[e].base /\ run'[e].hash = _render_document_content(e[1], run[e].base)
              /\ Put(VersionObjects(e, args[e[1]].on, args[e[1]].at + 1, run[e].base))
         /\ run[e].stage = "prepare" /\ run'[e].stage = "commit" =>
              /\ run'[e].base = NewSections(e) /\ run'[e].hash = _render_document_content(e[1], NewSections(e))
              /\ args[e[1]].op # "folder" => Put(VersionObjects(e, e, 1, NewSections(e)))
         /\ run'[e].stage = "sections" => run[e].stage = "load"
         /\ run[e].stage = "load" /\ run'[e].stage \in {"sections", "commit"} =>
              documents[args[e[1]].on] # None /\ documents[args[e[1]].on].version = args[e[1]].at
<1>0. Moves(e) /\ Shape
  BY MoveSteps DEF Base
<1>1. ASSUME run[e].stage = "sections", run'[e].stage = "put"
      PROVE  run'[e].base = _merged_sections(e)
  <2>1. ReadSections(e) \/ Die(e)
    BY <1>1 DEF Acts, Respond, _replay_result, _document_for_analysis, PutObjects, Prepare, add_folder_node,
                add_document_with_revision, update_document_with_revision
  <2>2. ~ Die(e)
    BY <1>0, <1>1, FrameSteps DEF Die, Becomes
  <2>3. Becomes(e, "put", None, None, _merged_sections(e), None)
    BY <1>0, <2>1, <2>2, FrameSteps DEF ReadSections
  <2>4. QED BY <2>3 DEF Becomes
<1>2. ASSUME run[e].stage = "put", run'[e].stage = "commit"
      PROVE  /\ run'[e].base = run[e].base /\ run'[e].hash = _render_document_content(e[1], run[e].base)
             /\ Put(VersionObjects(e, args[e[1]].on, args[e[1]].at + 1, run[e].base))
  <2>1. PutObjects(e) \/ Die(e)
    BY <1>2 DEF Acts, Respond, _replay_result, _document_for_analysis, ReadSections, Prepare, add_folder_node,
                add_document_with_revision, update_document_with_revision
  <2>2. ~ Die(e)
    BY <1>0, <1>2, FrameSteps DEF Die, Becomes
  <2> DEFINE r == ContentKey(args[e[1]].on, args[e[1]].at + 1, e[1])
             h == _render_document_content(e[1], run[e].base)
  <2>3. Keep(e, "commit", r, h, run[e].base) /\ Put(VersionObjects(e, args[e[1]].on, args[e[1]].at + 1, run[e].base))
    BY <2>1, <2>2 DEF PutObjects
  <2>4. Becomes(e, "commit", r, h, run[e].base, None)
    BY <1>0, <2>3, FrameSteps
  <2>5. QED BY <2>3, <2>4 DEF Becomes
<1>3. ASSUME run[e].stage = "prepare", run'[e].stage = "commit"
      PROVE  /\ run'[e].base = NewSections(e) /\ run'[e].hash = _render_document_content(e[1], NewSections(e))
             /\ args[e[1]].op # "folder" => Put(VersionObjects(e, e, 1, NewSections(e)))
  <2>1. Prepare(e) \/ Die(e)
    BY <1>3 DEF Acts, Respond, _replay_result, _document_for_analysis, ReadSections, PutObjects, add_folder_node,
                add_document_with_revision, update_document_with_revision
  <2>2. ~ Die(e)
    BY <1>0, <1>3, FrameSteps DEF Die, Becomes
  <2>3. ParentAccepted(args[e[1]].on)
    <3>1. ASSUME ~ ParentAccepted(args[e[1]].on)
          PROVE  FALSE
      <4>1. Answer(e, Error)
        BY <2>1, <2>2, <3>1 DEF Prepare
      <4>2. QED BY <1>0, <1>3, <4>1, FrameSteps DEF Becomes
    <3>2. QED BY <3>1
  <2> DEFINE r == ContentKey(e, 1, e[1])
             h == _render_document_content(e[1], NewSections(e))
  <2>4. /\ Keep(e, "commit", r, h, NewSections(e))
        /\ args[e[1]].op # "folder" => Put(VersionObjects(e, e, 1, NewSections(e)))
    BY <2>1, <2>2, <2>3 DEF Prepare
  <2>5. Becomes(e, "commit", r, h, NewSections(e), None)
    BY <1>0, <2>4, FrameSteps
  <2>6. QED BY <2>4, <2>5 DEF Becomes
<1>4. ASSUME run[e].stage = "load", run'[e].stage \in {"sections", "commit"}
      PROVE  documents[args[e[1]].on] # None /\ documents[args[e[1]].on].version = args[e[1]].at
  <2>1. _document_for_analysis(e) \/ Die(e)
    BY <1>4 DEF Acts, Respond, _replay_result, Prepare, ReadSections, PutObjects, add_folder_node,
                add_document_with_revision, update_document_with_revision
  <2>2. ~ Die(e) /\ ~ Answer(e, Error)
    BY <1>0, <1>4, FrameSteps DEF Die, Becomes
  <2>3. QED BY <2>1, <2>2 DEF _document_for_analysis
<1>5. (run'[e].stage = "put" => run[e].stage = "sections") /\ (run'[e].stage = "sections" => run[e].stage = "load")
  BY <1>0 DEF Moves
<1>6. QED BY <1>1, <1>2, <1>3, <1>4, <1>5

\* The object of a section has its text.
LEMMA WrittenSections ==
  ASSUME NEW e, NEW d, NEW v, NEW merged, args[e[1]].parts # {}, DOMAIN merged \subseteq SectionIds, NEW s \in DOMAIN merged,
         Put(VersionObjects(e, d, v, merged))
  PROVE  LET k == document_content_key(d, s, merged[s].id, v, e[1])
         IN k \in DOMAIN objects' /\ objects'[k] = [p \in {s} |-> merged[s].text]
<1> DEFINE c == e[1]
           rows == _section_rows(e, d, v, merged)
           keys == {ContentKey(d, v, c)} \cup {rows[x].ref : x \in DOMAIN rows}
           k == document_content_key(d, s, merged[s].id, v, c)
           objs == VersionObjects(e, d, v, merged)
<1>1. objs = [x \in keys |-> IF x.part = Body THEN _render_document_content(c, merged) ELSE rows[x.part].hash]
  BY DEF VersionObjects
<1>2. s \in DOMAIN rows /\ rows[s].ref = k /\ rows[s].hash = [p \in {s} |-> merged[s].text]
  BY DEF _section_rows
<1>3. k.part = s /\ s # Body
  BY DEF document_content_key
<1> HIDE DEF rows, k
<1>4. k \in keys
  BY <1>2
<1>5. k \in DOMAIN objs /\ objs[k] = [p \in {s} |-> merged[s].text]
  BY <1>1, <1>2, <1>3, <1>4
<1> HIDE DEF objs
<1>6. Put(objs)
  BY DEF objs
<1>7. k \in DOMAIN objects' /\ objects'[k] = objs[k]
  BY <1>5, <1>6 DEF Put
<1>8. QED BY <1>5, <1>7 DEF k

\* A document with a revision stays as it is or gets the next version.
LEMMA DocumentSteps ==
  ASSUME Base, Revisions, SectionRefs, Rendered, NEW e \in Executions, Acts(e),
         NEW d \in Executions, NEW r \in revisions, r.doc = d
  PROVE  \/ documents'[d] = documents[d] /\ sections'[d] = sections[d]
         \/ documents[d].version \in Nat /\ documents'[d].version = documents[d].version + 1
<1>1. CASE Spares(e)
  BY <1>1 DEF Spares
<1>2. ASSUME NEW x \in Executions, NEW v \in Nat, Commits(e, x, v), x # d
      PROVE  documents'[d] = documents[d] /\ sections'[d] = sections[d]
  <2>1. sections' = sections \/ NewRows(e, x)
    BY <1>2, SectionSteps
  <2>2. QED BY <1>2, <2>1 DEF Commits, NewRows, Base, Shape
<1>3. ASSUME NEW v \in Nat, Commits(e, d, v)
      PROVE  documents[d].version \in Nat /\ documents'[d].version = documents[d].version + 1
  <2>1. run[d].stage \in {"respond", "over"}
    BY DEF Revisions
  <2>2. args[e[1]].op # "create"
    BY <1>3, <2>1 DEF Commits
  <2>3. v = documents[d].version + 1 /\ documents[d].version \in Nat
    BY <1>3, <2>2 DEF Commits, Matches
  <2>4. QED BY <1>3, <2>3 DEF Commits, Base, Shape
<1>4. QED BY <1>1, <1>2, <1>3, CommitSteps

\* Nothing of an execution that holds a document or is about to commit changes when
\* another one begins.
LEMMA BeginsSpare ==
  ASSUME Base, NEW c \in Calls, Issue(c) \/ Redeliver(c)
  PROVE  /\ UNCHANGED <<documents, revisions, sections, objects>> /\ overlapped \subseteq overlapped'
         /\ \A f \in Executions : run'[f].stage \notin {"off", "replay", "prepare"} =>
              run'[f] = run[f] /\ args'[f[1]] = args[f[1]]
<1>1. UNCHANGED <<documents, revisions, sections, objects>> /\ overlapped \subseteq overlapped'
  BY BeginSteps DEF Base
<1>2. ASSUME NEW f \in Executions, run'[f].stage \notin {"off", "replay", "prepare"}
      PROVE  run'[f] = run[f] /\ args'[f[1]] = args[f[1]]
  <2>1. run'[f] = run[f]
    BY <1>2, BeginSteps DEF Base, Begins, FirstStage
  <2>2. f[1] \in Calls /\ args[f[1]] # None
    BY <1>2, <2>1, Issued DEF Base
  <2>3. args'[f[1]] = args[f[1]]
    BY <2>2, BeginSteps DEF Base
  <2>4. QED BY <2>1, <2>3
<1>3. QED BY <1>1, <1>2

LEMMA SectionRefsPreserved ==
  ASSUME Base, SectionRefs, Rendered, [Next]_vars
  PROVE  SectionRefs'
<1>1. ASSUME NEW e \in Executions, Acts(e)
      PROVE  SectionRefs'
  <2>1. \A k \in DOMAIN objects : k \in DOMAIN objects'
    BY <1>1, StoreSteps DEF Stores
  <2>2. CASE Spares(e)
    BY <2>1, <2>2 DEF Spares, SectionRefs
  <2>3. ASSUME NEW d \in Executions, NEW v \in Nat, Commits(e, d, v)
        PROVE  SectionRefs'
    <3>1. PICK n : revisions' = revisions \cup {n} /\ n.call = e[1]
      BY <1>1, <2>3, NewRevision
    <3>2. CASE sections' = sections
      BY <2>1, <3>1, <3>2 DEF SectionRefs
    <3>3. CASE /\ args[e[1]].op \in {"create", "update"} /\ NewRows(e, d)
               /\ args[e[1]].parts = {} => DOMAIN run[e].base = {}
      <4>1. run[e].stage = "commit"
        BY <2>3 DEF Commits
      <4>2. ASSUME NEW s \in DOMAIN run[e].base
            PROVE  s \in SectionIds /\ SectionKey(e, s) \in DOMAIN objects /\ SectionKey(e, s).call = e[1]
        <5>1. s \in SectionIds /\ SectionKey(e, s) \in DOMAIN objects
          BY <3>3, <4>1, <4>2 DEF Rendered, RenderedBy
        <5>2. QED BY <5>1 DEF SectionKey, document_content_key
      <4>3. ASSUME NEW s \in DOMAIN sections'[d]
            PROVE  /\ s \in SectionIds /\ sections'[d][s].ref \in DOMAIN objects'
                   /\ \E r \in revisions' : r.call = sections'[d][s].ref.call
        BY <2>1, <3>1, <3>3, <4>2, <4>3 DEF NewRows
      <4>4. ASSUME NEW x \in Executions \ {d}, NEW s \in DOMAIN sections'[x]
            PROVE  /\ s \in SectionIds /\ sections'[x][s].ref \in DOMAIN objects'
                   /\ \E r \in revisions' : r.call = sections'[x][s].ref.call
        BY <2>1, <3>1, <3>3, <4>4 DEF NewRows, SectionRefs
      <4>5. sections' = [x \in Executions |-> sections'[x]]
        BY <3>3 DEF NewRows
      <4>6. QED BY <4>3, <4>4, <4>5 DEF SectionRefs
    <3>4. QED BY <1>1, <2>3, <3>2, <3>3, SectionSteps
  <2>4. QED BY <1>1, <2>2, <2>3, CommitSteps
<1>2. ASSUME NEW c \in Calls, Issue(c) \/ Redeliver(c)
      PROVE  SectionRefs'
  BY <1>2, BeginsSpare DEF SectionRefs
<1>3. CASE UNCHANGED vars
  BY <1>3 DEF vars, SectionRefs
<1>4. QED BY <1>1, <1>2, <1>3, StepKinds

LEMMA LoadedPreserved ==
  ASSUME Base, Revisions, Linear, SectionRefs, Rendered, Loaded, [Next]_vars
  PROVE  Loaded'
<1>1. ASSUME NEW e \in Executions, Acts(e), NEW f \in Executions, run'[f].stage \in {"sections", "put", "commit"},
             args[f[1]].op \in {"update", "delete", "finalize"}
      PROVE  /\ \E r \in revisions' : r.doc = args[f[1]].on
             /\ documents'[args[f[1]].on].version \in Nat /\ args[f[1]].at <= documents'[args[f[1]].on].version
  <2> DEFINE d == args[f[1]].on
             at == args[f[1]].at
  <2>1. Moves(e)
    BY <1>1, MoveSteps DEF Base
  <2>2. revisions \subseteq revisions'
    BY <1>1, CommitSteps DEF Spares, Commits
  <2>3. CASE f = e
    <3>1. UNCHANGED <<documents, revisions>>
      BY <1>1, <2>3, CommitSteps DEF Spares, Commits
    <3>2. CASE run[e].stage = "load"
      <4>1. documents[d] # None /\ documents[d].version = at
        BY <1>1, <2>3, <3>2, Carried
      <4>2. d \in Executions /\ at \in Nat
        BY <1>1, <2>3, <3>2, Issued, Ops DEF Base
      <4>3. \E r \in RevisionsOf(d) : TRUE
        BY <4>1, <4>2 DEF Linear
      <4>4. QED BY <3>1, <4>1, <4>2, <4>3 DEF RevisionsOf
    <3>3. CASE run[e].stage # "load"
      <4>1. run[e].stage \in {"sections", "put"}
        BY <1>1, <2>1, <2>3, <3>3 DEF Moves, Base, Kinds
      <4>2. QED BY <1>1, <2>3, <3>1, <4>1 DEF Loaded
    <3>4. QED BY <3>2, <3>3
  <2>4. CASE f # e
    <3>1. run[f].stage \in {"sections", "put", "commit"}
      BY <1>1, <2>1, <2>4 DEF Moves
    <3>2. PICK r \in revisions : r.doc = d
      BY <1>1, <3>1 DEF Loaded
    <3>3. documents[d].version \in Nat /\ at <= documents[d].version
      BY <1>1, <3>1 DEF Loaded
    <3>4. d \in Executions /\ at \in Nat
      BY <1>1, <3>1, Issued, Ops DEF Base
    <3>5. documents'[d] = documents[d] \/ documents'[d].version = documents[d].version + 1
      BY <1>1, <3>2, <3>4, DocumentSteps
    <3>6. documents'[d].version \in Nat /\ at <= documents'[d].version
      BY <3>3, <3>4, <3>5
    <3>7. QED BY <2>2, <3>2, <3>6
  <2>5. QED BY <2>3, <2>4
<1>2. ASSUME NEW e \in Executions, Acts(e)
      PROVE  Loaded'
  BY <1>1, <1>2, MoveSteps DEF Loaded, Base
<1>3. ASSUME NEW c \in Calls, Issue(c) \/ Redeliver(c)
      PROVE  Loaded'
  BY <1>3, BeginsSpare DEF Loaded
<1>4. CASE UNCHANGED vars
  BY <1>4 DEF vars, Loaded
<1>5. QED BY <1>2, <1>3, <1>4, StepKinds

\* An execution keeps what it has rendered while another one acts.
LEMMA RenderedByOthers ==
  ASSUME Base, Revisions, SectionRefs, Rendered, Loaded, NEW e \in Executions, Acts(e), NEW f \in Executions, f # e
  PROVE  RenderedBy(f)'
<1> DEFINE a == args[f[1]]
<1>1. Moves(e) /\ UNCHANGED <<args, overlapped>>
  BY MoveSteps DEF Base
<1>2. run'[f] = run[f]
  BY <1>1 DEF Moves
<1>3. \A s : SectionKey(f, s)' = SectionKey(f, s) /\ SectionKey(f, s).call = f[1]
  BY <1>1, <1>2 DEF SectionKey, Target, Number, document_content_key
<1>4. ASSUME run[f].stage \in {"put", "commit"}, a.op = "update", Matches(a.on, a.at)'
      PROVE  DOMAIN sections'[a.on] \subseteq DOMAIN run[f].base
  <2>1. PICK r \in revisions : r.doc = a.on
    BY <1>4 DEF Loaded
  <2>2. documents[a.on].version \in Nat /\ a.at <= documents[a.on].version
    BY <1>4 DEF Loaded
  <2>3. a.on \in Executions /\ a.at \in Nat
    BY <1>4, Issued, Ops DEF Base
  <2>4. documents'[a.on].version = a.at
    BY <1>1, <1>4 DEF Matches
  <2>5. documents'[a.on] = documents[a.on] /\ sections'[a.on] = sections[a.on]
    BY <2>1, <2>2, <2>3, <2>4, DocumentSteps
  <2>6. Matches(a.on, a.at)
    BY <1>1, <1>4, <2>5 DEF Matches
  <2>7. QED BY <1>4, <2>5, <2>6 DEF Rendered, RenderedBy
<1>5. ASSUME run[f].stage = "commit", a.op \in {"create", "update"}, a.parts # {}, NEW s \in DOMAIN run[f].base
      PROVE  /\ SectionKey(f, s) \in DOMAIN objects'
             /\ f[1] \notin overlapped => objects'[SectionKey(f, s)] = [p \in {s} |-> run[f].base[s].text]
  <2>1. /\ SectionKey(f, s) \in DOMAIN objects
        /\ f[1] \notin overlapped => objects[SectionKey(f, s)] = [p \in {s} |-> run[f].base[s].text]
    BY <1>5 DEF Rendered, RenderedBy
  <2>2. f[1] \notin overlapped => f[1] # e[1]
    BY <1>1, <1>5 DEF Base, Alone, Moves, Live, Stages
  <2>3. \A k \in DOMAIN objects : k \in DOMAIN objects' /\ (k.call # e[1] => objects'[k] = objects[k])
    BY StoreSteps DEF Stores
  <2>4. QED BY <1>3, <2>1, <2>2, <2>3
<1>6. ASSUME run[f].stage \in {"put", "commit"}, a.op \in {"create", "update"}
      PROVE  /\ DOMAIN run[f].base \subseteq SectionIds /\ a.parts \subseteq DOMAIN run[f].base
             /\ a.op = "create" => DOMAIN run[f].base = a.parts
             /\ run[f].stage = "commit" => run[f].hash = _render_document_content(f[1], run[f].base)
  BY <1>6 DEF Rendered, RenderedBy
<1>7. QED BY <1>1, <1>2, <1>3, <1>4, <1>5, <1>6, SMTT(30) DEF RenderedBy, _render_document_content

\* An execution renders what it read.
LEMMA RenderedBySelf ==
  ASSUME Base, SectionRefs, Rendered, NEW e \in Executions, Acts(e)
  PROVE  RenderedBy(e)'
<1> DEFINE a == args[e[1]]
<1> SUFFICES ASSUME run'[e].stage \in {"put", "commit"}, a.op \in {"create", "update"}
             PROVE  RenderedBy(e)'
  BY MoveSteps DEF RenderedBy, Base
<1>1. Moves(e) /\ UNCHANGED <<args, overlapped>>
  BY MoveSteps DEF Base
<1>2. UNCHANGED <<documents, revisions, sections>>
  BY CommitSteps DEF Spares, Commits
<1>3. run[e].stage # "off" /\ a \in Arguments
  BY <1>1, Issued DEF Base, Moves, Live
<1>4. a.parts \subseteq SectionIds /\ (a.op = "update" => a.on \in Executions)
  BY <1>3, Ops
<1>5. CASE run'[e].stage = "put"
  <2>1. run'[e].base = _merged_sections(e) /\ run[e].stage = "sections"
    BY <1>5, Carried
  <2>2. a.op = "update"
    BY <2>1 DEF Base, Kinds
  <2>3. DOMAIN run'[e].base = DOMAIN sections[a.on] \cup a.parts
    BY <2>1 DEF _merged_sections
  <2>4. DOMAIN sections[a.on] \subseteq SectionIds
    BY <1>4, <2>2 DEF SectionRefs
  <2>5. QED BY <1>1, <1>2, <1>4, <1>5, <2>2, <2>3, <2>4 DEF RenderedBy
<1>6. CASE run'[e].stage = "commit"
  <2> DEFINE base == run'[e].base
             d == Target(e)
             v == Number(e)
  <2>1. CASE run[e].stage = "load"
    BY <1>1, <1>6, <2>1 DEF Moves, Base, Kinds
  <2>2. CASE run[e].stage = "put"
    <3>1. a.op = "update"
      BY <2>2 DEF Base, Kinds
    <3>2. /\ base = run[e].base /\ run'[e].hash = _render_document_content(e[1], base)
          /\ Put(VersionObjects(e, d, v, base))
      BY <1>6, <2>2, <3>1, Carried DEF Target, Number
    <3>3. /\ DOMAIN base \subseteq SectionIds /\ a.parts \subseteq DOMAIN base
          /\ Matches(a.on, a.at) => DOMAIN sections[a.on] \subseteq DOMAIN base
      BY <2>2, <3>1, <3>2 DEF Rendered, RenderedBy
    <3>4. ASSUME a.parts # {}, NEW s \in DOMAIN base
          PROVE  /\ SectionKey(e, s)' \in DOMAIN objects'
                 /\ objects'[SectionKey(e, s)'] = [p \in {s} |-> base[s].text]
      <4>1. SectionKey(e, s)' = document_content_key(d, s, base[s].id, v, e[1])
        BY <1>1 DEF SectionKey, document_content_key, Target, Number
      <4> HIDE DEF d, v, base
      <4>2. QED BY <3>2, <3>3, <3>4, <4>1, WrittenSections
    <3>5. Matches(a.on, a.at)' => Matches(a.on, a.at)
      BY <1>1, <1>2 DEF Matches
    <3>6. QED BY <1>1, <1>2, <1>6, <3>1, <3>2, <3>3, <3>4, <3>5 DEF RenderedBy, _render_document_content
  <2>3. CASE run[e].stage = "prepare"
    <3>1. a.op = "create"
      BY <2>3 DEF Base, Kinds
    <3>2. /\ base = NewSections(e) /\ run'[e].hash = _render_document_content(e[1], base)
          /\ Put(VersionObjects(e, d, v, base))
      BY <1>6, <2>3, <3>1, Carried DEF Target, Number
    <3>3. DOMAIN base = a.parts
      BY <3>2 DEF NewSections
    <3>4. ASSUME a.parts # {}, NEW s \in DOMAIN base
          PROVE  /\ SectionKey(e, s)' \in DOMAIN objects'
                 /\ objects'[SectionKey(e, s)'] = [p \in {s} |-> base[s].text]
      <4>1. SectionKey(e, s)' = document_content_key(d, s, base[s].id, v, e[1])
        BY <1>1 DEF SectionKey, document_content_key, Target, Number
      <4>2. DOMAIN base \subseteq SectionIds
        BY <1>4, <3>3
      <4> HIDE DEF d, v, base
      <4>3. QED BY <3>2, <3>4, <4>1, <4>2, WrittenSections
    <3>5. QED BY <1>1, <1>4, <1>6, <3>1, <3>2, <3>3, <3>4 DEF RenderedBy, _render_document_content
  <2>4. QED BY <1>1, <1>6, <2>1, <2>2, <2>3 DEF Moves
<1>7. QED BY <1>5, <1>6

\* It keeps it while nothing of it changes.
LEMMA RenderedStays ==
  ASSUME UNCHANGED <<documents, sections, objects>>, overlapped \subseteq overlapped', NEW f \in Executions,
         run'[f] = run[f], args'[f[1]] = args[f[1]], RenderedBy(f)
  PROVE  RenderedBy(f)'
<1> DEFINE a == args[f[1]]
<1>1. \A s : SectionKey(f, s)' = SectionKey(f, s)
  BY DEF SectionKey, Target, Number, document_content_key
<1>2. Matches(a.on, a.at)' <=> Matches(a.on, a.at)
  BY DEF Matches
<1>3. ASSUME run[f].stage = "commit", a.op \in {"create", "update"}, a.parts # {}, NEW s \in DOMAIN run[f].base
      PROVE  /\ SectionKey(f, s) \in DOMAIN objects'
             /\ f[1] \notin overlapped' => objects'[SectionKey(f, s)] = [p \in {s} |-> run[f].base[s].text]
  BY <1>3 DEF RenderedBy
<1>4. ASSUME run[f].stage \in {"put", "commit"}, a.op \in {"create", "update"}
      PROVE  /\ DOMAIN run[f].base \subseteq SectionIds /\ a.parts \subseteq DOMAIN run[f].base
             /\ a.op = "create" => DOMAIN run[f].base = a.parts
             /\ a.op = "update" /\ Matches(a.on, a.at) => DOMAIN sections[a.on] \subseteq DOMAIN run[f].base
             /\ run[f].stage = "commit" => run[f].hash = _render_document_content(f[1], run[f].base)
  BY <1>4 DEF RenderedBy
<1>5. QED BY <1>1, <1>2, <1>3, <1>4, SMTT(30) DEF RenderedBy, Matches, _render_document_content

LEMMA RenderedPreserved ==
  ASSUME Base, Revisions, SectionRefs, Rendered, Loaded, [Next]_vars
  PROVE  Rendered'
<1>1. ASSUME NEW e \in Executions, Acts(e), NEW f \in Executions
      PROVE  RenderedBy(f)'
  BY <1>1, RenderedByOthers, RenderedBySelf
<1>2. ASSUME NEW c \in Calls, Issue(c) \/ Redeliver(c), NEW f \in Executions
      PROVE  RenderedBy(f)'
  <2>1. UNCHANGED <<documents, revisions, sections, objects>> /\ overlapped \subseteq overlapped'
    BY <1>2, BeginsSpare
  <2>2. CASE run'[f].stage \in {"put", "commit"}
    <3>1. run'[f] = run[f] /\ args'[f[1]] = args[f[1]]
      BY <1>2, <2>2, BeginsSpare
    <3>2. QED BY <2>1, <3>1, RenderedStays DEF Rendered
  <2>3. CASE run'[f].stage \notin {"put", "commit"}
    BY <2>3 DEF RenderedBy
  <2>4. QED BY <2>2, <2>3
<1>3. ASSUME UNCHANGED vars, NEW f \in Executions
      PROVE  RenderedBy(f)'
  BY <1>3, RenderedStays DEF vars, Rendered
<1>4. QED BY <1>1, <1>2, <1>3, StepKinds DEF Rendered

LEMMA CopiedPreserved ==
  ASSUME Base, Revisions, SectionRefs, Rendered, Loaded, Copied, [Next]_vars
  PROVE  Copied'
<1>1. ASSUME NEW e \in Executions, Acts(e)
      PROVE  Copied'
  <2>1. Moves(e) /\ UNCHANGED <<args, overlapped>>
    BY <1>1, MoveSteps DEF Base
  <2> SUFFICES ASSUME NEW f \in Executions, run'[f].stage = "commit", args[f[1]].op \in {"delete", "finalize"},
                      Matches(args[f[1]].on, args[f[1]].at)'
               PROVE  run'[f].hash = documents'[args[f[1]].on].hash
    BY <2>1 DEF Copied
  <2> DEFINE d == args[f[1]].on
             at == args[f[1]].at
  <2>2. documents'[d].version = at
    BY <2>1 DEF Matches
  <2>3. CASE f = e
    <3>1. UNCHANGED <<documents, revisions>>
      BY <1>1, <2>3, CommitSteps DEF Spares, Commits
    <3>2. run[e].stage = "load"
      BY <2>1, <2>3 DEF Moves, Base, Kinds
    <3>3. QED BY <1>1, <2>3, <3>1, <3>2, StoreSteps DEF Stores
  <2>4. CASE f # e
    <3>1. run'[f] = run[f]
      BY <2>1, <2>4 DEF Moves
    <3>2. PICK r \in revisions : r.doc = d
      BY <3>1 DEF Loaded
    <3>3. documents[d].version \in Nat /\ at <= documents[d].version
      BY <3>1 DEF Loaded
    <3>4. d \in Executions /\ at \in Nat
      BY <3>1, Issued, Ops DEF Base
    <3>5. documents'[d] = documents[d]
      BY <1>1, <2>2, <3>2, <3>3, <3>4, DocumentSteps
    <3>6. Matches(d, at)
      BY <2>1, <3>5 DEF Matches
    <3>7. QED BY <3>1, <3>5, <3>6 DEF Copied
  <2>5. QED BY <2>3, <2>4
<1>2. ASSUME NEW c \in Calls, Issue(c) \/ Redeliver(c)
      PROVE  Copied'
  BY <1>2, BeginsSpare DEF Copied, Matches
<1>3. CASE UNCHANGED vars
  BY <1>3 DEF vars, Copied, Matches
<1>4. QED BY <1>1, <1>2, <1>3, StepKinds

\* A document reads as its sections, as SectionsAreTheContent says.
Reads(d) ==
  documents[d] # None /\ DOMAIN sections[d] # {} /\ ~ PlainUpdate(d) /\ overlapped = {} =>
    documents[d].hash = [s \in DOMAIN sections[d] |-> SectionText(d, s)]

\* The objects of sections in use are not written again.
LEMMA TextsKept ==
  ASSUME Base, Unwritten, SectionRefs, NEW e \in Executions, Acts(e), overlapped = {},
         NEW d \in Executions, NEW s \in DOMAIN sections[d]
  PROVE  objects'[sections[d][s].ref] = objects[sections[d][s].ref]
<1> DEFINE k == sections[d][s].ref
<1>1. k \in DOMAIN objects
  BY DEF SectionRefs
<1>2. find_revision_by_tool_call(k.call) # {}
  BY DEF SectionRefs, find_revision_by_tool_call
<1>3. CASE k.call = e[1]
  <2>1. run[e].stage \notin {"put", "prepare"}
    BY <1>2, <1>3 DEF Unwritten, Past
  <2>2. QED BY <2>1, StoreSteps DEF Stores
<1>4. CASE k.call # e[1]
  BY <1>1, <1>4, StoreSteps DEF Stores
<1>5. QED BY <1>3, <1>4

LEMMA ReadsPreserved ==
  ASSUME Base, Revisions, Unwritten, SectionRefs, Rendered, Copied, SectionsAreTheContent, [Next]_vars
  PROVE  SectionsAreTheContent'
<1>0. SectionsAreTheContent <=> \A d \in Executions : Reads(d)
  BY DEF SectionsAreTheContent, Reads
<1>1. ASSUME NEW d \in Executions, revisions \subseteq revisions', PlainUpdate(d)
      PROVE  PlainUpdate(d)'
  <2>1. PICK r \in RevisionsOf(d) : r.op = "update" /\ args[r.call].parts = {}
    BY <1>1 DEF PlainUpdate
  <2>2. r \in RevisionsOf(d)' /\ args'[r.call] = args[r.call]
    BY <1>1, <2>1, Settled DEF RevisionsOf, Revisions
  <2>3. QED BY <2>1, <2>2 DEF PlainUpdate
<1>2. ASSUME NEW e \in Executions, Acts(e), NEW d \in Executions
      PROVE  Reads(d)'
  <2>1. UNCHANGED <<args, overlapped>>
    BY <1>2, MoveSteps DEF Base
  <2>2. revisions \subseteq revisions'
    BY <1>2, CommitSteps DEF Spares, Commits
  <2> SUFFICES ASSUME documents'[d] # None, DOMAIN sections'[d] # {}, ~ PlainUpdate(d)', overlapped = {}
               PROVE  documents'[d].hash = [s \in DOMAIN sections'[d] |-> SectionText(d, s)']
    BY <2>1 DEF Reads
  <2>3. ~ PlainUpdate(d)
    BY <1>1, <2>2
  <2>4. ASSUME documents'[d].hash = documents[d].hash, sections'[d] = sections[d], documents[d] # None
        PROVE  documents'[d].hash = [s \in DOMAIN sections'[d] |-> SectionText(d, s)']
    <3>1. documents[d].hash = [s \in DOMAIN sections[d] |-> SectionText(d, s)]
      BY <1>0, <2>3, <2>4 DEF Reads
    <3>2. \A s \in DOMAIN sections[d] : SectionText(d, s)' = SectionText(d, s)
      BY <1>2, <2>4, TextsKept DEF SectionText
    <3>3. QED BY <2>4, <3>1, <3>2
  <2>5. CASE Spares(e)
    BY <2>4, <2>5 DEF Spares
  <2>6. ASSUME NEW x \in Executions, NEW v \in Nat, Commits(e, x, v), x # d
        PROVE  documents'[d].hash = [s \in DOMAIN sections'[d] |-> SectionText(d, s)']
    <3>1. sections' = sections \/ NewRows(e, x)
      BY <1>2, <2>6, SectionSteps
    <3>2. documents'[d] = documents[d] /\ sections'[d] = sections[d]
      BY <2>6, <3>1 DEF Commits, NewRows, Base, Shape
    <3>3. QED BY <2>4, <3>2
  <2>7. ASSUME NEW v \in Nat, Commits(e, d, v)
        PROVE  documents'[d].hash = [s \in DOMAIN sections'[d] |-> SectionText(d, s)']
    <3> DEFINE a == args[e[1]]
               base == run[e].base
    <3>1. documents'[d].hash = run[e].hash /\ run[e].stage = "commit" /\ UNCHANGED objects
      BY <2>7 DEF Commits, Base, Shape
    <3>2. PICK n : /\ revisions' = revisions \cup {n} /\ n.doc = d /\ n.call = e[1] /\ n.op = a.op
      BY <1>2, <2>7, NewRevision
    <3>3. CASE a.op \in {"delete", "finalize"} /\ sections' = sections
      <4>1. d = a.on /\ Matches(d, a.at)
        BY <2>7, <3>3 DEF Commits
      <4>2. documents[d] # None /\ run[e].hash = documents[d].hash
        BY <3>1, <3>3, <4>1 DEF Copied, Matches
      <4>3. QED BY <2>4, <3>1, <3>3, <4>2
    <3>4. CASE a.op = "update" /\ a.parts = {}
      BY <2>1, <3>2, <3>4 DEF PlainUpdate, RevisionsOf
    <3>5. CASE a.op \in {"create", "update"} /\ NewRows(e, d) /\ (a.parts = {} => DOMAIN base = {})
      <4>1. DOMAIN sections'[d] = DOMAIN base /\ \A s \in DOMAIN base : sections'[d][s].ref = SectionKey(e, s)
        BY <3>5 DEF NewRows
      <4>2. a.parts # {}
        BY <3>5, <4>1
      <4>3. /\ run[e].hash = _render_document_content(e[1], base)
            /\ \A s \in DOMAIN base : objects[SectionKey(e, s)] = [p \in {s} |-> base[s].text]
        BY <3>1, <3>5, <4>2 DEF Rendered, RenderedBy
      <4>4. run[e].hash = [s \in DOMAIN base |-> base[s].text]
        BY <4>1, <4>3 DEF _render_document_content
      <4>5. ASSUME NEW s \in DOMAIN base
            PROVE  SectionText(d, s)' = base[s].text
        <5>1. SectionText(d, s)' = objects[SectionKey(e, s)][s]
          BY <3>1, <4>1, <4>5 DEF SectionText
        <5>2. objects[SectionKey(e, s)] = [p \in {s} |-> base[s].text]
          BY <4>3, <4>5
        <5>3. QED BY <5>1, <5>2
      <4>6. QED BY <3>1, <4>1, <4>4, <4>5
    <3>6. QED BY <1>2, <2>7, <3>3, <3>4, <3>5, SectionSteps
  <2>8. QED BY <1>2, <2>5, <2>6, <2>7, CommitSteps
<1>3. ASSUME NEW c \in Calls, Issue(c) \/ Redeliver(c), NEW d \in Executions
      PROVE  Reads(d)'
  <2>1. UNCHANGED <<documents, revisions, sections, objects>> /\ overlapped \subseteq overlapped'
    BY <1>3, BeginsSpare
  <2>2. ~ PlainUpdate(d)' => ~ PlainUpdate(d)
    BY <1>1, <2>1
  <2>3. QED BY <1>0, <2>1, <2>2 DEF Reads, SectionText
<1>4. ASSUME UNCHANGED vars, NEW d \in Executions
      PROVE  Reads(d)'
  BY <1>0, <1>4 DEF vars, Reads, SectionText, PlainUpdate, RevisionsOf
<1>5. \A d \in Executions : Reads(d)'
  BY <1>2, <1>3, <1>4, StepKinds
<1>6. QED BY <1>5 DEF SectionsAreTheContent, Reads

LEMMA SectionsStep == IInv /\ SectionsInv /\ [Next]_vars => SectionsInv'
<1> SUFFICES ASSUME IInv, SectionsInv, [Next]_vars
             PROVE  SectionsInv'
  OBVIOUS
<1> USE DEF IInv, SectionsInv
<1>1. SectionRefs' /\ Loaded'
  BY SectionRefsPreserved, LoadedPreserved
<1>2. Rendered' /\ Copied'
  BY RenderedPreserved, CopiedPreserved
<1>3. SectionsAreTheContent'
  BY ReadsPreserved
<1>4. QED BY <1>1, <1>2, <1>3

\* The invariant of the sections holds in every reachable state.
THEOREM SectionsInvariant == Spec => []SectionsInv
<1>1. Init => SectionsInv
  <2> SUFFICES ASSUME Init
               PROVE  SectionsInv
    OBVIOUS
  <2>1. \A e \in Executions : run[e].stage = "off" /\ documents[e] = None /\ DOMAIN sections[e] = {}
    BY DEF Init, Idle
  <2>2. sections = [d \in Executions |-> sections[d]]
    BY DEF Init
  <2>3. SectionRefs /\ Loaded /\ Copied /\ SectionsAreTheContent
    BY <2>1, <2>2 DEF SectionRefs, Loaded, Copied, SectionsAreTheContent
  <2>4. Rendered
    BY <2>1 DEF Rendered, RenderedBy
  <2>5. QED BY <2>3, <2>4 DEF SectionsInv
<1>2. QED BY <1>1, SectionsStep, Invariant, PTL DEF Spec

\* A document reads as its sections do for any interleaving of the calls that write
\* them, unless an update without sections came between or a call was executed twice
\* at once (_merged_sections, _render_document_content, _upsert_section).
THEOREM SectionsRead == Spec => []SectionsAreTheContent
<1>1. SectionsInv => SectionsAreTheContent
  BY DEF SectionsInv
<1>2. QED BY <1>1, SectionsInvariant, PTL

-----------------------------------------------------------------------------
(* Types                                                                   *)

\* What a text is made of.
Authors == Calls \cup {Blank}

\* Sections that are sections and have authors.
Composed(merged) ==
  DOMAIN merged \subseteq SectionIds /\ \A s \in DOMAIN merged : merged[s].text \in Authors

\* Every object holds a text; that of a section, the text of that section.
Texts(contents) ==
  \A k \in DOMAIN contents : Digest(contents[k]) /\ (k.part # Body => DOMAIN contents[k] = {k.part})
Stored == Texts(objects)

\* A section's row names an object of that section.
Named == \A d \in Executions : \A s \in DOMAIN sections[d] : sections[d][s].ref.part = s

\* The sections an execution is to write have authors.
WrittenBy(e) ==
  run[e].stage \in {"put", "commit"} /\ args[e[1]].op \in {"create", "update"} =>
    \A s \in DOMAIN run[e].base : run[e].base[s].text \in Authors
Written == \A e \in Executions : WrittenBy(e)

\* A revision records the digest of a text.
Recorded == \A r \in revisions : Digest(r.hash)

\* The nodes of the tree, and the parent that an execution is to add one to.
Tree == \A n \in nodes : n.type \in {"folder", "document"} /\ n.path \in Seq(Slugs)
PlacedBy(e) ==
  run[e].stage = "commit" /\ args[e[1]].op \in {"folder", "create"} => ParentAccepted(args[e[1]].on)
Placed == \A e \in Executions : PlacedBy(e)

TypesInv == Stored /\ Named /\ Written /\ Recorded /\ Tree /\ Placed /\ overlapped \subseteq Calls

\* What is rendered is a text.
LEMMA RenderedText ==
  ASSUME NEW c \in Calls, NEW merged, Composed(merged)
  PROVE  Digest(_render_document_content(c, merged))
<1> USE DEF Composed
<1> DEFINE h == _render_document_content(c, merged)
<1>1. CASE DOMAIN merged # {}
  <2>1. h = [s \in DOMAIN merged |-> merged[s].text]
    BY <1>1 DEF _render_document_content
  <2>2. DOMAIN h = DOMAIN merged /\ \A s \in DOMAIN h : h[s] \in Calls \cup {Blank}
    BY <2>1 DEF Authors
  <2> HIDE DEF h
  <2>3. DOMAIN h \in SUBSET SectionIds /\ DOMAIN h # {}
    BY <1>1, <2>2
  <2>4. Digest(h)
    BY <2>2, <2>3, Zenon DEF Digest
  <2>5. QED BY <2>4 DEF h
<1>2. CASE DOMAIN merged = {}
  <2>1. h = [p \in {Body} |-> c]
    BY <1>2 DEF _render_document_content
  <2>2. DOMAIN h = {Body} /\ \A p \in DOMAIN h : h[p] \in Calls \cup {Blank}
    BY <2>1
  <2> HIDE DEF h
  <2>3. Digest(h)
    BY <2>2 DEF Digest
  <2>4. QED BY <2>3 DEF h
<1>3. QED BY <1>1, <1>2

\* So is every object of a version.
LEMMA WrittenTexts ==
  ASSUME NEW e \in Executions, NEW d, NEW v, NEW merged, Composed(merged)
  PROVE  Texts(VersionObjects(e, d, v, merged))
<1> DEFINE c == e[1]
           text == _render_document_content(c, merged)
           rows == IF args[c].parts = {} THEN [s \in {} |-> None] ELSE _section_rows(e, d, v, merged)
           keys == {ContentKey(d, v, c)} \cup {rows[s].ref : s \in DOMAIN rows}
           objs == VersionObjects(e, d, v, merged)
<1>1. objs = [k \in keys |-> IF k.part = Body THEN text ELSE rows[k.part].hash]
  BY DEF VersionObjects
<1>2. ContentKey(d, v, c).part = Body
  BY DEF ContentKey, document_content_key
<1>3. \A s \in DOMAIN rows : /\ s \in DOMAIN merged /\ rows[s].ref.part = s
                             /\ rows[s].hash = [p \in {s} |-> merged[s].text]
  <2>1. CASE args[c].parts = {}
    BY <2>1
  <2>2. CASE args[c].parts # {}
    <3>1. rows = _section_rows(e, d, v, merged)
      BY <2>2
    <3>2. \A s \in DOMAIN merged : document_content_key(d, s, merged[s].id, v, c).part = s
      BY DEF document_content_key
    <3>3. QED BY <3>1, <3>2 DEF _section_rows
  <2>3. QED BY <2>1, <2>2
<1>4. Digest(text)
  BY Pairs, RenderedText
<1>5. ASSUME NEW s \in DOMAIN merged
      PROVE  Digest([p \in {s} |-> merged[s].text]) /\ DOMAIN [p \in {s} |-> merged[s].text] = {s}
  <2>1. s \in SectionIds /\ merged[s].text \in Calls \cup {Blank}
    BY <1>5 DEF Authors, Composed
  <2> DEFINE h == [p \in {s} |-> merged[s].text]
  <2>2. DOMAIN h = {s} /\ \A p \in DOMAIN h : h[p] \in Calls \cup {Blank}
    BY <2>1
  <2>3. DOMAIN h \in SUBSET SectionIds /\ DOMAIN h # {}
    BY <2>1, <2>2
  <2> HIDE DEF h
  <2>4. Digest(h)
    BY <2>2, <2>3, Zenon DEF Digest
  <2>5. QED BY <2>2, <2>4 DEF h
<1> HIDE DEF rows, text, objs, c
<1>6. ASSUME NEW k \in keys
      PROVE  Digest(objs[k]) /\ (k.part # Body => DOMAIN objs[k] = {k.part})
  <2>1. CASE k.part = Body
    BY <1>1, <1>4, <1>6, <2>1
  <2>2. CASE k.part # Body
    <3>1. PICK s \in DOMAIN rows : k = rows[s].ref
      BY <1>2, <1>6, <2>2
    <3>2. k.part = s /\ s \in DOMAIN merged /\ objs[k] = [p \in {s} |-> merged[s].text]
      BY <1>1, <1>3, <1>6, <2>2, <3>1
    <3>3. QED BY <1>5, <3>2
  <2>3. QED BY <2>1, <2>2
<1>7. DOMAIN objs = keys
  BY <1>1
<1>8. Texts(objs)
  BY <1>6, <1>7 DEF Texts
<1>9. QED BY <1>8 DEF objs

\* The sections of a new document.
LEMMA NewTexts ==
  ASSUME NEW e \in Executions, args[e[1]] \in Arguments
  PROVE  Composed(NewSections(e))
BY Pairs, Ops DEF NewSections, Authors, Composed

\* Writing texts keeps the objects texts.
LEMMA PutTexts ==
  ASSUME Stored, NEW contents, Put(contents), Texts(contents)
  PROVE  Stored'
<1>1. /\ DOMAIN objects' = DOMAIN objects \cup DOMAIN contents
      /\ \A k \in DOMAIN contents : objects'[k] = contents[k]
      /\ \A k \in DOMAIN objects \ DOMAIN contents : objects'[k] = objects[k]
  BY DEF Put
<1>2. ASSUME NEW k \in DOMAIN objects'
      PROVE  Digest(objects'[k]) /\ (k.part # Body => DOMAIN objects'[k] = {k.part})
  <2>1. CASE k \in DOMAIN contents
    BY <1>1, <2>1 DEF Texts
  <2>2. CASE k \notin DOMAIN contents
    BY <1>1, <1>2, <2>2 DEF Stored, Texts
  <2>3. QED BY <2>1, <2>2
<1>3. QED BY <1>2 DEF Stored, Texts, Digest

LEMMA StoredPreserved ==
  ASSUME Base, Rendered, Written, Stored, [Next]_vars
  PROVE  Stored'
<1>1. ASSUME NEW e \in Executions, Acts(e)
      PROVE  Stored'
  <2>0. e[1] \in Calls
    BY Pairs
  <2>1. CASE PutObjects(e)
    <3> DEFINE base == run[e].base
               objs == VersionObjects(e, args[e[1]].on, args[e[1]].at + 1, base)
    <3>1. run[e].stage = "put" /\ Put(objs)
      BY <2>1 DEF PutObjects
    <3>2. args[e[1]].op = "update"
      BY <3>1 DEF Base, Kinds
    <3>3. Composed(base)
      BY <3>1, <3>2 DEF Rendered, RenderedBy, Written, WrittenBy, Composed
    <3> HIDE DEF base
    <3>4. Texts(objs)
      BY <3>3, WrittenTexts
    <3> HIDE DEF objs
    <3>5. QED BY <3>1, <3>4, PutTexts
  <2>2. CASE Prepare(e)
    <3> DEFINE new == NewSections(e)
               text == _render_document_content(e[1], new)
               objs == VersionObjects(e, e, 1, new)
               key == ContentKey(e, 1, e[1])
               refused == [k \in {key} |-> text]
    <3>1. /\ run[e].stage = "prepare"
          /\ IF args[e[1]].op = "folder" THEN UNCHANGED objects
             ELSE Put(IF ParentAccepted(args[e[1]].on) THEN objs ELSE refused)
      BY <2>2, Zenon DEF Prepare
    <3>2. args[e[1]] \in Arguments
      BY <3>1, Issued DEF Base
    <3>3. Composed(new)
      BY <2>0, <3>2, NewTexts
    <3> HIDE DEF new
    <3>4. Texts(objs)
      BY <3>3, WrittenTexts
    <3>5. Digest(text)
      BY <2>0, <3>3, RenderedText
    <3>6. key.part = Body
      BY DEF ContentKey, document_content_key
    <3> HIDE DEF objs, text, key
    <3>7. Texts(refused)
      BY <3>5, <3>6 DEF Texts
    <3> HIDE DEF refused
    <3>8. CASE objects' = objects
      BY <3>8 DEF Stored, Texts, Digest
    <3>9. CASE Put(objs)
      BY <3>4, <3>9, PutTexts
    <3>10. CASE Put(refused)
      BY <3>7, <3>10, PutTexts
    <3>11. QED BY <3>1, <3>8, <3>9, <3>10, Zenon
  <2>3. CASE ~ PutObjects(e) /\ ~ Prepare(e)
    <3>1. objects' = objects
      BY <1>1, <2>3 DEF Acts, Die, Respond, _replay_result, _document_for_analysis, ReadSections, add_folder_node,
                        add_document_with_revision, update_document_with_revision
    <3>2. QED BY <3>1 DEF Stored, Texts, Digest
  <2>4. QED BY <2>1, <2>2, <2>3
<1>2. ASSUME NEW c \in Calls, Issue(c) \/ Redeliver(c)
      PROVE  Stored'
  BY <1>2, BeginsWrite DEF Stored, Texts, Digest
<1>3. CASE UNCHANGED vars
  BY <1>3 DEF vars, Stored, Texts, Digest
<1>4. QED BY <1>1, <1>2, <1>3, StepKinds

LEMMA NamedPreserved ==
  ASSUME Base, SectionRefs, Rendered, Named, [Next]_vars
  PROVE  Named'
<1>1. ASSUME NEW e \in Executions, Acts(e)
      PROVE  Named'
  <2>1. CASE Spares(e)
    BY <2>1 DEF Spares, Named
  <2>2. ASSUME NEW d \in Executions, NEW v \in Nat, Commits(e, d, v)
        PROVE  Named'
    <3>1. CASE sections' = sections
      BY <3>1 DEF Named
    <3>2. CASE NewRows(e, d)
      <4>1. \A s \in DOMAIN run[e].base : SectionKey(e, s).part = s
        BY DEF SectionKey, document_content_key
      <4>2. QED BY <3>2, <4>1 DEF NewRows, Named
    <3>3. QED BY <1>1, <2>2, <3>1, <3>2, SectionSteps
  <2>3. QED BY <1>1, <2>1, <2>2, CommitSteps
<1>2. ASSUME NEW c \in Calls, Issue(c) \/ Redeliver(c)
      PROVE  Named'
  BY <1>2, BeginsSpare DEF Named
<1>3. CASE UNCHANGED vars
  BY <1>3 DEF vars, Named
<1>4. QED BY <1>1, <1>2, <1>3, StepKinds

\* The sections read from storage have authors.
LEMMA MergedTexts ==
  ASSUME SectionRefs, Stored, Named, NEW e \in Executions, args[e[1]] \in Arguments, args[e[1]].op = "update",
         NEW s \in DOMAIN _merged_sections(e)
  PROVE  _merged_sections(e)[s].text \in Authors
<1> DEFINE a == args[e[1]]
           rows == sections[a.on]
<1>0. e[1] \in Calls /\ a.on \in Executions
  BY Pairs, Ops
<1>1. /\ s \in DOMAIN rows \cup a.parts
      /\ _merged_sections(e)[s].text = IF s \in a.parts THEN e[1] ELSE IF a.parts = {} THEN Blank ELSE SectionText(a.on, s)
  BY DEF _merged_sections
<1>2. ASSUME s \notin a.parts
      PROVE  SectionText(a.on, s) \in Authors
  <2> DEFINE k == sections[a.on][s].ref
  <2>1. s \in SectionIds /\ k \in DOMAIN objects /\ k.part = s
    BY <1>0, <1>1, <1>2 DEF SectionRefs, Named
  <2>2. DOMAIN objects[k] = {s} /\ Digest(objects[k])
    BY <2>1 DEF Stored, Texts
  <2>3. objects[k][s] \in Calls \cup {Blank}
    BY <2>2 DEF Digest
  <2>4. QED BY <2>3 DEF SectionText, Authors
<1>3. QED BY <1>0, <1>1, <1>2 DEF Authors

LEMMA WrittenPreserved ==
  ASSUME Base, SectionRefs, Stored, Named, Written, [Next]_vars
  PROVE  Written'
<1>1. ASSUME NEW e \in Executions, Acts(e), NEW f \in Executions
      PROVE  WrittenBy(f)'
  <2>0. Moves(e) /\ args' = args
    BY <1>1, MoveSteps DEF Base
  <2>1. CASE f # e
    <3>1. run'[f] = run[f] /\ WrittenBy(f)
      BY <2>0, <2>1 DEF Moves, Written
    <3>2. QED BY <2>0, <3>1 DEF WrittenBy
  <2>2. ASSUME f = e, run'[e].stage \in {"put", "commit"}, args[e[1]].op \in {"create", "update"}
        PROVE  \A s \in DOMAIN run'[e].base : run'[e].base[s].text \in Authors
    <3>1. e[1] \in Calls /\ args[e[1]] \in Arguments
      BY <2>0, Issued DEF Moves, Live, Stages, Base
    <3>2. CASE run'[e].stage = "put"
      <4>1. run'[e].base = _merged_sections(e) /\ args[e[1]].op = "update"
        BY <1>1, <3>2, Carried DEF Base, Kinds
      <4>2. QED BY <3>1, <4>1, MergedTexts
    <3>3. CASE run'[e].stage = "commit" /\ run[e].stage = "put"
      <4>1. run'[e].base = run[e].base /\ WrittenBy(e)
        BY <1>1, <3>3, Carried DEF Written
      <4>2. QED BY <2>2, <3>3, <4>1 DEF WrittenBy
    <3>4. CASE run'[e].stage = "commit" /\ run[e].stage = "prepare"
      <4>1. run'[e].base = NewSections(e)
        BY <1>1, <3>4, Carried
      <4>2. QED BY <3>1, <4>1, NewTexts DEF Composed
    <3>5. run'[e].stage = "commit" => run[e].stage \in {"put", "prepare"}
      <4>1. run'[e].stage = "commit" => run[e].stage \in {"put", "prepare", "load"}
        BY <2>0 DEF Moves
      <4>2. run[e].stage = "load" => args[e[1]].op = "update"
        BY <2>2 DEF Base, Kinds
      <4>3. QED BY <2>0, <4>1, <4>2 DEF Moves
    <3>6. QED BY <2>2, <3>2, <3>3, <3>4, <3>5
  <2>3. QED BY <2>0, <2>1, <2>2 DEF WrittenBy, Authors
<1>2. ASSUME NEW c \in Calls, Issue(c) \/ Redeliver(c), NEW f \in Executions
      PROVE  WrittenBy(f)'
  <2>1. run'[f].stage \in {"put", "commit"} => run'[f] = run[f] /\ args'[f[1]] = args[f[1]]
    BY <1>2, BeginsSpare
  <2>2. WrittenBy(f)
    BY DEF Written
  <2>3. QED BY <2>1, <2>2 DEF WrittenBy
<1>3. ASSUME UNCHANGED vars, NEW f \in Executions
      PROVE  WrittenBy(f)'
  <2>1. run' = run /\ args' = args /\ WrittenBy(f)
    BY <1>3 DEF vars, Written
  <2>2. QED BY <2>1 DEF WrittenBy
<1>4. \A f \in Executions : WrittenBy(f)'
  BY <1>1, <1>2, <1>3, StepKinds
<1>5. QED BY <1>4 DEF Written

LEMMA RecordedPreserved ==
  ASSUME Base, Objects, Rendered, Written, Recorded, [Next]_vars
  PROVE  Recorded'
<1>1. CASE UNCHANGED <<documents, revisions>>
  BY <1>1 DEF Recorded, Digest
<1>2. ASSUME NEW e \in Executions, NEW d \in Executions, NEW v \in Nat, Acts(e), Commits(e, d, v)
      PROVE  Recorded'
  <2>1. PICK n : revisions' = revisions \cup {n} /\ n.hash = run[e].hash /\ e[1] \in Calls
    BY <1>2, NewRevision
  <2>2. run[e].stage = "commit" /\ args[e[1]].op \in {"create", "update", "delete", "finalize"}
    BY <1>2 DEF Commits
  <2>3. CASE args[e[1]].op \in {"create", "update"}
    <3>1. Composed(run[e].base) /\ run[e].hash = _render_document_content(e[1], run[e].base)
      BY <2>2, <2>3 DEF Rendered, RenderedBy, Written, WrittenBy, Composed
    <3>2. Digest(run[e].hash)
      BY <2>1, <3>1, RenderedText
    <3>3. QED BY <2>1, <3>2 DEF Recorded, Digest
  <2>4. CASE args[e[1]].op \in {"delete", "finalize"}
    <3>1. PICK r \in revisions : r.hash = run[e].hash
      BY <2>2, <2>4 DEF Objects
    <3>2. QED BY <2>1, <3>1 DEF Recorded, Digest
  <2>5. QED BY <2>2, <2>3, <2>4
<1>3. QED BY <1>1, <1>2, RevisionSteps

\* A finite set of numbers has a greatest one.
LEMMA Greatest ==
  ASSUME NEW S \in SUBSET Nat, S # {}, IsFiniteSet(S)
  PROVE  \E x \in S : \A y \in S : y <= x
<1> DEFINE Larger(x) == {y \in S : x < y}
           counts == {Cardinality(Larger(x)) : x \in S}
<1>1. ASSUME NEW x \in S
      PROVE  IsFiniteSet(Larger(x)) /\ Cardinality(Larger(x)) \in Nat
  <2>1. Larger(x) \in SUBSET S
    OBVIOUS
  <2> HIDE DEF Larger
  <2>2. IsFiniteSet(Larger(x))
    BY <2>1, FS_Subset
  <2>3. QED BY <2>2, FS_CardinalityType
<1>2. counts \in SUBSET Nat /\ counts # {}
  BY <1>1
<1>3. PICK m \in counts : \A k \in counts : m <= k
  <2> HIDE DEF counts
  <2> DEFINE R == OpToRel(<, Nat)
  <2>1. IsWellFoundedOn(R, Nat)
    BY NatLessThanWellFounded DEF OpToRel
  <2>2. \A a, b \in Nat : a < b => <<a, b>> \in R
    BY DEF OpToRel
  <2> HIDE DEF R
  <2>3. PICK x \in counts : \A y \in counts : ~ (<<y, x>> \in R)
    BY <1>2, <2>1, WFMin
  <2>4. \A y \in counts : ~ (y < x)
    BY <1>2, <2>2, <2>3
  <2>5. QED BY <1>2, <2>3, <2>4
<1>4. PICK x \in S : m = Cardinality(Larger(x))
  BY <1>3
<1>5. ASSUME NEW y \in S, x < y
      PROVE  FALSE
  <2>1. y \in Larger(x) /\ y \notin Larger(y)
    BY <1>5
  <2>2. Larger(y) \in SUBSET Larger(x)
    <3>1. \A z \in S : y < z => x < z
      BY <1>5
    <3>2. QED BY <3>1
  <2> HIDE DEF Larger
  <2>3. /\ Cardinality(Larger(y)) <= Cardinality(Larger(x))
        /\ Cardinality(Larger(x)) = Cardinality(Larger(y)) => Larger(x) = Larger(y)
    BY <1>1, <2>2, FS_Subset
  <2>4. Cardinality(Larger(y)) \in counts
    OBVIOUS
  <2>5. Cardinality(Larger(x)) <= Cardinality(Larger(y))
    BY <1>3, <1>4, <2>4
  <2>6. Cardinality(Larger(x)) \in Nat /\ Cardinality(Larger(y)) \in Nat
    BY <1>1
  <2>7. Cardinality(Larger(x)) = Cardinality(Larger(y))
    BY <2>3, <2>5, <2>6
  <2>8. QED BY <2>1, <2>3, <2>7
<1>6. \A y \in S : y <= x
  BY <1>5
<1>7. QED BY <1>6

\* A slug is always found.
LEMMA Slug ==
  ASSUME NEW slug \in Slugs \cup {0}
  PROVE  _slugify(slug) \in Slugs
<1>1. PICK x \in Slugs : \A y \in Slugs : y <= x
  BY SlugAssumption, Greatest
<1>2. (CHOOSE s \in Slugs : \A t \in Slugs : t <= s) \in Slugs
  BY <1>1
<1>3. QED BY <1>2 DEF _slugify

\* A new node has a path: its parent is there.
LEMMA NewNode ==
  ASSUME Tree, NEW e \in Executions, ParentAccepted(args[e[1]].on), NEW slug \in Slugs, NEW type
  PROVE  Node(e, type, slug).type = type /\ Node(e, type, slug).path \in Seq(Slugs)
<1> DEFINE parent == args[e[1]].on
           path == _node_path(parent, slug)
<1>1. path \in Seq(Slugs)
  <2>1. CASE parent = None
    <3>1. path = <<slug>>
      BY <2>1 DEF _node_path
    <3>2. QED BY <3>1
  <2>2. CASE parent # None
    <3> DEFINE n == CHOOSE n \in nodes : n.id = parent
    <3>1. \E x \in nodes : x.id = parent
      BY <2>2 DEF ParentAccepted
    <3>2. n \in nodes
      BY <3>1
    <3>3. path = Append(n.path, slug)
      BY <2>2 DEF _node_path
    <3>4. n.path \in Seq(Slugs)
      BY <3>2 DEF Tree
    <3> HIDE DEF n
    <3>5. QED BY <3>3, <3>4
  <2>3. QED BY <2>1, <2>2
<1> HIDE DEF path, parent
<1>2. Node(e, type, slug) = [id |-> e, type |-> type, parent |-> parent, slug |-> slug, path |-> path]
  BY DEF Node, parent, path
<1>3. QED BY <1>1, <1>2

\* Nodes are only added, and only good ones.
LEMMA NodeSteps ==
  ASSUME Base, Tree, Placed, NEW e \in Executions, Acts(e)
  PROVE  nodes \subseteq nodes' /\ Tree'
<1> DEFINE a == args[e[1]]
<1>1. ASSUME NEW type \in {"folder", "document"}, NEW slug \in Slugs, ParentAccepted(a.on),
             nodes' = nodes \cup {Node(e, type, slug)}
      PROVE  nodes \subseteq nodes' /\ Tree'
  BY <1>1, NewNode DEF Tree
<1>2. CASE nodes' = nodes
  BY <1>2 DEF Tree
<1>3. CASE add_folder_node(e)
  <2>1. run[e].stage = "commit" /\ a.op = "folder" /\ ParentAccepted(a.on)
    BY <1>3 DEF add_folder_node, Placed, PlacedBy
  <2>2. a \in Arguments
    BY <2>1, Issued DEF Base
  <2>3. a.slug \in Slugs
    BY <2>1, <2>2 DEF Arguments
  <2>4. nodes' = nodes \/ nodes' = nodes \cup {Node(e, "folder", a.slug)}
    BY <1>3 DEF add_folder_node, IntegrityError
  <2>5. QED BY <1>1, <1>2, <2>1, <2>3, <2>4
<1>4. CASE add_document_with_revision(e)
  <2>1. run[e].stage = "commit" /\ a.op = "create" /\ ParentAccepted(a.on)
    BY <1>4 DEF add_document_with_revision, Placed, PlacedBy
  <2>2. a \in Arguments
    BY <2>1, Issued DEF Base
  <2>3. a.slug \in Slugs \cup {0}
    BY <2>1, <2>2 DEF Arguments
  <2>4. _slugify(a.slug) \in Slugs
    BY <2>3, Slug
  <2>5. nodes' = nodes \/ nodes' = nodes \cup {Node(e, "document", _slugify(a.slug))}
    BY <1>4 DEF add_document_with_revision, IntegrityError
  <2>6. QED BY <1>1, <1>2, <2>1, <2>4, <2>5
<1>5. CASE ~ add_folder_node(e) /\ ~ add_document_with_revision(e)
  <2>1. nodes' = nodes
    BY <1>5 DEF Acts, Die, Respond, _replay_result, _document_for_analysis, ReadSections, PutObjects, Prepare,
                update_document_with_revision, IntegrityError
  <2>2. QED BY <1>2, <2>1
<1>6. QED BY <1>3, <1>4, <1>5

\* An execution that is to add a node has found the parent.
LEMMA ParentFound ==
  ASSUME Base, NEW e \in Executions, Acts(e), run'[e].stage = "commit", args[e[1]].op \in {"folder", "create"}
  PROVE  ParentAccepted(args[e[1]].on)
<1>0. Shape /\ Moves(e)
  BY MoveSteps DEF Base
<1>1. run[e].stage = "prepare"
  <2>1. run[e].stage \in {"load", "put", "prepare"}
    BY <1>0 DEF Moves
  <2>2. QED BY <2>1 DEF Base, Kinds
<1>2. Prepare(e) \/ Die(e)
  BY <1>1 DEF Acts, Respond, _replay_result, _document_for_analysis, ReadSections, PutObjects, add_folder_node,
              add_document_with_revision, update_document_with_revision
<1>3. ~ Die(e)
  BY <1>0, FrameSteps DEF Die, Becomes
<1>4. ASSUME ~ ParentAccepted(args[e[1]].on)
      PROVE  FALSE
  <2>1. Answer(e, Error)
    BY <1>2, <1>3, <1>4 DEF Prepare
  <2>2. QED BY <1>0, <2>1, FrameSteps DEF Becomes
<1>5. QED BY <1>4

LEMMA TreePreserved ==
  ASSUME Base, Tree, Placed, [Next]_vars
  PROVE  Tree' /\ Placed'
<1>1. ASSUME NEW e \in Executions, Acts(e)
      PROVE  Tree' /\ Placed'
  <2>1. nodes \subseteq nodes' /\ Tree'
    BY <1>1, NodeSteps
  <2>2. Moves(e) /\ args' = args
    BY <1>1, MoveSteps DEF Base
  <2>3. ASSUME NEW f \in Executions, run'[f].stage = "commit", args[f[1]].op \in {"folder", "create"}
        PROVE  ParentAccepted(args[f[1]].on)
    <3>1. CASE f = e
      BY <1>1, <2>3, <3>1, ParentFound
    <3>2. CASE f # e
      BY <2>2, <2>3, <3>2 DEF Moves, Placed, PlacedBy
    <3>3. QED BY <3>1, <3>2
  <2>4. QED BY <2>1, <2>2, <2>3 DEF Placed, PlacedBy, ParentAccepted
<1>2. ASSUME NEW c \in Calls, Issue(c) \/ Redeliver(c)
      PROVE  Tree' /\ Placed'
  <2>1. nodes' = nodes
    BY <1>2 DEF Issue, Redeliver
  <2>2. \A f \in Executions : run'[f].stage = "commit" => run'[f] = run[f] /\ args'[f[1]] = args[f[1]]
    BY <1>2, BeginsSpare
  <2>3. QED BY <2>1, <2>2 DEF Tree, Placed, PlacedBy, ParentAccepted
<1>3. CASE UNCHANGED vars
  BY <1>3 DEF vars, Tree, Placed, PlacedBy, ParentAccepted
<1>4. QED BY <1>1, <1>2, <1>3, StepKinds

\* The types and what they need, step by step.
LEMMA TypesStep == IInv /\ SectionsInv /\ TypesInv /\ [Next]_vars => TypesInv'
<1> SUFFICES ASSUME IInv, SectionsInv, TypesInv, [Next]_vars
             PROVE  TypesInv'
  OBVIOUS
<1>0. /\ Base /\ Objects /\ SectionRefs /\ Rendered
      /\ Stored /\ Named /\ Written /\ Recorded /\ Tree /\ Placed /\ overlapped \subseteq Calls
  BY DEF IInv, SectionsInv, TypesInv
<1>1. Stored' /\ Named' /\ Written'
  BY <1>0, StoredPreserved, NamedPreserved, WrittenPreserved
<1>2. Recorded' /\ Tree' /\ Placed'
  BY <1>0, RecordedPreserved, TreePreserved
<1>3. overlapped' \subseteq Calls
  <2>1. ASSUME NEW e \in Executions, Acts(e)
        PROVE  overlapped' = overlapped
    BY <1>0, <2>1, MoveSteps DEF Base
  <2>2. ASSUME NEW c \in Calls, Issue(c) \/ Redeliver(c)
        PROVE  overlapped' \subseteq overlapped \cup {c}
    BY <1>0, <2>2, BeginSteps DEF Base
  <2>3. CASE UNCHANGED vars
    BY <1>0, <2>3 DEF vars
  <2>4. QED BY <1>0, <2>1, <2>2, <2>3, StepKinds
<1>4. QED BY <1>1, <1>2, <1>3 DEF TypesInv

\* A document has at most as many versions as there are calls: its revisions are of
\* different calls.
LEMMA VersionBound ==
  ASSUME Revisions, Linear, NEW d \in Executions, documents[d] # None
  PROVE  documents[d].version \in 1 .. MaxVersion
<1> DEFINE R == RevisionsOf(d)
           n == documents[d].version
           caller == [r \in R |-> r.call]
<1>1. n \in Nat \ {0} /\ Cardinality(R) = n
  BY LinearHistory DEF HistoryIsLinear, Linear
<1>2. caller \in Injection(R, Calls)
  BY DEF Revisions, RevisionsOf, Injection, IsInjective
<1>3. IsFiniteSet(R) /\ Cardinality(R) <= Cardinality(Calls)
  BY <1>2, FS_Injection
<1>4. Cardinality(Calls) \in Nat
  BY FS_CardinalityType
<1> HIDE DEF n
<1>5. n <= Cardinality(Calls)
  BY <1>1, <1>3
<1>6. n \in 1 .. Cardinality(Calls)
  BY <1>1, <1>4, <1>5
<1>7. QED BY <1>6 DEF n, MaxVersion

\* Every variable keeps its type: digests are of texts made of sections or the body,
\* paths are sequences of slugs, and there are no more versions than calls.
THEOREM TypeCorrect == Spec => []TypeOK
<1>1. Init => TypesInv
  <2> SUFFICES ASSUME Init
               PROVE  TypesInv
    OBVIOUS
  <2>1. /\ DOMAIN objects = {} /\ revisions = {} /\ nodes = {} /\ overlapped = {}
        /\ \A e \in Executions : run[e].stage = "off" /\ DOMAIN sections[e] = {}
    BY DEF Init, Idle
  <2>2. QED BY <2>1 DEF TypesInv, Stored, Texts, Named, Written, WrittenBy, Recorded, Tree, Placed, PlacedBy
<1>2. IInv /\ TypesInv => TypeOK
  <2> SUFFICES ASSUME IInv, TypesInv
               PROVE  TypeOK
    OBVIOUS
  <2>1. /\ \A c \in Calls : args[c] = None \/ args[c] \in Arguments
        /\ \A e \in Executions : run[e].stage \in Stages
    BY DEF IInv, Base, Shape
  <2>2. ASSUME NEW d \in Executions, documents[d] # None
        PROVE  /\ documents[d].status \in {"draft", "finalized", "deleted"}
               /\ documents[d].version \in 1 .. MaxVersion
               /\ Digest(documents[d].hash)
    <3>1. PICK r \in RevisionsOf(d) : r.hash = documents[d].hash /\ status_for_revision(r.op) = documents[d].status
      BY <2>2 DEF IInv, Linear
    <3>2. Digest(r.hash)
      BY <3>1 DEF TypesInv, Recorded, RevisionsOf
    <3>3. documents[d].status \in {"draft", "finalized", "deleted"}
      BY <3>1 DEF status_for_revision
    <3>4. documents[d].version \in 1 .. MaxVersion
      BY <2>2, VersionBound DEF IInv
    <3>5. QED BY <3>1, <3>2, <3>3, <3>4
  <2>3. /\ \A n \in nodes : n.type \in {"folder", "document"} /\ n.path \in Seq(Slugs)
        /\ \A r \in revisions : r.call \in Calls /\ Digest(r.hash)
        /\ \A k \in DOMAIN objects : Digest(objects[k])
        /\ overlapped \subseteq Calls
    BY DEF IInv, Revisions, TypesInv, Tree, Recorded, Stored, Texts
  <2>4. QED BY <2>1, <2>2, <2>3 DEF TypeOK
<1>3. QED BY <1>1, <1>2, TypesStep, Invariant, SectionsInvariant, PTL DEF Spec
=============================================================================
