----------------------------- MODULE ChatProofs -----------------------------
(***************************************************************************)
(* Safety of the conversation for any number of requests, commands and     *)
(* sidebar actions, any bound on the history and on the attempts to fix a  *)
(* command.                                                                *)
(*                                                                         *)
(* Nothing here is inductive alone.  That a busy UI has a cause needs that *)
(* only jobs under way are cancelled (CancelInv); that one thing happens   *)
(* at a time needs that the request of an undisturbed UI is not cancelled; *)
(* and a command keeps its name because in an undisturbed UI the command   *)
(* that runs is the proposed one (LabelInv).                               *)
(***************************************************************************)
EXTENDS Chat, SequenceTheorems, WellFoundedInduction, TLAPS

CancelInv ==
    /\ cancelled \subseteq InFlight(Cancellable)
    /\ ~stray => cancelled \cap InFlight({"request"}) = {}

LabelInv ==
    ~stray => \A j \in InFlight({"exec"}) : job[j].cmd = proposedCmd

(* Sequential without the types. *)
OneAtATime ==
    ~stray =>
        /\ state = "thinking" <=> InFlight({"request"}) # {}
        /\ state = "executing" <=> InFlight({"exec", "side"}) # {}
        /\ \A i, j \in InFlight({"request", "exec", "side"}) : i = j
        /\ \A j \in InFlight(Cancellable) : job[j].at = "working" => execCancel = j

(* The inductive invariant is TypeOK and Core. *)
Core == BusyHasCause /\ OneAtATime /\ HonestLabel /\ CancelInv /\ LabelInv

Busy == {"thinking", "executing"}

----------------------------------------------------------------------------
(* The history.                                                             *)

(* A set of naturals that is not empty has a least element. *)
LEMMA LeastNatural ==
    ASSUME NEW T \in SUBSET Nat, T # {}
    PROVE  \E x \in T : \A y \in T : x <= y
<1>1. PICK x \in T : \A y \in T : <<y, x>> \notin OpToRel(<, Nat)
  BY NatLessThanWellFounded, WFMin
<1>2. \A y \in T : ~(y < x)
  BY <1>1 DEF OpToRel
<1>3. QED
  BY <1>2

(* leadingUserHistory begins with a user turn, if there is any, and ends as *)
(* the history does.                                                        *)
LEMMA FromFirstUserEffect ==
    ASSUME NEW h \in Seq(Role)
    PROVE  /\ FromFirstUser(h) \in Seq(Role)
           /\ (\E i \in DOMAIN h : h[i] = "user") =>
                /\ FromFirstUser(h) # << >>
                /\ Head(FromFirstUser(h)) = "user"
                /\ Last(FromFirstUser(h)) = Last(h)
<1> DEFINE firsts == {i \in DOMAIN h : h[i] = "user"}
<1>1. CASE firsts = {}
  BY <1>1 DEF FromFirstUser
<1>2. CASE firsts # {}
  <2>1. firsts \in SUBSET Nat
    OBVIOUS
  <2> DEFINE i == CHOOSE i \in firsts : \A k \in firsts : i <= k
  <2>2. i \in firsts
    BY <1>2, <2>1, LeastNatural
  <2> HIDE DEF i
  <2>3. i \in 1..Len(h) /\ h[i] = "user" /\ Len(h) \in Nat
    BY <2>2
  <2>4. FromFirstUser(h) = SubSeq(h, i, Len(h))
    BY <1>2 DEF FromFirstUser, i
  <2>5. /\ SubSeq(h, i, Len(h)) \in Seq(Role)
        /\ Len(SubSeq(h, i, Len(h))) = Len(h) - i + 1
        /\ \A n \in 1..(Len(h) - i + 1) : SubSeq(h, i, Len(h))[n] = h[i + n - 1]
    BY <2>3, SubSeqProperties
  <2>6. /\ SubSeq(h, i, Len(h))[1] = "user"
        /\ SubSeq(h, i, Len(h))[Len(h) - i + 1] = h[Len(h)]
    BY <2>3, <2>5
  <2> DEFINE from == SubSeq(h, i, Len(h))
  <2> HIDE DEF from
  <2>7. /\ from \in Seq(Role) /\ Len(from) = Len(h) - i + 1
        /\ from[1] = "user" /\ from[Len(from)] = h[Len(h)]
    BY <2>5, <2>6 DEF from
  <2>8. from # << >> /\ Head(from) = from[1]
    BY <2>3, <2>7
  <2>9. QED
    BY <2>4, <2>7, <2>8 DEF Last, from
<1>3. QED
  BY <1>1, <1>2

(* trimHistory keeps the last turn, when that is the user's. *)
LEMMA TrimmedEffect ==
    ASSUME NEW h \in Seq(Role)
    PROVE  /\ Trimmed(h) \in Seq(Role)
           /\ h # << >> /\ Last(h) = "user" => Trimmed(h) # << >> /\ Last(Trimmed(h)) = "user"
<1>1. MaxHistory \in Nat \ {0} /\ Len(h) \in Nat
  BY ChatAssumption
<1>2. CASE Len(h) <= MaxHistory
  BY <1>2 DEF Trimmed
<1>3. CASE ~(Len(h) <= MaxHistory)
  <2> DEFINE n == Len(h) - MaxHistory + 1
             end == SubSeq(h, n, Len(h))
  <2>1. n \in 1..Len(h) /\ Len(h) - n + 1 = MaxHistory
    BY <1>1, <1>3
  <2>2. /\ end \in Seq(Role) /\ Len(end) = MaxHistory
        /\ end[MaxHistory] = h[Len(h)]
    BY <1>1, <2>1, SubSeqProperties
  <2> HIDE DEF end
  <2>3. Trimmed(h) = FromFirstUser(end)
    BY <1>3 DEF Trimmed, end
  <2>4. Last(end) = Last(h) /\ MaxHistory \in DOMAIN end
    BY <1>1, <2>2 DEF Last
  <2>5. Last(h) = "user" => \E i \in DOMAIN end : end[i] = "user"
    BY <2>2, <2>4 DEF Last
  <2>6. QED
    BY <2>2, <2>3, <2>4, <2>5, FromFirstUserEffect
<1>4. QED
  BY <1>2, <1>3

(* The other ways the history grows and shrinks. *)
LEMMA HistoryTypes ==
    ASSUME NEW h \in Seq(Role)
    PROVE  /\ \A r \in Role : /\ Append(h, r) \in Seq(Role)
                              /\ Append(h, r) # << >> /\ Last(Append(h, r)) = r
           /\ h \o <<"assistant", "user">> \in Seq(Role)
           /\ WithoutLastUser(h) \in Seq(Role)
<1>1. ASSUME NEW r \in Role
      PROVE  Append(h, r) \in Seq(Role) /\ Append(h, r) # << >> /\ Last(Append(h, r)) = r
  BY DEF Last
<1>2. h \o <<"assistant", "user">> \in Seq(Role)
  <2>1. <<"assistant", "user">> \in Seq(Role)
    BY DEF Role
  <2>2. QED
    BY <2>1
<1>3. WithoutLastUser(h) \in Seq(Role)
  <2>1. CASE h = << >>
    BY <2>1 DEF WithoutLastUser
  <2>2. CASE h # << >>
    <3>1. 1 \in 1..(Len(h) + 1) /\ Len(h) - 1 \in 0..Len(h)
      BY <2>2
    <3>2. Front(h) \in Seq(Role)
      BY <2>2, <3>1 DEF Front
    <3>3. QED
      BY <3>2 DEF WithoutLastUser
  <2>3. QED
    BY <2>1, <2>2
<1>4. QED
  BY <1>1, <1>2, <1>3

----------------------------------------------------------------------------
(* The jobs.                                                                *)

(* A job that is started adds itself to those of its kind. *)
LEMMA LaunchEffect ==
    ASSUME TypeOK, NEW j \in Fresh, NEW kind \in Kinds, NEW cmd \in Jobs \cup {None},
           Launch(j, kind, cmd)
    PROVE  /\ j \in Jobs /\ job[j] = NoJob
           /\ job' \in [Jobs -> [kind : Kinds \cup {"none"},
                                 at : {"none", "launched", "working", "over"},
                                 cmd : Jobs \cup {None}]]
           /\ job'[j] = [kind |-> kind, at |-> "launched", cmd |-> cmd]
           /\ \A i \in Jobs : i # j => job'[i] = job[i]
           /\ \A K : "none" \notin K =>
                /\ j \notin InFlight(K)
                /\ InFlight(K)' = IF kind \in K THEN InFlight(K) \cup {j} ELSE InFlight(K)
<1>1. /\ j \in Jobs /\ job[j] = NoJob
      /\ job' = [job EXCEPT ![j] = [kind |-> kind, at |-> "launched", cmd |-> cmd]]
  BY DEF Fresh, Launch
<1>2. /\ job'[j] = [kind |-> kind, at |-> "launched", cmd |-> cmd]
      /\ \A i \in Jobs : i # j => job'[i] = job[i]
  BY <1>1 DEF TypeOK
<1>3. job[j].kind = "none" /\ job'[j].kind = kind
  BY <1>1, <1>2 DEF NoJob
<1>4. ASSUME NEW K, "none" \notin K
      PROVE  /\ j \notin InFlight(K)
             /\ InFlight(K)' = IF kind \in K THEN InFlight(K) \cup {j} ELSE InFlight(K)
  BY <1>1, <1>2, <1>3, <1>4 DEF InFlight
<1>5. job' \in [Jobs -> [kind : Kinds \cup {"none"},
                         at : {"none", "launched", "working", "over"},
                         cmd : Jobs \cup {None}]]
  BY <1>1 DEF TypeOK
<1>6. QED
  BY <1>1, <1>2, <1>4, <1>5

(* A job that reports is over. *)
LEMMA FinishEffect ==
    ASSUME TypeOK, NEW j \in Jobs, Finish(j)
    PROVE  /\ job' \in [Jobs -> [kind : Kinds \cup {"none"},
                                 at : {"none", "launched", "working", "over"},
                                 cmd : Jobs \cup {None}]]
           /\ cancelled' = cancelled \ {j}
           /\ job'[j] = Over
           /\ \A i \in Jobs : i # j => job'[i] = job[i]
           /\ \A K : "none" \notin K => InFlight(K)' = InFlight(K) \ {j}
<1>1. job' = [job EXCEPT ![j] = Over] /\ cancelled' = cancelled \ {j}
  BY DEF Finish
<1>2. job'[j] = Over /\ \A i \in Jobs : i # j => job'[i] = job[i]
  BY <1>1 DEF TypeOK
<1>3. job'[j].kind = "none"
  BY <1>2 DEF Over
<1>4. ASSUME NEW K, "none" \notin K PROVE InFlight(K)' = InFlight(K) \ {j}
  BY <1>2, <1>3, <1>4 DEF InFlight
<1>5. job' \in [Jobs -> [kind : Kinds \cup {"none"},
                         at : {"none", "launched", "working", "over"},
                         cmd : Jobs \cup {None}]]
  BY <1>1 DEF TypeOK, Over
<1>6. QED
  BY <1>1, <1>2, <1>4, <1>5

(* The kinds of jobs, by what they may do. *)
LEMMA KindsInFlight ==
    /\ InFlight({"request", "exec", "side"})
         = InFlight({"request"}) \cup InFlight({"exec"}) \cup InFlight({"side"})
    /\ InFlight({"exec", "side"}) = InFlight({"exec"}) \cup InFlight({"side"})
    /\ InFlight(Cancellable) = InFlight({"request"}) \cup InFlight({"exec"})
    /\ InFlight({"request"}) \cap InFlight({"exec"}) = {}
    /\ InFlight({"request"}) \cap InFlight({"side"}) = {}
    /\ InFlight({"exec"}) \cap InFlight({"side"}) = {}
BY DEF InFlight, Cancellable

----------------------------------------------------------------------------
(* Types.                                                                   *)

(* Starting a command, in the foreground or in the background. *)
LEMMA ExecutionTypes ==
    ASSUME TypeOK, NEW cmd \in Jobs \cup {None}
    PROVE  /\ \A j \in Fresh : StartExecution(j, cmd) =>
                /\ history' \in Seq(Role) /\ proposedCmd' = cmd /\ state' = "executing"
                /\ Launch(j, "exec", cmd)
           /\ StartBackgroundProcess(cmd) =>
                history' \in Seq(Role) /\ proposedCmd' = cmd /\ state' = "idle"
<1>1. history \in Seq(Role) /\ "assistant" \in Role
  BY DEF TypeOK, Role
<1>2. Append(history, "assistant") \in Seq(Role)
  BY <1>1, HistoryTypes
<1>3. Trimmed(history \o <<"assistant", "user">>) \in Seq(Role)
  BY <1>1, HistoryTypes, TrimmedEffect
<1>4. QED
  BY <1>2, <1>3 DEF StartExecution, StartBackgroundProcess

(* What is sent with a request. *)
LEMMA TurnTypes ==
    ASSUME TypeOK
    PROVE  /\ Trimmed(Append(history, "user")) \in Seq(Role)
           /\ Append(history, "assistant") \in Seq(Role)
           /\ WithoutLastUser(history) \in Seq(Role)
           /\ history \o <<"assistant", "user">> \in Seq(Role)
<1>1. history \in Seq(Role) /\ "assistant" \in Role /\ "user" \in Role
  BY DEF TypeOK, Role
<1>2. Append(history, "user") \in Seq(Role)
  BY <1>1, HistoryTypes
<1>3. QED
  BY <1>1, <1>2, HistoryTypes, TrimmedEffect

(* The types of the jobs, by what becomes of them. *)
JobTypes == [Jobs -> [kind : Kinds \cup {"none"},
                      at : {"none", "launched", "working", "over"},
                      cmd : Jobs \cup {None}]]

(* Every step keeps the types. *)
LEMMA TypeStep == TypeOK /\ [Next]_vars => TypeOK'
<1> SUFFICES ASSUME TypeOK, [Next]_vars PROVE TypeOK'
  OBVIOUS
<1> USE ChatAssumption
<1>0. job \in JobTypes /\ \A j \in Fresh : j \in Jobs
  BY DEF TypeOK, JobTypes, Fresh
<1>1. CASE Ask
  <2>1. PICK j \in Fresh : StartAIRequest(j, Append(history, "user"))
    BY <1>1 DEF Ask
  <2>2. job' \in JobTypes
    BY <1>0, <2>1, LaunchEffect DEF StartAIRequest, Kinds, JobTypes
  <2>3. history' \in Seq(Role)
    BY <2>1, TurnTypes DEF StartAIRequest
  <2>4. QED
    BY <1>1, <2>1, <2>2, <2>3 DEF Ask, StartAIRequest, TypeOK, JobTypes
<1>2. CASE RunTyped \/ Accept \/ AcceptEdited
  <2>1. PICK cmd \in Jobs \cup {None} :
            \/ \E j \in Fresh : StartExecution(j, cmd)
            \/ StartBackgroundProcess(cmd) /\ UNCHANGED job
    BY <1>0, <1>2 DEF RunTyped, Accept, AcceptEdited, TypeOK
  <2>2. /\ history' \in Seq(Role) /\ proposedCmd' = cmd /\ state' \in {"executing", "idle"}
        /\ UNCHANGED job \/ \E j \in Fresh : Launch(j, "exec", cmd)
    BY <2>1, ExecutionTypes
  <2>3. job' \in JobTypes
    BY <1>0, <2>2, LaunchEffect DEF Kinds, JobTypes
  <2>4. UNCHANGED <<mode, promptActive, fixAttempts, execCancel, cancelled, mislabelled, stray>>
    BY <1>2 DEF RunTyped, Accept, AcceptEdited
  <2>5. QED
    BY <2>2, <2>3, <2>4 DEF TypeOK, JobTypes
<1>3. CASE FetchModels \/ SideAction \/ ConfirmPrompt
  <2>1. PICK j \in Fresh, kind \in {"models", "side"} : Launch(j, kind, None)
    BY <1>3 DEF FetchModels, SideAction, ConfirmPrompt
  <2>2. job' \in JobTypes
    BY <2>1, LaunchEffect DEF Kinds, JobTypes
  <2>3. QED
    BY <1>3, <2>2 DEF FetchModels, SideAction, ConfirmPrompt, Leaving, TypeOK, JobTypes
<1>4. CASE \/ ToggleInputMode \/ Reset \/ PickEffort \/ EndPicking \/ Edit \/ DropEdit
           \/ OpenPrompt \/ ClosePrompt \/ Quit \/ UNCHANGED vars
  <2>1. << >> \in Seq(Role)
    OBVIOUS
  <2>2. QED
    BY <1>4, <2>1 DEF ToggleInputMode, Reset, PickEffort, EndPicking, Edit, DropEdit,
       OpenPrompt, ClosePrompt, Quit, vars, TypeOK
<1>5. CASE Decline
  BY <1>5, TurnTypes DEF Decline, TypeOK
<1>6. CASE EscThinking \/ EscExecuting
  <2>1. cancelled' \subseteq Jobs /\ stray' \in BOOLEAN
    BY <1>6 DEF EscThinking, EscExecuting, CancelLast, InFlight, Leaving, TypeOK
  <2>2. history' \in Seq(Role)
    BY <1>6, TurnTypes DEF EscThinking, EscExecuting, TypeOK
  <2>3. QED
    BY <1>6, <2>1, <2>2 DEF EscThinking, EscExecuting, TypeOK
<1>7. ASSUME NEW j \in Jobs, GiveCancel(j) PROVE TypeOK'
  BY <1>7 DEF GiveCancel, TypeOK
<1>8. ASSUME NEW j \in Jobs,
             RequestReports(j) \/ ExecSucceeds(j) \/ ExecFails(j) \/ SideReports(j) \/ ModelsReport(j)
      PROVE  TypeOK'
  <2>1. Finish(j)
    BY <1>8 DEF RequestReports, RequestCancelled, RequestFails, RequestAnswered, RequestProposes,
       ExecSucceeds, ExecFails, ExecReports, SideReports, ModelsReport, Reports
  <2>2. job' \in JobTypes /\ cancelled' \subseteq Jobs
    BY <2>1, FinishEffect DEF JobTypes, TypeOK
  <2>3. history' \in Seq(Role)
    BY <1>8, TurnTypes DEF RequestReports, RequestCancelled, RequestFails, RequestAnswered,
       RequestProposes, ExecSucceeds, ExecFails, SideReports, ModelsReport, Feedback, TypeOK
  <2>4. mislabelled' \in BOOLEAN /\ stray' \in BOOLEAN
    BY <1>8 DEF RequestReports, RequestCancelled, RequestFails, RequestAnswered,
       RequestProposes, ExecSucceeds, ExecFails, ExecReports, SideReports, ModelsReport,
       Label, Leaving, TypeOK
  <2>5. QED
    BY <1>8, <2>2, <2>3, <2>4 DEF RequestReports, RequestCancelled, RequestFails,
       RequestAnswered, RequestProposes, ExecSucceeds, ExecFails, ExecReports, SideReports,
       ModelsReport, TypeOK, JobTypes
<1>9. ASSUME NEW j \in Jobs, AutoFix(j) PROVE TypeOK'
  <2>1. PICK r \in Fresh :
            job' = [job EXCEPT ![j] = Over,
                               ![r] = [kind |-> "request", at |-> "launched", cmd |-> r]]
    BY <1>9 DEF AutoFix
  <2>2. job' \in JobTypes
    BY <1>0, <2>1 DEF JobTypes, Over, Kinds
  <2>3. history' \in Seq(Role)
    BY <1>9, TurnTypes DEF AutoFix, Feedback
  <2>4. fixAttempts' \in 0..MaxFixAttempts
    BY <1>9 DEF AutoFix, TypeOK
  <2>5. mislabelled' \in BOOLEAN
    BY <1>9 DEF AutoFix, Label, TypeOK
  <2>6. QED
    BY <1>9, <2>2, <2>3, <2>4, <2>5 DEF AutoFix, TypeOK, JobTypes
<1>10. QED
  BY <1>1, <1>2, <1>3, <1>4, <1>5, <1>6, <1>7, <1>8, <1>9 DEF Next, Keys, Messages, ExecEnds

----------------------------------------------------------------------------
(* What the UI does and what is under way.                                  *)

(* A step that concerns no job. *)
LEMMA QuietCore ==
    ASSUME Core, UNCHANGED <<job, cancelled, execCancel, mislabelled, stray>>,
           \/ state' = state
           \/ state \notin Busy /\ state' \notin Busy,
           proposedCmd' = proposedCmd \/ state \notin Busy
    PROVE  Core'
<1>1. \A K : InFlight(K)' = InFlight(K)
  BY DEF InFlight
<1>2. BusyHasCause'
  BY <1>1 DEF Core, BusyHasCause, Busy
<1>3. OneAtATime' /\ CancelInv' /\ HonestLabel'
  BY <1>1 DEF Core, OneAtATime, CancelInv, HonestLabel, Busy
<1>4. LabelInv'
  BY <1>1, KindsInFlight DEF Core, OneAtATime, LabelInv, Busy
<1>5. QED
  BY <1>2, <1>3, <1>4 DEF Core

(* A job that the idle UI starts and waits for. *)
LEMMA LaunchCore ==
    ASSUME TypeOK, Core, NEW j \in Fresh, NEW kind \in {"request", "exec", "side"},
           NEW cmd \in Jobs \cup {None}, Launch(j, kind, cmd),
           state' = (IF kind = "request" THEN "thinking" ELSE "executing"),
           state \notin Busy \/ stray' \/ InFlight({"request", "exec", "side"}) = {},
           kind = "exec" => cmd = proposedCmd',
           stray => stray', UNCHANGED <<cancelled, execCancel, mislabelled>>
    PROVE  Core'
<1>1. /\ j \in Jobs
      /\ job'[j] = [kind |-> kind, at |-> "launched", cmd |-> cmd]
      /\ \A i \in Jobs : i # j => job'[i] = job[i]
      /\ \A K : "none" \notin K =>
            /\ j \notin InFlight(K)
            /\ InFlight(K)' = IF kind \in K THEN InFlight(K) \cup {j} ELSE InFlight(K)
  BY LaunchEffect DEF Kinds
<1>2. /\ j \notin InFlight(Cancellable)
      /\ InFlight({"request"})' = IF kind = "request" THEN InFlight({"request"}) \cup {j}
                                  ELSE InFlight({"request"})
      /\ InFlight({"exec"})' = IF kind = "exec" THEN InFlight({"exec"}) \cup {j}
                               ELSE InFlight({"exec"})
      /\ InFlight({"exec", "side"})' = IF kind # "request" THEN InFlight({"exec", "side"}) \cup {j}
                                       ELSE InFlight({"exec", "side"})
      /\ InFlight({"request", "exec", "side"})' = InFlight({"request", "exec", "side"}) \cup {j}
      /\ InFlight(Cancellable)' = IF kind # "side" THEN InFlight(Cancellable) \cup {j}
                                  ELSE InFlight(Cancellable)
  BY <1>1 DEF Cancellable
<1>3. j \notin cancelled
  BY <1>2 DEF Core, CancelInv
<1>4. ~stray' => InFlight({"request", "exec", "side"}) = {} /\ ~stray
  BY KindsInFlight DEF Core, OneAtATime, Busy
<1>5. BusyHasCause'
  BY <1>2, <1>3 DEF BusyHasCause
<1>6. OneAtATime'
  <2> SUFFICES ASSUME ~stray' PROVE OneAtATime'
    BY DEF OneAtATime
  <2>1. /\ InFlight({"request"}) = {} /\ InFlight({"exec", "side"}) = {}
        /\ InFlight(Cancellable) = {}
    BY <1>4, KindsInFlight
  <2>2. job'[j].at = "launched"
    BY <1>1
  <2>3. QED
    BY <1>2, <1>4, <2>1, <2>2 DEF OneAtATime
<1>7. HonestLabel' /\ CancelInv'
  BY <1>2, <1>3, <1>4, KindsInFlight DEF Core, HonestLabel, CancelInv
<1>8. LabelInv'
  <2>1. kind = "exec" => job'[j].cmd = proposedCmd'
    BY <1>1
  <2>2. ~stray' => InFlight({"exec"}) = {}
    BY <1>4, KindsInFlight
  <2>3. QED
    BY <1>2, <2>1, <2>2 DEF LabelInv
<1>9. QED
  BY <1>5, <1>6, <1>7, <1>8 DEF Core

(* A job that reports and leaves the UI idle, or with its proposal. *)
LEMMA ReportCore ==
    ASSUME TypeOK, Core, NEW j \in InFlight({"request", "exec", "side"}), Finish(j),
           state' \notin Busy, UNCHANGED <<execCancel, stray>>,
           mislabelled' => mislabelled \/ stray
    PROVE  Core'
<1>1. /\ j \in Jobs /\ cancelled' = cancelled \ {j}
      /\ \A i \in Jobs : i # j => job'[i] = job[i]
      /\ \A K : "none" \notin K => InFlight(K)' = InFlight(K) \ {j}
  BY FinishEffect DEF InFlight
<1>2. /\ InFlight({"request"})' = InFlight({"request"}) \ {j}
      /\ InFlight({"exec"})' = InFlight({"exec"}) \ {j}
      /\ InFlight({"exec", "side"})' = InFlight({"exec", "side"}) \ {j}
      /\ InFlight({"request", "exec", "side"})' = InFlight({"request", "exec", "side"}) \ {j}
      /\ InFlight(Cancellable)' = InFlight(Cancellable) \ {j}
  BY <1>1 DEF Cancellable
<1>3. ~stray => InFlight({"request", "exec", "side"})' = {}
  BY <1>2 DEF Core, OneAtATime
<1>4. ~stray => /\ InFlight({"request"})' = {} /\ InFlight({"exec", "side"})' = {}
                /\ InFlight(Cancellable)' = {} /\ InFlight({"exec"})' = {}
  BY <1>2, <1>3, KindsInFlight
<1>5. BusyHasCause' /\ OneAtATime'
  BY <1>3, <1>4 DEF BusyHasCause, OneAtATime, Busy
<1>6. HonestLabel' /\ CancelInv' /\ LabelInv'
  BY <1>1, <1>2, <1>4 DEF Core, HonestLabel, CancelInv, LabelInv
<1>7. QED
  BY <1>5, <1>6 DEF Core

(* A listing of models starts or reports: nobody waits for it. *)
LEMMA ModelsCore ==
    ASSUME Core,
           \A K : "none" \notin K /\ "models" \notin K => InFlight(K)' = InFlight(K),
           \A j \in InFlight({"request", "exec"}) : job'[j] = job[j],
           cancelled' = cancelled \/ cancelled' = cancelled \cap InFlight(Cancellable),
           UNCHANGED <<proposedCmd, execCancel, mislabelled>>,
           \/ UNCHANGED <<state, stray>>
           \/ state' \notin Busy /\ Leaving
    PROVE  Core'
<1>1. cancelled' = cancelled
  BY DEF Core, CancelInv
<1>2. /\ InFlight({"request"})' = InFlight({"request"})
      /\ InFlight({"exec"})' = InFlight({"exec"})
      /\ InFlight({"exec", "side"})' = InFlight({"exec", "side"})
      /\ InFlight({"request", "exec", "side"})' = InFlight({"request", "exec", "side"})
      /\ InFlight(Cancellable)' = InFlight(Cancellable)
  BY DEF Cancellable
<1>3. \A j \in InFlight(Cancellable) : job'[j] = job[j]
  BY DEF Cancellable
<1>4. ~stray' => ~stray
  BY DEF Leaving
<1>5. BusyHasCause'
  BY <1>1, <1>2 DEF Core, BusyHasCause, Busy
<1>6. OneAtATime'
  <2>1. CASE UNCHANGED <<state, stray>>
    BY <1>2, <1>3, <2>1 DEF Core, OneAtATime
  <2>2. CASE state' \notin Busy /\ Leaving
    <3> SUFFICES ASSUME ~stray' PROVE OneAtATime'
      BY DEF OneAtATime
    <3>1. InFlight({"request", "exec", "side"}) = {}
      BY <2>2 DEF Leaving
    <3>2. /\ InFlight({"request"}) = {} /\ InFlight({"exec", "side"}) = {}
          /\ InFlight(Cancellable) = {}
      BY <3>1, KindsInFlight
    <3>3. QED
      BY <1>2, <2>2, <3>1, <3>2 DEF OneAtATime, Busy
  <2>3. QED
    BY <2>1, <2>2
<1>7. HonestLabel' /\ CancelInv' /\ LabelInv'
  <2>1. stray => stray'
    BY DEF Leaving
  <2>2. HonestLabel' /\ CancelInv'
    BY <1>1, <1>2, <1>4, <2>1 DEF Core, HonestLabel, CancelInv
  <2>3. \A j \in InFlight({"exec"}) : job'[j] = job[j]
    BY <1>3, KindsInFlight
  <2>4. LabelInv'
    BY <1>2, <1>4, <2>3 DEF Core, LabelInv
  <2>5. QED
    BY <2>2, <2>4
<1>8. QED
  BY <1>5, <1>6, <1>7 DEF Core

(* Esc while the UI thinks leaves the request behind. *)
LEMMA EscCore ==
    ASSUME TypeOK, Core, EscThinking \/ EscExecuting
    PROVE  Core'
<1>1. /\ UNCHANGED <<job, proposedCmd, execCancel, mislabelled>> /\ CancelLast
      /\ \A K : InFlight(K)' = InFlight(K)
  BY DEF EscThinking, EscExecuting, InFlight
<1>2. cancelled' \subseteq InFlight(Cancellable)
  BY <1>1 DEF CancelLast, Core, CancelInv
<1>3. CASE EscThinking
  <2>1. state' = "idle" /\ InFlight({"request", "exec", "side"}) # {}
    BY <1>3, KindsInFlight DEF EscThinking, Key, Core, BusyHasCause
  <2>2. stray'
    BY <1>3, <2>1 DEF EscThinking, Leaving
  <2>3. QED
    BY <1>1, <1>2, <2>1, <2>2 DEF Core, BusyHasCause, OneAtATime, HonestLabel, CancelInv, LabelInv
<1>4. CASE EscExecuting
  <2>1. state = "executing" /\ UNCHANGED <<state, stray>>
    BY <1>4 DEF EscExecuting, Key
  <2>2. ~stray => InFlight({"request"}) = {}
    BY <2>1 DEF Core, OneAtATime
  <2>3. QED
    BY <1>1, <1>2, <2>1, <2>2 DEF Core, BusyHasCause, OneAtATime, HonestLabel, CancelInv, LabelInv
<1>5. QED
  BY <1>3, <1>4

(* A cancel function arrives. *)
LEMMA GiveCancelCore ==
    ASSUME TypeOK, Core, NEW j \in Jobs, GiveCancel(j)
    PROVE  Core'
<1>1. /\ job[j].kind \in Cancellable /\ execCancel' = j
      /\ job' = [job EXCEPT ![j].at = "working"]
      /\ UNCHANGED <<state, proposedCmd, cancelled, mislabelled, stray>>
  BY DEF GiveCancel
<1>2. \A i \in Jobs : job'[i].kind = job[i].kind /\ job'[i].cmd = job[i].cmd
  BY <1>1 DEF TypeOK
<1>3. \A K : InFlight(K)' = InFlight(K)
  BY <1>2 DEF InFlight
<1>4. BusyHasCause' /\ HonestLabel' /\ CancelInv'
  BY <1>1, <1>3 DEF Core, BusyHasCause, HonestLabel, CancelInv
<1>5. LabelInv'
  BY <1>1, <1>2, <1>3 DEF Core, LabelInv, InFlight
<1>6. OneAtATime'
  <2>1. j \in InFlight(Cancellable) /\ InFlight(Cancellable) \subseteq InFlight({"request", "exec", "side"})
    BY <1>1, KindsInFlight DEF InFlight
  <2>2. QED
    BY <1>1, <1>3, <2>1 DEF Core, OneAtATime
<1>7. QED
  BY <1>4, <1>5, <1>6 DEF Core

(* A failed command starts the request for its fix. *)
LEMMA AutoFixCore ==
    ASSUME TypeOK, Core, NEW j \in Jobs, AutoFix(j)
    PROVE  Core'
<1>1. PICK r \in Fresh :
        job' = [job EXCEPT ![j] = Over,
                           ![r] = [kind |-> "request", at |-> "launched", cmd |-> r]]
  BY DEF AutoFix
<1>2. /\ job[j].kind = "exec" /\ cancelled' = cancelled \ {j}
      /\ state' = "thinking" /\ Label(j)
      /\ UNCHANGED <<proposedCmd, execCancel, stray>>
  BY DEF AutoFix
<1>3. r \in Jobs /\ job[r].kind = "none" /\ r # j
  BY <1>2 DEF Fresh, NoJob
<1>4. /\ job'[j].kind = "none"
      /\ job'[r].kind = "request" /\ job'[r].at = "launched"
      /\ \A i \in Jobs \ {j, r} : job'[i] = job[i]
  BY <1>1, <1>3 DEF TypeOK, Over
<1>5. /\ InFlight({"request"})' = InFlight({"request"}) \cup {r}
      /\ InFlight({"exec"})' = InFlight({"exec"}) \ {j}
      /\ InFlight({"exec", "side"})' = InFlight({"exec", "side"}) \ {j}
      /\ InFlight({"request", "exec", "side"})'
            = (InFlight({"request", "exec", "side"}) \ {j}) \cup {r}
      /\ InFlight(Cancellable)' = (InFlight(Cancellable) \ {j}) \cup {r}
  BY <1>2, <1>3, <1>4 DEF InFlight, Cancellable
<1>6. j \in InFlight({"exec"}) /\ r \notin InFlight(Cancellable)
  BY <1>2, <1>3 DEF InFlight, Cancellable
<1>7. r \notin cancelled'
  BY <1>2, <1>6 DEF Core, CancelInv
<1>8. ~stray => /\ InFlight({"request"}) = {} /\ InFlight({"exec", "side"}) = {j}
                /\ InFlight({"request", "exec", "side"}) = {j}
                /\ InFlight({"exec"}) = {j} /\ InFlight(Cancellable) = {j}
  BY <1>6, KindsInFlight DEF Core, OneAtATime
<1>9. BusyHasCause' /\ OneAtATime'
  BY <1>2, <1>4, <1>5, <1>7, <1>8 DEF BusyHasCause, OneAtATime
<1>10. HonestLabel' /\ LabelInv'
  BY <1>2, <1>5, <1>6, <1>8 DEF Core, HonestLabel, LabelInv, Label
<1>11. CancelInv'
  BY <1>2, <1>5, <1>7, <1>8 DEF Core, CancelInv
<1>12. QED
  BY <1>9, <1>10, <1>11 DEF Core

(* Every step keeps what the UI does and what is under way together. *)
LEMMA CoreStep == TypeOK /\ Core /\ [Next]_vars => Core'
<1> SUFFICES ASSUME TypeOK, Core, [Next]_vars PROVE Core'
  OBVIOUS
<1>0. \A j \in Fresh : j \in Jobs
  BY DEF Fresh
<1>1. CASE Ask
  <2>1. PICK j \in Fresh : StartAIRequest(j, Append(history, "user"))
    BY <1>1 DEF Ask
  <2>2. /\ Launch(j, "request", j) /\ state' = "thinking" /\ state \notin Busy
        /\ UNCHANGED <<cancelled, execCancel, mislabelled, stray>>
    BY <1>1, <2>1 DEF Ask, StartAIRequest, Key, Busy
  <2>3. QED
    BY <1>0, <2>2, LaunchCore
<1>2. CASE RunTyped \/ Accept \/ AcceptEdited
  <2>1. PICK cmd \in Jobs \cup {None} :
            \/ \E j \in Fresh : StartExecution(j, cmd)
            \/ StartBackgroundProcess(cmd) /\ UNCHANGED job
    BY <1>0, <1>2 DEF RunTyped, Accept, AcceptEdited, TypeOK
  <2>2. /\ state \notin Busy
        /\ UNCHANGED <<cancelled, execCancel, mislabelled, stray>>
    BY <1>2 DEF RunTyped, Accept, AcceptEdited, Key, Busy
  <2>3. ASSUME NEW j \in Fresh, StartExecution(j, cmd) PROVE Core'
    BY <2>2, <2>3, LaunchCore DEF StartExecution
  <2>4. ASSUME StartBackgroundProcess(cmd), UNCHANGED job PROVE Core'
    BY <2>2, <2>4, QuietCore DEF StartBackgroundProcess, Busy
  <2>5. QED
    BY <2>1, <2>3, <2>4
<1>3. CASE SideAction \/ ConfirmPrompt
  <2>1. PICK j \in Fresh : Launch(j, "side", None)
    BY <1>3 DEF SideAction, ConfirmPrompt
  <2>2. state' = "executing" /\ UNCHANGED <<cancelled, execCancel, mislabelled>>
    BY <1>3 DEF SideAction, ConfirmPrompt
  <2>3. \/ state \notin Busy /\ UNCHANGED stray
        \/ Leaving
    BY <1>3 DEF SideAction, ConfirmPrompt, Key, Busy
  <2>4. Leaving => (stray' \/ InFlight({"request", "exec", "side"}) = {}) /\ (stray => stray')
    BY DEF Leaving
  <2>5. QED
    BY <2>1, <2>2, <2>3, <2>4, LaunchCore
<1>4. CASE FetchModels
  <2>1. PICK j \in Fresh : Launch(j, "models", None)
    BY <1>4 DEF FetchModels
  <2>2. /\ \A K : "none" \notin K /\ "models" \notin K => InFlight(K)' = InFlight(K)
        /\ j \notin InFlight({"request", "exec"})
        /\ \A i \in Jobs : i # j => job'[i] = job[i]
    BY <2>1, LaunchEffect DEF Kinds
  <2>3. \A i \in InFlight({"request", "exec"}) : job'[i] = job[i]
    BY <2>2 DEF InFlight
  <2>4. UNCHANGED <<state, stray, cancelled, proposedCmd, execCancel, mislabelled>>
    BY <1>4 DEF FetchModels
  <2>5. QED
    BY <2>2, <2>3, <2>4, ModelsCore
<1>5. CASE \/ ToggleInputMode \/ Reset \/ PickEffort \/ EndPicking \/ Decline \/ Edit
           \/ DropEdit \/ OpenPrompt \/ ClosePrompt \/ Quit \/ UNCHANGED vars
  BY <1>5, QuietCore DEF ToggleInputMode, Reset, PickEffort, EndPicking, Decline, Edit,
     DropEdit, OpenPrompt, ClosePrompt, Quit, Key, Busy, vars
<1>6. CASE EscThinking \/ EscExecuting
  BY <1>6, EscCore
<1>7. ASSUME NEW j \in Jobs, RequestCancelled(j) PROVE Core'
  <2>1. /\ j \in InFlight({"request"}) /\ j \in cancelled /\ Finish(j)
        /\ UNCHANGED <<state, proposedCmd, execCancel, mislabelled, stray>>
    BY <1>7 DEF RequestCancelled, Reports, InFlight
  <2>2. stray
    BY <2>1 DEF Core, CancelInv
  <2>3. /\ cancelled' = cancelled \ {j}
        /\ InFlight({"request"})' = InFlight({"request"}) \ {j}
        /\ InFlight({"exec", "side"})' = InFlight({"exec", "side"}) \ {j}
        /\ InFlight(Cancellable)' = InFlight(Cancellable) \ {j}
    BY <2>1, FinishEffect DEF Cancellable
  <2>4. j \notin InFlight({"exec", "side"})
    BY <2>1, KindsInFlight
  <2>5. QED
    BY <2>1, <2>2, <2>3, <2>4
       DEF Core, BusyHasCause, OneAtATime, HonestLabel, CancelInv, LabelInv
<1>8. ASSUME NEW j \in Jobs,
             \/ RequestFails(j) \/ RequestAnswered(j) \/ RequestProposes(j)
             \/ ExecSucceeds(j) \/ ExecFails(j) \/ SideReports(j)
      PROVE  Core'
  <2>1. /\ j \in InFlight({"request", "exec", "side"}) /\ Finish(j)
        /\ state' \notin Busy /\ UNCHANGED <<execCancel, stray>>
        /\ mislabelled' = mislabelled \/ ExecReports(j)
    BY <1>8 DEF RequestFails, RequestAnswered, RequestProposes, ExecSucceeds, ExecFails,
       ExecReports, SideReports, Reports, InFlight, Busy
  <2>2. ExecReports(j) => (mislabelled' => mislabelled \/ stray)
    BY DEF ExecReports, Reports, Label, Core, LabelInv, InFlight
  <2>3. QED
    BY <2>1, <2>2, ReportCore
<1>9. ASSUME NEW j \in Jobs, ModelsReport(j) PROVE Core'
  <2>1. /\ job[j].kind = "models" /\ Finish(j)
        /\ \/ UNCHANGED <<state, stray>>
           \/ state' \notin Busy /\ Leaving
        /\ UNCHANGED <<proposedCmd, execCancel, mislabelled>>
    BY <1>9 DEF ModelsReport, Reports, Busy
  <2>2. j \notin InFlight({"request", "exec"}) /\ j \notin InFlight(Cancellable)
    BY <2>1 DEF InFlight, Cancellable
  <2>3. /\ \A K : "none" \notin K /\ "models" \notin K => InFlight(K)' = InFlight(K)
        /\ \A i \in Jobs : i # j => job'[i] = job[i]
        /\ cancelled' = cancelled \ {j}
    <3>1. \A K : "models" \notin K => j \notin InFlight(K)
      BY <2>1 DEF InFlight
    <3>2. /\ \A K : "none" \notin K => InFlight(K)' = InFlight(K) \ {j}
          /\ \A i \in Jobs : i # j => job'[i] = job[i]
          /\ cancelled' = cancelled \ {j}
      BY <2>1, FinishEffect
    <3>3. QED
      BY <3>1, <3>2
  <2>4. cancelled' = cancelled
    BY <2>2, <2>3 DEF Core, CancelInv
  <2>5. \A i \in InFlight({"request", "exec"}) : job'[i] = job[i]
    BY <2>2, <2>3 DEF InFlight
  <2>6. QED
    BY <2>1, <2>3, <2>4, <2>5, ModelsCore
<1>10. QED
  BY <1>1, <1>2, <1>3, <1>4, <1>5, <1>6, <1>7, <1>8, <1>9, GiveCancelCore, AutoFixCore
     DEF Next, Keys, Messages, ExecEnds, RequestReports

----------------------------------------------------------------------------
(* The initial states satisfy the invariant. *)
LEMMA InitIInv == Init => TypeOK /\ Core
<1> SUFFICES ASSUME Init PROVE TypeOK /\ Core
  OBVIOUS
<1>1. TypeOK
  <2>1. history \in Seq(Role)
    BY DEF Init
  <2>2. fixAttempts \in 0..MaxFixAttempts
    BY ChatAssumption DEF Init
  <2>3. QED
    BY <2>1, <2>2 DEF Init, TypeOK, NoJob
<1>2. \A K : "none" \notin K => InFlight(K) = {}
  BY DEF Init, InFlight, NoJob
<1>3. InFlight({"request"}) = {} /\ InFlight({"exec"}) = {} /\ InFlight({"exec", "side"}) = {}
      /\ InFlight({"request", "exec", "side"}) = {} /\ InFlight(Cancellable) = {}
  BY <1>2 DEF Cancellable
<1>4. Core
  BY <1>3 DEF Init, Core, BusyHasCause, OneAtATime, HonestLabel, CancelInv, LabelInv
<1>5. QED
  BY <1>1, <1>4

(* The invariant holds in every reachable state. *)
LEMMA Invariance == Spec => [](TypeOK /\ Core)
<1>1. TypeOK /\ Core /\ [Next]_vars => (TypeOK /\ Core)'
  BY TypeStep, CoreStep
<1>2. QED
  BY InitIInv, <1>1, PTL DEF Spec

(* While the UI thinks or executes it takes no key but Esc: a job under way *)
(* will make it idle, whatever was abandoned or answered late               *)
(* (handleKeyThinking, handleAIDone).                                       *)
THEOREM BusyHolds == Spec => []BusyHasCause
<1>1. Core => BusyHasCause
  BY DEF Core
<1>2. QED
  BY Invariance, <1>1, PTL

(* As long as no state was taken from a job under way the state names the   *)
(* one job there is, and Esc cancels that one (setCancelMsg).               *)
THEOREM SequentialHolds == Spec => []Sequential
<1>1. TypeOK /\ Core => Sequential
  BY DEF Core, OneAtATime, Sequential
<1>2. QED
  BY Invariance, <1>1, PTL

(* handleExecDone shows what has run under the name it ran by, unless a     *)
(* request was left behind.                                                 *)
THEOREM LabelHolds == Spec => []HonestLabel
<1>1. Core => HonestLabel
  BY DEF Core
<1>2. QED
  BY Invariance, <1>1, PTL

----------------------------------------------------------------------------
(* A request is started with the history it is to send: a key or a failed   *)
(* command has just added the user's turn.                                  *)
LEMMA NewRequest ==
    ASSUME TypeOK, [Next]_vars, NEW j \in Jobs, job[j] = NoJob, job'[j].kind = "request"
    PROVE  history' = Trimmed(Append(history, "user"))
<1>0. job[j].kind = "none"
  BY DEF NoJob
<1>1. ASSUME NEW i \in Fresh, NEW kind \in {"exec", "side", "models"},
             NEW cmd \in Jobs \cup {None}, Launch(i, kind, cmd)
      PROVE  FALSE
  <2>1. /\ job'[i] = [kind |-> kind, at |-> "launched", cmd |-> cmd]
        /\ \A k \in Jobs : k # i => job'[k] = job[k]
    BY <1>1, LaunchEffect DEF Kinds
  <2>2. QED
    BY <1>0, <2>1
<1>2. ASSUME NEW i \in Jobs, Finish(i) PROVE FALSE
  <2>1. job'[i].kind = "none" /\ (j # i => job'[j] = job[j])
    BY <1>2, FinishEffect DEF Over
  <2>2. QED
    BY <1>0, <2>1
<1>3. ASSUME job' = job PROVE FALSE
  BY <1>0, <1>3
<1>4. CASE Ask
  BY <1>4 DEF Ask, StartAIRequest
<1>5. CASE RunTyped \/ Accept \/ AcceptEdited
  <2>1. job' = job \/ \E i \in Fresh, cmd \in Jobs \cup {None} : Launch(i, "exec", cmd)
    BY <1>5 DEF RunTyped, Accept, AcceptEdited, StartExecution, Fresh, TypeOK
  <2>2. QED
    BY <1>1, <1>3, <2>1
<1>6. CASE SideAction \/ ConfirmPrompt \/ FetchModels
  BY <1>1, <1>6 DEF SideAction, ConfirmPrompt, FetchModels
<1>7. CASE \/ ToggleInputMode \/ Reset \/ PickEffort \/ EndPicking \/ Decline \/ Edit
           \/ DropEdit \/ OpenPrompt \/ ClosePrompt \/ Quit \/ UNCHANGED vars
           \/ EscThinking \/ EscExecuting
  BY <1>3, <1>7 DEF ToggleInputMode, Reset, PickEffort, EndPicking, Decline, Edit,
     DropEdit, OpenPrompt, ClosePrompt, Quit, vars, EscThinking, EscExecuting
<1>8. ASSUME NEW i \in Jobs, GiveCancel(i) PROVE FALSE
  <2>1. job'[j].kind = job[j].kind
    BY <1>8 DEF GiveCancel, TypeOK
  <2>2. QED
    BY <1>0, <2>1
<1>9. ASSUME NEW i \in Jobs,
             RequestReports(i) \/ ExecSucceeds(i) \/ ExecFails(i) \/ SideReports(i) \/ ModelsReport(i)
      PROVE  FALSE
  BY <1>2, <1>9 DEF RequestReports, RequestCancelled, RequestFails, RequestAnswered,
     RequestProposes, ExecSucceeds, ExecFails, ExecReports, SideReports, ModelsReport, Reports
<1>10. ASSUME NEW i \in Jobs, AutoFix(i) PROVE history' = Trimmed(Append(history, "user"))
  BY <1>10 DEF AutoFix, Feedback
<1>11. QED
  BY <1>4, <1>5, <1>6, <1>7, <1>8, <1>9, <1>10 DEF Next, Keys, Messages, ExecEnds

(* trimHistory and leadingUserHistory together: what goes to the provider   *)
(* begins with a user turn and ends with the one that asks, however long    *)
(* the conversation and however short the history that is kept.             *)
THEOREM SentHolds == Spec => SentIsAQuestion
<1> DEFINE Asks == \A j \in Jobs : job[j] = NoJob /\ job'[j].kind = "request" =>
                       LET sent == FromFirstUser(history')
                       IN  sent # << >> /\ Head(sent) = "user" /\ Last(sent) = "user"
<1>1. ASSUME TypeOK, [Next]_vars PROVE Asks
  <2> SUFFICES ASSUME NEW j \in Jobs, job[j] = NoJob, job'[j].kind = "request"
               PROVE  /\ FromFirstUser(history') # << >>
                      /\ Head(FromFirstUser(history')) = "user"
                      /\ Last(FromFirstUser(history')) = "user"
    OBVIOUS
  <2>1. history' = Trimmed(Append(history, "user"))
    BY <1>1, NewRequest
  <2>2. /\ Append(history, "user") \in Seq(Role) /\ Append(history, "user") # << >>
        /\ Last(Append(history, "user")) = "user"
    BY <1>1, HistoryTypes DEF TypeOK, Role
  <2>3. history' \in Seq(Role) /\ history' # << >> /\ Last(history') = "user"
    BY <2>1, <2>2, TrimmedEffect
  <2>4. Len(history') \in DOMAIN history' /\ history'[Len(history')] = "user"
    BY <2>3 DEF Last
  <2>5. QED
    BY <2>3, <2>4, FromFirstUserEffect
<1>2. TypeOK /\ [Next]_vars => [Asks]_vars
  BY <1>1
<1>3. QED
  BY Invariance, <1>2, PTL DEF Spec, SentIsAQuestion

=============================================================================
