---------------------------- MODULE ApprovalsProofs ----------------------------
(***************************************************************************)
(* No tool runs without somebody's consent, and the desk tells the truth,   *)
(* for any number of participants, calls, connections, cuts, faults and     *)
(* changes of roles.                                                        *)
(***************************************************************************)
EXTENDS Approvals, SequenceTheorems, TLAPS

\* Somebody's yes was accepted by the relay.
Consented(a) == \E w \in answers : w.ask = a /\ w.allow

\* An answer was accepted from somebody who could give it, and the author of a call
\* does not change once it was made.
AnswersSound ==
  \A w \in answers : /\ call[w.ask] # "none"
                     /\ w.right # "none"
                     /\ w.by = author[w.ask] => w.right = "settings"

\* What is on the desk, or announced to it, was asked.
AskedSound ==
  /\ \A a \in desk : call[a] # "none"
  /\ \A c \in Conn : \A i \in DOMAIN reports[c] :
       reports[c][i].kind = "requested" => call[reports[c][i].ask] # "none"

\* A yes on its way, heard or executed is one that was accepted.
ConsentSound ==
  /\ \A c \in Conn : \A i \in DOMAIN orders[c] :
       orders[c][i].kind = "answer" /\ orders[c][i].allow => Consented(orders[c][i].ask)
  /\ \A a \in Ask : call[a] = "decided" /\ verdict[a] => Consented(a)
  /\ \A a \in Ask : outcome[a] = "allowed" => Consented(a)

ConsentInv == AnswersSound /\ AskedSound /\ ConsentSound

-----------------------------------------------------------------------------
(* Types. *)

LEMMA AnswerOrderTyped ==
  ASSUME NEW a \in Ask, NEW allow \in BOOLEAN
  PROVE  [kind |-> "answer", ask |-> a, allow |-> allow] \in Order
BY DEF Order

LEMMA CutOrderTyped == \A kind \in {"interrupt", "unhost"} : [kind |-> kind] \in Order
BY DEF Order

LEMMA ReportTyped ==
  /\ \A a \in Ask : /\ [kind |-> "requested", ask |-> a] \in Report
                    /\ [kind |-> "resolved", ask |-> a] \in Report
  /\ [kind |-> "hosted"] \in Report
  /\ [kind |-> "released"] \in Report
BY DEF Report

LEMMA SentTyped ==
  ASSUME orders \in [Conn -> Seq(Order)], NEW c \in Conn, NEW order \in Order
  PROVE  Sent(c, order) \in [Conn -> Seq(Order)]
BY DEF Sent

LEMMA ReportedTyped ==
  ASSUME ApprovalsTypeOK, NEW report \in Report, Reported(report)
  PROVE  reports' \in [Conn -> Seq(Report)]
<1>1. \A c \in Conn : Append(reports[c], report) \in Seq(Report)
  BY DEF ApprovalsTypeOK
<1>2. QED
  BY <1>1 DEF Reported, ApprovalsTypeOK

LEMMA LostTyped ==
  ASSUME ApprovalsTypeOK, NEW c \in Conn, Lost(c)
  PROVE  /\ socket' \in [Conn -> {"unused", "open", "lost", "closed"}]
         /\ orders' \in [Conn -> Seq(Order)]
         /\ reports' \in [Conn -> Seq(Report)]
<1>1. \A n \in 0..Len(reports[c]) : SubSeq(reports[c], 1, n) \in Seq(Report)
  BY SubSeqProperties DEF ApprovalsTypeOK
<1>2. QED
  BY <1>1 DEF Lost, ApprovalsTypeOK

LEMMA UnhostTyped ==
  ASSUME ApprovalsTypeOK, NEW c, Unhost(c)
  PROVE  desk' \subseteq Ask /\ agent' \in Conn \cup {None}
BY DEF Unhost, ApprovalsTypeOK

LEMMA SettleTyped ==
  ASSUME ApprovalsTypeOK, NEW a \in Ask, NEW allow, Settle(a, allow)
  PROVE  ApprovalsTypeOK'
<1>1. reports' \in [Conn -> Seq(Report)]
  BY ReportedTyped, ReportTyped DEF Settle
<1>2. call' \in [Ask -> CallState]
  BY DEF Settle, ApprovalsTypeOK, CallState
<1>3. outcome' \in [Ask -> {"none", "allowed", "denied"}]
  BY DEF Settle, ApprovalsTypeOK
<1>4. QED
  BY <1>1, <1>2, <1>3 DEF Settle, ApprovalsTypeOK, relayVars, historyVars

LEMMA ObeyTyped ==
  ASSUME ApprovalsTypeOK, NEW c \in Conn, NEW kind, Obey(c, kind)
  PROVE  orders' \in [Conn -> Seq(Order)] /\ Head(orders[c]) \in Order
<1>1. Tail(orders[c]) \in Seq(Order) /\ Head(orders[c]) \in Order
  BY DEF Obey, ApprovalsTypeOK
<1>2. QED
  BY <1>1 DEF Obey, ApprovalsTypeOK

LEMMA ReadTyped ==
  ASSUME ApprovalsTypeOK, NEW c \in Conn, NEW kind, Read(c, kind)
  PROVE  reports' \in [Conn -> Seq(Report)] /\ Head(reports[c]) \in Report
<1>1. Tail(reports[c]) \in Seq(Report) /\ Head(reports[c]) \in Report
  BY DEF Read, ApprovalsTypeOK
<1>2. QED
  BY <1>1 DEF Read, ApprovalsTypeOK

\* Every step keeps the types.
LEMMA StepTyped ==
  ASSUME ApprovalsTypeOK, [ApprovalsNext]_approvalVars
  PROVE  ApprovalsTypeOK'
<1>. USE ApprovalsAssumption
<1>1. ASSUME NEW a \in Ask, NEW p \in People, StartAsk(a, p) \/ AskCut(a, p)
      PROVE  ApprovalsTypeOK'
  <2>1. reports' \in [Conn -> Seq(Report)]
    BY <1>1, ReportedTyped, ReportTyped DEF StartAsk, AskCut, Asked
  <2>2. call' \in [Ask -> CallState] /\ author' \in [Ask -> People \cup {None}]
    <3>1. PICK next \in {"waiting", "cut"} : Asked(a, p, next)
      BY <1>1 DEF StartAsk, AskCut
    <3>2. call' = [call EXCEPT ![a] = next] /\ author' = [author EXCEPT ![a] = p]
      BY <3>1 DEF Asked
    <3>3. call \in [Ask -> CallState] /\ author \in [Ask -> People \cup {None}]
      BY DEF ApprovalsTypeOK
    <3>4. QED
      BY <3>2, <3>3 DEF CallState
  <2>3. askedOn' \in [Ask -> Conn \cup {None}]
    <3>1. (IF Current = {} THEN None ELSE CHOOSE c \in Current : TRUE) \in Conn \cup {None}
      BY DEF Current
    <3>2. QED
      BY <1>1, <3>1 DEF StartAsk, AskCut, Asked, ApprovalsTypeOK
  <2>4. QED
    BY <1>1, <2>1, <2>2, <2>3 DEF StartAsk, AskCut, Asked, ApprovalsTypeOK, relayVars
<1>2. ASSUME NEW a \in Ask, Answered(a) \/ TimedOut(a) \/ Cancelled(a)
      PROVE  ApprovalsTypeOK'
  BY <1>2, SettleTyped DEF Answered, TimedOut, Cancelled
<1>3. ASSUME NEW c \in Conn, ObeyAnswer(c)
      PROVE  ApprovalsTypeOK'
  <2>1. orders' \in [Conn -> Seq(Order)] /\ Head(orders[c]) \in Order
    BY <1>3, ObeyTyped DEF ObeyAnswer
  <2>2. Head(orders[c]).ask \in Ask /\ Head(orders[c]).allow \in BOOLEAN
    BY <1>3, <2>1 DEF ObeyAnswer, Obey, Order
  <2>3. call' \in [Ask -> CallState] /\ verdict' \in [Ask -> BOOLEAN]
    BY <1>3, <2>2 DEF ObeyAnswer, ApprovalsTypeOK, CallState
  <2>4. QED
    BY <1>3, <2>1, <2>3 DEF ObeyAnswer, ApprovalsTypeOK, relayVars, historyVars
<1>4. ASSUME NEW c \in Conn, ObeyInterrupt(c)
      PROVE  ApprovalsTypeOK'
  <2>1. orders' \in [Conn -> Seq(Order)]
    BY <1>4, ObeyTyped DEF ObeyInterrupt
  <2>2. QED
    BY <1>4, <2>1 DEF ObeyInterrupt, ReaderState, ApprovalsTypeOK, relayVars, historyVars
<1>5. ASSUME NEW c \in Conn, ObeyUnhost(c)
      PROVE  ApprovalsTypeOK'
  <2>1. orders' \in [Conn -> Seq(Order)]
    BY <1>5, ObeyTyped DEF ObeyUnhost
  <2>2. call' \in [Ask -> CallState] /\ verdict' \in [Ask -> BOOLEAN]
    BY <1>5 DEF ObeyUnhost, ApprovalsTypeOK, CallState
  <2>3. QED
    BY <1>5, <2>1, <2>2 DEF ObeyUnhost, ReaderState, ApprovalsTypeOK, relayVars, historyVars
<1>6. CASE Drained
  BY <1>6 DEF Drained, ReaderState, ApprovalsTypeOK, relayVars, connVars, historyVars
<1>7. CASE Released
  <2>1. reports' \in [Conn -> Seq(Report)]
    BY <1>7, ReportedTyped, ReportTyped DEF Released
  <2>2. QED
    BY <1>7, <2>1 DEF Released, ReaderState, ApprovalsTypeOK, relayVars, historyVars
<1>8. CASE MachineRestarts
  <2>1. /\ socket' \in [Conn -> {"unused", "open", "lost", "closed"}]
        /\ orders' \in [Conn -> Seq(Order)]
        /\ reports' \in [Conn -> Seq(Report)]
    BY <1>8, LostTyped DEF MachineRestarts, Current, ApprovalsTypeOK
  <2>2. call' \in [Ask -> CallState]
    BY <1>8 DEF MachineRestarts, ApprovalsTypeOK, CallState
  <2>3. reader' \in ReaderState /\ faults' \in 0..MaxFaults
    BY <1>8 DEF MachineRestarts, Fault, ReaderState, ApprovalsTypeOK
  <2>4. UNCHANGED <<author, verdict, outcome, hosting, desk, agent, linked, rights, opened,
                    answers, askedOn, tookBack, cuts, changes>>
    BY <1>8 DEF MachineRestarts, Fault, relayVars
  <2>5. QED
    BY <2>1, <2>2, <2>3, <2>4 DEF ApprovalsTypeOK
<1>9. ASSUME NEW p \in People, NEW a \in Ask, NEW allow \in BOOLEAN, DecideAsk(p, a, allow)
      PROVE  ApprovalsTypeOK'
  <2>1. orders' \in [Conn -> Seq(Order)]
    BY <1>9, AnswerOrderTyped, SentTyped DEF DecideAsk, ApprovalsTypeOK
  <2>2. [ask |-> a, by |-> p, allow |-> allow, right |-> rights[p]] \in Answer
    BY DEF Answer, ApprovalsTypeOK
  <2>3. QED
    BY <1>9, <2>1, <2>2 DEF DecideAsk, ApprovalsTypeOK, machineVars
<1>10. ASSUME NEW p \in People, NEW right \in Right, ChangeRight(p, right)
       PROVE  ApprovalsTypeOK'
  BY <1>10 DEF ChangeRight, ApprovalsTypeOK, machineVars, connVars
<1>11. ASSUME NEW kind \in {"interrupt", "unhost"}, OrderCut(kind)
       PROVE  ApprovalsTypeOK'
  <2>1. orders' \in [Conn -> Seq(Order)]
    BY <1>11, CutOrderTyped, SentTyped DEF OrderCut, ApprovalsTypeOK
  <2>2. QED
    BY <1>11, <2>1 DEF OrderCut, ApprovalsTypeOK, machineVars, relayVars
<1>12. ASSUME NEW c \in Conn, ReadRequested(c) \/ ReadResolved(c)
       PROVE  ApprovalsTypeOK'
  <2>1. reports' \in [Conn -> Seq(Report)] /\ Head(reports[c]) \in Report
    BY <1>12, ReadTyped DEF ReadRequested, ReadResolved
  <2>2. Head(reports[c]).ask \in Ask
    BY <1>12, <2>1 DEF ReadRequested, ReadResolved, Read, Report
  <2>3. QED
    BY <1>12, <2>1, <2>2
       DEF ReadRequested, ReadResolved, Read, ApprovalsTypeOK, machineVars
<1>13. ASSUME NEW c \in Conn, ReadHosted(c) \/ ReadReleased(c)
       PROVE  ApprovalsTypeOK'
  <2>1. reports' \in [Conn -> Seq(Report)]
    BY <1>13, ReadTyped DEF ReadHosted, ReadReleased
  <2>2. desk' \subseteq Ask /\ agent' \in Conn \cup {None}
    BY <1>13, UnhostTyped DEF ReadHosted, ReadReleased, ApprovalsTypeOK
  <2>3. QED
    BY <1>13, <2>1, <2>2
       DEF ReadHosted, ReadReleased, Read, ApprovalsTypeOK, machineVars
<1>14. ASSUME NEW c \in Conn, Notice(c)
       PROVE  ApprovalsTypeOK'
  <2>1. desk' \subseteq Ask /\ agent' \in Conn \cup {None}
    BY <1>14, UnhostTyped DEF Notice, ApprovalsTypeOK
  <2>2. reports' \in [Conn -> Seq(Report)]
    BY <1>14 DEF Notice, ApprovalsTypeOK
  <2>3. QED
    BY <1>14, <2>1, <2>2 DEF Notice, ApprovalsTypeOK, machineVars, historyVars
<1>15. CASE RelayRestarts
  BY <1>15 DEF RelayRestarts, Fault, ApprovalsTypeOK, machineVars
<1>16. CASE Connect
  <2>1. opened' \in Conn /\ opened' \in 0..MaxConns
    BY <1>16 DEF Connect, ApprovalsTypeOK, Conn
  <2>2. (IF hosting THEN <<[kind |-> "hosted"]>> ELSE <<>>) \in Seq(Report)
    BY ReportTyped
  <2>3. reports' \in [Conn -> Seq(Report)]
        /\ socket' \in [Conn -> {"unused", "open", "lost", "closed"}]
    BY <1>16, <2>1, <2>2 DEF Connect, ApprovalsTypeOK
  <2>4. desk' \subseteq Ask /\ agent' \in Conn \cup {None}
    BY <1>16, UnhostTyped DEF Connect, ApprovalsTypeOK
  <2>5. QED
    BY <1>16, <2>1, <2>3, <2>4 DEF Connect, ApprovalsTypeOK, machineVars, historyVars
<1>17. ASSUME NEW c \in Conn, CutConnection(c)
       PROVE  ApprovalsTypeOK'
  <2>1. /\ socket' \in [Conn -> {"unused", "open", "lost", "closed"}]
        /\ orders' \in [Conn -> Seq(Order)]
        /\ reports' \in [Conn -> Seq(Report)]
    BY <1>17, LostTyped DEF CutConnection
  <2>2. faults' \in 0..MaxFaults
    BY <1>17 DEF CutConnection, Fault, ApprovalsTypeOK
  <2>3. UNCHANGED <<machineVars, relayVars, opened, answers, askedOn, tookBack, cuts, changes>>
    BY <1>17 DEF CutConnection, Fault
  <2>4. QED
    BY <2>1, <2>2, <2>3 DEF ApprovalsTypeOK, machineVars, relayVars
<1>18. CASE UNCHANGED approvalVars
  BY <1>18 DEF approvalVars, machineVars, relayVars, connVars, historyVars, ApprovalsTypeOK
<1>19. QED
  BY <1>1, <1>2, <1>3, <1>4, <1>5, <1>6, <1>7, <1>8, <1>9, <1>10, <1>11, <1>12, <1>13,
     <1>14, <1>15, <1>16, <1>17, <1>18
     DEF ApprovalsNext, Machine, Relay

\* The types hold in every reachable state.
THEOREM ApprovalsTypeCorrect == ApprovalsSpec => []ApprovalsTypeOK
<1>1. ApprovalsInit => ApprovalsTypeOK
  <2>1. <<>> \in Seq(Order) /\ <<>> \in Seq(Report)
    OBVIOUS
  <2>2. 0 \in 0..MaxConns /\ 0 \in 0..MaxCuts /\ 0 \in 0..MaxFaults /\ 0 \in 0..MaxChanges
    BY ApprovalsAssumption
  <2>3. ApprovalsInit => /\ call \in [Ask -> CallState]
                         /\ author \in [Ask -> People \cup {None}]
                         /\ verdict \in [Ask -> BOOLEAN]
                         /\ outcome \in [Ask -> {"none", "allowed", "denied"}]
                         /\ askedOn \in [Ask -> Conn \cup {None}]
    BY DEF ApprovalsInit, CallState
  <2>4. ApprovalsInit => /\ socket \in [Conn -> {"unused", "open", "lost", "closed"}]
                         /\ orders \in [Conn -> Seq(Order)]
                         /\ reports \in [Conn -> Seq(Report)]
    BY <2>1 DEF ApprovalsInit
  <2>5. QED
    BY <2>2, <2>3, <2>4 DEF ApprovalsInit, ApprovalsTypeOK, ReaderState
<1>2. QED
  BY <1>1, StepTyped, PTL DEF ApprovalsSpec

-----------------------------------------------------------------------------
(* Consent. *)

\* Nothing is announced, or ordered, that was not before.
ReportsKept == \A c \in Conn : \A i \in DOMAIN reports'[c] :
                 \E j \in DOMAIN reports[c] : reports'[c][i] = reports[c][j]
OrdersKept == \A c \in Conn : \A i \in DOMAIN orders'[c] :
                \E j \in DOMAIN orders[c] : orders'[c][i] = orders[c][j]
\* A call that was made stays made.
CallsStay == \A a \in Ask : call[a] # "none" => call'[a] # "none"

LEMMA LostKeeps ==
  ASSUME ApprovalsTypeOK, NEW c \in Conn, Lost(c)
  PROVE  OrdersKept /\ ReportsKept
<1>1. OrdersKept
  BY DEF Lost, OrdersKept, ApprovalsTypeOK
<1>2. PICK n \in 0..Len(reports[c]) :
        reports' = [reports EXCEPT ![c] = SubSeq(@, 1, n)]
  BY DEF Lost
<1>3. /\ SubSeq(reports[c], 1, n) \in Seq(Report)
      /\ \A i \in DOMAIN SubSeq(reports[c], 1, n) :
           i \in DOMAIN reports[c] /\ SubSeq(reports[c], 1, n)[i] = reports[c][i]
  BY SubSeqProperties DEF ApprovalsTypeOK
<1>4. ReportsKept
  BY <1>2, <1>3 DEF ReportsKept, ApprovalsTypeOK
<1>5. QED
  BY <1>1, <1>4

LEMMA ObeyKeeps ==
  ASSUME ApprovalsTypeOK, NEW c \in Conn, NEW kind, Obey(c, kind)
  PROVE  OrdersKept
<1>1. /\ orders[c] \in Seq(Order) /\ orders[c] # <<>>
      /\ orders' = [orders EXCEPT ![c] = Tail(orders[c])]
  BY DEF Obey, ApprovalsTypeOK
<1>2. \A i \in DOMAIN Tail(orders[c]) :
        i + 1 \in DOMAIN orders[c] /\ Tail(orders[c])[i] = orders[c][i + 1]
  BY <1>1
<1>3. QED
  BY <1>1, <1>2 DEF OrdersKept, ApprovalsTypeOK

LEMMA ReadKeeps ==
  ASSUME ApprovalsTypeOK, NEW c \in Conn, NEW kind, Read(c, kind)
  PROVE  ReportsKept
<1>1. /\ reports[c] \in Seq(Report) /\ reports[c] # <<>>
      /\ reports' = [reports EXCEPT ![c] = Tail(reports[c])]
  BY DEF Read, ApprovalsTypeOK
<1>2. \A i \in DOMAIN Tail(reports[c]) :
        i + 1 \in DOMAIN reports[c] /\ Tail(reports[c])[i] = reports[c][i + 1]
  BY <1>1
<1>3. QED
  BY <1>1, <1>2 DEF ReportsKept, ApprovalsTypeOK

\* Answers stay sound while nobody answers and no author changes.
LEMMA AnswersStay ==
  ASSUME ApprovalsTypeOK, AnswersSound, CallsStay, answers' = answers,
         \A a \in Ask : call[a] # "none" => author'[a] = author[a]
  PROVE  AnswersSound'
<1>1. \A w \in answers : w.ask \in Ask
  BY DEF ApprovalsTypeOK, Answer
<1>2. QED
  BY <1>1 DEF AnswersSound, CallsStay

LEMMA AskedStays ==
  ASSUME ApprovalsTypeOK, AskedSound, CallsStay, ReportsKept,
         \A a \in desk' : call[a] # "none" /\ a \in Ask
  PROVE  AskedSound'
<1>1. ASSUME NEW c \in Conn, NEW i \in DOMAIN reports'[c],
             reports'[c][i].kind = "requested"
      PROVE  call'[reports'[c][i].ask] # "none"
  <2>1. PICK j \in DOMAIN reports[c] : reports'[c][i] = reports[c][j]
    BY DEF ReportsKept
  <2>2. reports[c][j] \in Report
    BY <2>1 DEF ApprovalsTypeOK
  <2>3. reports[c][j].ask \in Ask
    BY <1>1, <2>1, <2>2 DEF Report
  <2>4. QED
    BY <1>1, <2>1, <2>3 DEF AskedSound, CallsStay
<1>2. QED
  BY <1>1 DEF AskedSound, CallsStay

\* Consent stays sound while nothing new is ordered and no verdict comes from
\* anywhere but a consent.
LEMMA ConsentStays ==
  ASSUME ApprovalsTypeOK, ConsentSound, OrdersKept, answers \subseteq answers',
         \A a \in Ask : call'[a] = "decided" /\ verdict'[a] =>
                         (call[a] = "decided" /\ verdict[a]) \/ Consented(a),
         \A a \in Ask : outcome'[a] = "allowed" => outcome[a] = "allowed" \/ Consented(a)
  PROVE  ConsentSound'
<1>1. \A a : Consented(a) => Consented(a)'
  BY DEF Consented
<1>2. ASSUME NEW c \in Conn, NEW i \in DOMAIN orders'[c],
             orders'[c][i].kind = "answer", orders'[c][i].allow
      PROVE  (\E w \in answers : w.ask = orders[c][i].ask /\ w.allow)'
  <2>1. PICK j \in DOMAIN orders[c] : orders'[c][i] = orders[c][j]
    BY DEF OrdersKept
  <2>2. PICK w \in answers : w.ask = orders[c][j].ask /\ w.allow
    BY <1>2, <2>1 DEF ConsentSound, Consented
  <2>3. QED
    BY <2>1, <2>2
<1>3. QED
  BY <1>1, <1>2 DEF ConsentSound, Consented

\* A report made on the current connection keeps the announcements sound, if it
\* announces what was asked.
LEMMA ReportedAsked ==
  ASSUME ApprovalsTypeOK, AskedSound, CallsStay, desk' = desk,
         NEW report \in Report, Reported(report),
         report.kind = "requested" => call'[report.ask] # "none"
  PROVE  AskedSound'
<1>1. ASSUME NEW c \in Conn, NEW i \in DOMAIN reports'[c],
             reports'[c][i].kind = "requested"
      PROVE  call'[reports'[c][i].ask] # "none"
  <2>1. reports[c] \in Seq(Report)
    BY DEF ApprovalsTypeOK
  <2>2. reports'[c] = reports[c] \/ reports'[c] = Append(reports[c], report)
    BY DEF Reported
  <2>3. (i \in DOMAIN reports[c] /\ reports'[c][i] = reports[c][i])
          \/ reports'[c][i] = report
    BY <2>1, <2>2
  <2>4. CASE i \in DOMAIN reports[c] /\ reports'[c][i] = reports[c][i]
    <3>1. reports[c][i].ask \in Ask
      BY <1>1, <2>1, <2>4 DEF Report
    <3>2. QED
      BY <1>1, <2>4, <3>1 DEF AskedSound, CallsStay
  <2>5. CASE reports'[c][i] = report
    BY <1>1, <2>5
  <2>6. QED
    BY <2>3, <2>4, <2>5
<1>2. \A a \in desk : a \in Ask
  BY DEF ApprovalsTypeOK
<1>3. QED
  BY <1>1, <1>2 DEF AskedSound, CallsStay

\* A tool is answered yes on a consent only.
LEMMA SettleSound ==
  ASSUME ApprovalsTypeOK, ConsentInv, NEW a \in Ask, NEW allow \in BOOLEAN,
         Settle(a, allow), allow => Consented(a)
  PROVE  ConsentInv'
<1>1. CallsStay /\ UNCHANGED <<author, verdict, orders, answers, desk>>
  BY DEF Settle, CallsStay, relayVars, historyVars, ApprovalsTypeOK
<1>2. AnswersSound'
  BY <1>1, AnswersStay DEF ConsentInv
<1>3. AskedSound'
  BY <1>1, ReportTyped, ReportedAsked DEF ConsentInv, Settle
<1>4. ConsentSound'
  <2>1. OrdersKept
    BY <1>1 DEF OrdersKept
  <2>2. /\ \A b \in Ask : call'[b] = "decided" /\ verdict'[b] =>
                             call[b] = "decided" /\ verdict[b]
        /\ \A b \in Ask : outcome'[b] = "allowed" => outcome[b] = "allowed" \/ Consented(b)
    BY <1>1 DEF Settle, ApprovalsTypeOK
  <2>3. QED
    BY <1>1, <2>1, <2>2, ConsentStays DEF ConsentInv
<1>5. QED
  BY <1>2, <1>3, <1>4 DEF ConsentInv

\* An accepted answer is one that could be given, and the order that carries it
\* carries a consent.
LEMMA DecideSound ==
  ASSUME ApprovalsTypeOK, ConsentInv, NEW p \in People, NEW a \in Ask,
         NEW allow \in BOOLEAN, DecideAsk(p, a, allow)
  PROVE  ConsentInv'
<1>. DEFINE answer == [ask |-> a, by |-> p, allow |-> allow, right |-> rights[p]]
            order == [kind |-> "answer", ask |-> a, allow |-> allow]
<1>1. /\ answers' = answers \cup {answer}
      /\ UNCHANGED <<call, author, verdict, outcome, reports>>
      /\ call[a] # "none"
  BY DEF DecideAsk, machineVars, ConsentInv, AskedSound
<1>2. AnswersSound'
  <2>1. \A w \in answers : /\ call[w.ask] # "none"
                           /\ w.right # "none"
                           /\ w.by = author[w.ask] => w.right = "settings"
    BY DEF ConsentInv, AnswersSound
  <2>2. /\ answer.right # "none"
        /\ answer.by = author[answer.ask] => answer.right = "settings"
    BY DEF DecideAsk, MayDecide
  <2>3. QED
    BY <1>1, <2>1, <2>2 DEF AnswersSound
<1>3. AskedSound'
  BY <1>1 DEF DecideAsk, ConsentInv, AskedSound
<1>4. ConsentSound'
  <2>1. ASSUME NEW c \in Conn, NEW i \in DOMAIN orders'[c],
               orders'[c][i].kind = "answer", orders'[c][i].allow
        PROVE  \E w \in answers' : w.ask = orders'[c][i].ask /\ w.allow
    <3>1. orders[c] \in Seq(Order)
      BY DEF ApprovalsTypeOK
    <3>2. orders'[c] = orders[c] \/ orders'[c] = Append(orders[c], order)
      BY DEF DecideAsk, Sent, ApprovalsTypeOK
    <3>3. (i \in DOMAIN orders[c] /\ orders'[c][i] = orders[c][i])
            \/ orders'[c][i] = order
      BY <3>1, <3>2
    <3>4. CASE i \in DOMAIN orders[c] /\ orders'[c][i] = orders[c][i]
      BY <1>1, <2>1, <3>4 DEF ConsentInv, ConsentSound, Consented
    <3>5. CASE orders'[c][i] = order
      <4>1. answer.ask = orders'[c][i].ask /\ answer.allow
        BY <2>1, <3>5
      <4>2. QED
        BY <1>1, <4>1
    <3>6. QED
      BY <3>3, <3>4, <3>5
  <2>2. \A b : Consented(b) => Consented(b)'
    BY <1>1 DEF Consented
  <2>3. QED
    BY <1>1, <2>1, <2>2 DEF ConsentInv, ConsentSound, Consented
<1>5. QED
  BY <1>2, <1>3, <1>4 DEF ConsentInv

\* The relay's reading of a report: the desk takes what was announced, or forgets.
LEMMA ReadSound ==
  ASSUME ApprovalsTypeOK, ConsentInv, NEW c \in Conn,
         \/ ReadRequested(c) \/ ReadResolved(c) \/ ReadHosted(c) \/ ReadReleased(c)
  PROVE  ConsentInv'
<1>1. ReportsKept /\ UNCHANGED <<call, author, verdict, outcome, orders, answers>>
  BY ReadKeeps DEF ReadRequested, ReadResolved, ReadHosted, ReadReleased, Read, machineVars
<1>2. \A a \in desk' : call[a] # "none" /\ a \in Ask
  <2>1. \A a \in desk : call[a] # "none" /\ a \in Ask
    BY DEF ConsentInv, AskedSound, ApprovalsTypeOK
  <2>2. CASE ReadRequested(c)
    <3>1. /\ Head(reports[c]) \in Report /\ Head(reports[c]).kind = "requested"
          /\ 1 \in DOMAIN reports[c] /\ Head(reports[c]) = reports[c][1]
      BY <2>2, ReadTyped DEF ReadRequested, Read, ApprovalsTypeOK
    <3>2. Head(reports[c]).ask \in Ask /\ call[Head(reports[c]).ask] # "none"
      BY <3>1 DEF Report, ConsentInv, AskedSound
    <3>3. QED
      BY <2>1, <2>2, <3>2 DEF ReadRequested
  <2>3. CASE ReadResolved(c) \/ ReadHosted(c) \/ ReadReleased(c)
    BY <2>1, <2>3 DEF ReadResolved, ReadHosted, ReadReleased, Unhost
  <2>4. QED
    BY <2>2, <2>3
<1>3. CallsStay /\ OrdersKept
  BY <1>1 DEF CallsStay, OrdersKept
<1>4. QED
  BY <1>1, <1>2, <1>3, AnswersStay, AskedStays, ConsentStays DEF ConsentInv

\* Every step keeps the invariant.
LEMMA ConsentStep ==
  ASSUME ApprovalsTypeOK, ConsentInv, [ApprovalsNext]_approvalVars
  PROVE  ConsentInv'
<1>. \A a \in desk : call[a] # "none" /\ a \in Ask
  BY DEF ConsentInv, AskedSound, ApprovalsTypeOK
<1>1. ASSUME NEW a \in Ask, NEW p \in People, StartAsk(a, p) \/ AskCut(a, p)
      PROVE  ConsentInv'
  <2>1. /\ UNCHANGED <<verdict, outcome, orders, answers, desk>>
        /\ call[a] = "none"
        /\ call' \in {[call EXCEPT ![a] = "waiting"], [call EXCEPT ![a] = "cut"]}
        /\ author' = [author EXCEPT ![a] = p]
    BY <1>1 DEF StartAsk, AskCut, Asked, relayVars
  <2>2. CallsStay /\ OrdersKept
    BY <2>1 DEF CallsStay, OrdersKept, ApprovalsTypeOK
  <2>3. AnswersSound'
    BY <2>1, <2>2, AnswersStay DEF ConsentInv, ApprovalsTypeOK
  <2>4. AskedSound'
    <3>1. [kind |-> "requested", ask |-> a] \in Report
          /\ call'[[kind |-> "requested", ask |-> a].ask] # "none"
      BY <2>1, ReportTyped DEF ApprovalsTypeOK
    <3>2. QED
      BY <1>1, <2>1, <2>2, <3>1, ReportedAsked DEF StartAsk, AskCut, Asked, ConsentInv
  <2>5. ConsentSound'
    BY <2>1, <2>2, ConsentStays DEF ConsentInv, ApprovalsTypeOK
  <2>6. QED
    BY <2>3, <2>4, <2>5 DEF ConsentInv
<1>2. ASSUME NEW a \in Ask, Answered(a) \/ TimedOut(a) \/ Cancelled(a)
      PROVE  ConsentInv'
  <2>1. CASE Answered(a)
    <3>1. verdict[a] \in BOOLEAN /\ (verdict[a] => Consented(a))
      BY <2>1 DEF Answered, ConsentInv, ConsentSound, ApprovalsTypeOK
    <3>2. QED
      BY <2>1, <3>1, SettleSound DEF Answered
  <2>2. CASE TimedOut(a) \/ Cancelled(a)
    BY <2>2, SettleSound DEF TimedOut, Cancelled
  <2>3. QED
    BY <1>2, <2>1, <2>2
<1>3. ASSUME NEW c \in Conn, ObeyAnswer(c)
      PROVE  ConsentInv'
  <2>1. /\ OrdersKept
        /\ UNCHANGED <<author, outcome, reports, answers, desk>>
    BY <1>3, ObeyKeeps DEF ObeyAnswer, relayVars, historyVars
  <2>2. /\ Head(orders[c]) \in Order /\ Head(orders[c]).kind = "answer"
        /\ 1 \in DOMAIN orders[c] /\ Head(orders[c]) = orders[c][1]
    BY <1>3, ObeyTyped DEF ObeyAnswer, Obey, ApprovalsTypeOK
  <2>3. Head(orders[c]).ask \in Ask
        /\ (Head(orders[c]).allow => Consented(Head(orders[c]).ask))
    BY <2>2 DEF Order, ConsentInv, ConsentSound
  <2>4. /\ CallsStay
        /\ \A a \in Ask : call'[a] = "decided" /\ verdict'[a] =>
                           (call[a] = "decided" /\ verdict[a]) \/ Consented(a)
    BY <1>3, <2>3 DEF ObeyAnswer, CallsStay, ApprovalsTypeOK
  <2>5. ReportsKept
    BY <2>1 DEF ReportsKept
  <2>6. QED
    BY <2>1, <2>4, <2>5, AnswersStay, AskedStays, ConsentStays DEF ConsentInv
<1>4. ASSUME NEW c \in Conn, ObeyInterrupt(c)
      PROVE  ConsentInv'
  <2>1. /\ OrdersKept
        /\ UNCHANGED <<call, author, verdict, outcome, reports, answers, desk>>
    BY <1>4, ObeyKeeps DEF ObeyInterrupt, relayVars, historyVars
  <2>2. CallsStay /\ ReportsKept
    BY <2>1 DEF CallsStay, ReportsKept
  <2>3. QED
    BY <2>1, <2>2, AnswersStay, AskedStays, ConsentStays DEF ConsentInv
<1>5. ASSUME NEW c \in Conn, ObeyUnhost(c)
      PROVE  ConsentInv'
  <2>1. /\ OrdersKept
        /\ UNCHANGED <<author, outcome, reports, answers, desk>>
    BY <1>5, ObeyKeeps DEF ObeyUnhost, relayVars, historyVars
  <2>2. ReportsKept
    BY <2>1 DEF ReportsKept
  <2>3. /\ CallsStay
        /\ \A a \in Ask : call'[a] = "decided" /\ verdict'[a] =>
                           call[a] = "decided" /\ verdict[a]
    BY <1>5 DEF ObeyUnhost, CallsStay, ApprovalsTypeOK
  <2>4. QED
    BY <2>1, <2>2, <2>3, AnswersStay, AskedStays, ConsentStays DEF ConsentInv
<1>6. ASSUME Drained \/ (\E p \in People, right \in Right : ChangeRight(p, right))
             \/ UNCHANGED approvalVars
      PROVE  ConsentInv'
  <2>1. UNCHANGED <<call, author, verdict, outcome, desk, orders, reports, answers>>
    BY <1>6 DEF Drained, ChangeRight, approvalVars, machineVars, relayVars, connVars,
                historyVars
  <2>2. QED
    BY <2>1 DEF ConsentInv, AnswersSound, AskedSound, ConsentSound, Consented
<1>7. CASE Released
  <2>1. UNCHANGED <<call, author, verdict, outcome, desk, orders, answers>>
    BY <1>7 DEF Released, relayVars, historyVars
  <2>2. CallsStay /\ OrdersKept
    BY <2>1 DEF CallsStay, OrdersKept
  <2>3. AskedSound'
    BY <1>7, <2>1, <2>2, ReportTyped, ReportedAsked DEF Released, ConsentInv
  <2>4. QED
    BY <2>1, <2>2, <2>3, AnswersStay, ConsentStays DEF ConsentInv
<1>8. CASE MachineRestarts
  <2>1. UNCHANGED <<author, verdict, outcome, desk, answers>>
    BY <1>8 DEF MachineRestarts, Fault, relayVars
  <2>2. OrdersKept /\ ReportsKept
    <3>1. CASE \E c \in Current : Lost(c)
      BY <3>1, LostKeeps DEF Current
    <3>2. CASE UNCHANGED <<socket, orders, reports>>
      BY <3>2 DEF OrdersKept, ReportsKept
    <3>3. QED
      BY <1>8, <3>1, <3>2 DEF MachineRestarts
  <2>3. CallsStay /\ \A a \in Ask : call'[a] = "decided" => call[a] = "decided"
    BY <1>8 DEF MachineRestarts, CallsStay, ApprovalsTypeOK
  <2>4. QED
    BY <2>1, <2>2, <2>3, AnswersStay, AskedStays, ConsentStays DEF ConsentInv
<1>9. ASSUME NEW p \in People, NEW a \in Ask, NEW allow \in BOOLEAN, DecideAsk(p, a, allow)
      PROVE  ConsentInv'
  BY <1>9, DecideSound
<1>10. ASSUME NEW kind \in {"interrupt", "unhost"}, OrderCut(kind)
       PROVE  ConsentInv'
  <2>1. UNCHANGED <<call, author, verdict, outcome, desk, reports, answers>>
    BY <1>10 DEF OrderCut, machineVars, relayVars
  <2>2. CallsStay /\ ReportsKept
    BY <2>1 DEF CallsStay, ReportsKept
  <2>3. ConsentSound'
    <3>1. ASSUME NEW c \in Conn, NEW i \in DOMAIN orders'[c],
                 orders'[c][i].kind = "answer", orders'[c][i].allow
          PROVE  \E w \in answers : w.ask = orders'[c][i].ask /\ w.allow
      <4>1. orders[c] \in Seq(Order)
        BY DEF ApprovalsTypeOK
      <4>2. orders'[c] = orders[c] \/ orders'[c] = Append(orders[c], [kind |-> kind])
        BY <1>10 DEF OrderCut, Sent, ApprovalsTypeOK
      <4>3. (i \in DOMAIN orders[c] /\ orders'[c][i] = orders[c][i])
              \/ orders'[c][i] = [kind |-> kind]
        <5>1. PICK s, item : s \in Seq(Order) /\ s = orders[c] /\ item = [kind |-> kind]
          BY <4>1
        <5>2. \A k \in DOMAIN Append(s, item) :
                (k \in DOMAIN s /\ Append(s, item)[k] = s[k]) \/ Append(s, item)[k] = item
          OBVIOUS
        <5>3. QED
          BY <4>2, <5>1, <5>2
      <4>4. i \in DOMAIN orders[c] /\ orders'[c][i] = orders[c][i]
        BY <3>1, <4>3
      <4>5. QED
        BY <3>1, <4>4 DEF ConsentInv, ConsentSound, Consented
    <3>2. QED
      BY <2>1, <3>1 DEF ConsentInv, ConsentSound, Consented
  <2>4. QED
    BY <2>1, <2>2, <2>3, AnswersStay, AskedStays DEF ConsentInv
<1>11. ASSUME NEW c \in Conn,
              \/ ReadRequested(c) \/ ReadResolved(c) \/ ReadHosted(c) \/ ReadReleased(c)
       PROVE  ConsentInv'
  BY <1>11, ReadSound
<1>12. ASSUME NEW c \in Conn, Notice(c)
       PROVE  ConsentInv'
  <2>1. /\ UNCHANGED <<call, author, verdict, outcome, orders, answers>>
        /\ desk' \subseteq desk
        /\ reports' = [reports EXCEPT ![c] = <<>>]
    BY <1>12 DEF Notice, Unhost, machineVars, historyVars
  <2>2. CallsStay /\ OrdersKept /\ ReportsKept
    BY <2>1 DEF CallsStay, OrdersKept, ReportsKept, ApprovalsTypeOK
  <2>3. QED
    BY <2>1, <2>2, AnswersStay, AskedStays, ConsentStays DEF ConsentInv
<1>13. CASE RelayRestarts
  <2>1. /\ UNCHANGED <<call, author, verdict, outcome, answers>>
        /\ desk' = {}
        /\ orders' = [c \in Conn |-> <<>>] /\ reports' = [c \in Conn |-> <<>>]
    BY <1>13 DEF RelayRestarts, Fault, machineVars
  <2>2. CallsStay /\ OrdersKept /\ ReportsKept
    BY <2>1 DEF CallsStay, OrdersKept, ReportsKept
  <2>3. QED
    BY <2>1, <2>2, AnswersStay, AskedStays, ConsentStays DEF ConsentInv
<1>14. CASE Connect
  <2>1. /\ UNCHANGED <<call, author, verdict, outcome, orders, answers>>
        /\ desk' \subseteq desk
    BY <1>14 DEF Connect, Unhost, machineVars, historyVars
  <2>2. CallsStay /\ OrdersKept
    BY <2>1 DEF CallsStay, OrdersKept
  <2>3. AskedSound'
    <3>1. ASSUME NEW c \in Conn, NEW i \in DOMAIN reports'[c],
                 reports'[c][i].kind = "requested"
          PROVE  i \in DOMAIN reports[c] /\ reports'[c][i] = reports[c][i]
      <4>1. reports'[c] = reports[c] \/ reports'[c] = <<>>
              \/ reports'[c] = <<[kind |-> "hosted"]>>
        BY <1>14 DEF Connect, ApprovalsTypeOK
      <4>2. QED
        BY <3>1, <4>1
    <3>2. QED
      BY <2>1, <3>1 DEF ConsentInv, AskedSound
  <2>4. QED
    BY <2>1, <2>2, <2>3, AnswersStay, ConsentStays DEF ConsentInv
<1>15. ASSUME NEW c \in Conn, CutConnection(c)
       PROVE  ConsentInv'
  <2>1. UNCHANGED <<call, author, verdict, outcome, desk, answers>>
    BY <1>15 DEF CutConnection, Fault, machineVars, relayVars
  <2>2. CallsStay /\ OrdersKept /\ ReportsKept
    BY <1>15, <2>1, LostKeeps DEF CallsStay, CutConnection
  <2>3. QED
    BY <2>1, <2>2, AnswersStay, AskedStays, ConsentStays DEF ConsentInv
<1>16. QED
  BY <1>1, <1>2, <1>3, <1>4, <1>5, <1>6, <1>7, <1>8, <1>9, <1>10, <1>11, <1>12, <1>13,
     <1>14, <1>15
     DEF ApprovalsNext, Machine, Relay

\* A tool runs only on the yes of somebody who could decide and was not the author
\* of the turn, or could widen the policy anyway: AllowedByRight holds in every
\* reachable state (agent/approval.py:7-14, server/ws.py:433).
THEOREM OnlyByConsent == ApprovalsSpec => []AllowedByRight
<1>1. ApprovalsInit => ConsentInv
  BY DEF ApprovalsInit, ConsentInv, AnswersSound, AskedSound, ConsentSound
<1>2. ApprovalsTypeOK /\ ConsentInv => AllowedByRight
  BY DEF AllowedByRight, ConsentInv, AnswersSound, ConsentSound, Consented
<1>3. QED
  BY <1>1, <1>2, ApprovalsTypeCorrect, ConsentStep, PTL DEF ApprovalsSpec

-----------------------------------------------------------------------------
(* The desk. *)

\* The machine still has to answer the tool.
Going(a) == call[a] \in {"waiting", "decided"}

\* Nothing has told that the call is over.
Stays(a) == Going(a) \/ call[a] = "cut"

\* Connections are opened one after the other, only the last is open, and the machine
\* asks on those that were opened.
SocketsInv ==
  /\ \A c \in Conn : /\ socket[c] = "unused" <=> c > opened
                     /\ socket[c] = "open" => c = opened
                     /\ socket[c] \in {"unused", "closed"} => reports[c] = <<>>
  /\ \A a \in Ask : askedOn[a] <= opened

\* The room belongs to connections the relay believes alive; unless a replaced one
\* took it back, to the last at most.
LinksInv ==
  /\ \A c \in linked : socket[c] \in {"open", "lost"}
  /\ agent # None => agent \in linked
  /\ ~ tookBack => /\ linked \subseteq {opened} \cap {agent}
                   /\ agent = None => desk = {}

\* What is on its way to the relay is true of the machine.
ReportsInv ==
  \A c \in Conn : \A i \in DOMAIN reports[c] :
    /\ reports[c][i].kind = "hosted" => i = 1 /\ c \notin linked
    /\ reports[c][i].kind = "resolved" => call[reports[c][i].ask] = "over"
    /\ reports[c][i].kind = "released" => ~ hosting /\ \A a \in Ask : ~ Going(a)

\* The machine announced its room before anything else.
AnnouncedInv ==
  /\ \A a \in Ask : call[a] = "waiting" => hosting
  /\ \A c \in Conn : socket[c] = "open" /\ hosting =>
       c \in linked \/ (1 \in DOMAIN reports[c] /\ reports[c][1].kind = "hosted")

\* The end of the call is on its way, behind the first i reports.
ResolvedAfter(c, a, i) ==
  \E j \in DOMAIN reports[c] : j > i /\ reports[c][j] = [kind |-> "resolved", ask |-> a]

\* On the connection that lasts, a request that is over is followed by its end ...
FollowedInv ==
  \A c \in Conn, a \in Ask : socket[c] = "open" =>
    \A i \in DOMAIN reports[c] : reports[c][i] = [kind |-> "requested", ask |-> a] =>
      Stays(a) \/ ResolvedAfter(c, a, i)

\* ... and so is what the desk already shows.
EndComesInv ==
  ~ tookBack => \A a \in desk : socket[agent] = "open" => Stays(a) \/ ResolvedAfter(agent, a, 0)

\* The request is on its way.
RequestComes(c, a) ==
  \E i \in DOMAIN reports[c] : reports[c][i] = [kind |-> "requested", ask |-> a]

\* What nobody answered is on its way to the desk or on it, unless the connection it
\* came through is no longer the agent's.
ShownInv ==
  \A a \in Ask, c \in Conn :
    (call[a] = "waiting" /\ askedOn[a] = c /\ socket[c] = "open"
       /\ \A w \in answers : w.ask # a)
      => RequestComes(c, a) \/ (c \in linked /\ (agent = c => a \in desk))

\* A room that is being let go is no longer hosted.
LetGoInv == reader = "closing" => ~ hosting

DeskInv == /\ SocketsInv /\ LinksInv /\ ReportsInv /\ AnnouncedInv
           /\ FollowedInv /\ EndComesInv /\ ShownInv

\* What a report is about.
LEMMA ReportAt ==
  ASSUME ApprovalsTypeOK, NEW c \in Conn, NEW i \in DOMAIN reports[c]
  PROVE  reports[c][i].kind \in {"requested", "resolved"} => reports[c][i].ask \in Ask
<1>1. reports[c][i] \in Report
  BY DEF ApprovalsTypeOK
<1>2. QED
  BY <1>1 DEF Report

\* A report is put behind those the open connection carries.
LEMMA ReportedGrows ==
  ASSUME ApprovalsTypeOK, NEW report \in Report, Reported(report), NEW c \in Conn
  PROVE  /\ \A i \in DOMAIN reports[c] : /\ i \in DOMAIN reports'[c]
                                        /\ reports'[c][i] = reports[c][i]
         /\ \A i \in DOMAIN reports'[c] :
              \/ i \in DOMAIN reports[c] /\ reports'[c][i] = reports[c][i]
              \/ socket[c] = "open" /\ i > 1 /\ reports'[c][i] = report
              \/ socket[c] = "open" /\ reports[c] = <<>> /\ reports'[c][i] = report
         /\ socket[c] = "open" => \E i \in DOMAIN reports'[c] :
                                   /\ i \in Nat \ {0}
                                   /\ reports'[c][i] = report
                                   /\ \A j \in DOMAIN reports[c] : j < i
         /\ socket[c] # "open" => reports'[c] = reports[c]
<1>1. reports[c] \in Seq(Report)
  BY DEF ApprovalsTypeOK
<1>2. CASE socket[c] # "open"
  <2>1. reports'[c] = reports[c]
    BY <1>2 DEF Reported, Current
  <2>2. QED
    BY <1>2, <2>1
<1>3. CASE socket[c] = "open"
  <2>1. reports'[c] = Append(reports[c], report)
    BY <1>3 DEF Reported, Current
  <2>2. /\ DOMAIN reports'[c] = 1..(Len(reports[c]) + 1)
        /\ DOMAIN reports[c] = 1..Len(reports[c])
        /\ Len(reports[c]) \in Nat
        /\ reports'[c][Len(reports[c]) + 1] = report
        /\ \A i \in 1..Len(reports[c]) : reports'[c][i] = reports[c][i]
    BY <1>1, <2>1
  <2>3. Len(reports[c]) = 0 => reports[c] = <<>>
    BY <1>1
  <2>4. QED
    BY <1>3, <2>2, <2>3
<1>4. QED
  BY <1>2, <1>3

\* Reading takes the first report.
LEMMA ReadShrinks ==
  ASSUME ApprovalsTypeOK, NEW c \in Conn, NEW kind, Read(c, kind)
  PROVE  /\ reports[c] # <<>> /\ 1 \in DOMAIN reports[c]
         /\ Head(reports[c]) = reports[c][1] /\ reports[c][1].kind = kind
         /\ \A i \in DOMAIN reports'[c] : /\ i \in Nat \ {0} /\ i + 1 \in DOMAIN reports[c]
                                         /\ reports'[c][i] = reports[c][i + 1]
         /\ \A i \in DOMAIN reports[c] : \/ i = 1
                                        \/ /\ i \in Nat /\ i > 1 /\ i - 1 \in DOMAIN reports'[c]
                                           /\ reports'[c][i - 1] = reports[c][i]
         /\ \A d \in Conn \ {c} : reports'[d] = reports[d]
<1>1. /\ reports[c] \in Seq(Report) /\ reports[c] # <<>>
      /\ reports' = [reports EXCEPT ![c] = Tail(reports[c])]
      /\ Head(reports[c]).kind = kind
  BY DEF Read, ApprovalsTypeOK
<1>2. reports'[c] = Tail(reports[c]) /\ \A d \in Conn \ {c} : reports'[d] = reports[d]
  BY <1>1 DEF ApprovalsTypeOK
<1>3. /\ DOMAIN reports[c] = 1..Len(reports[c]) /\ Len(reports[c]) \in Nat \ {0}
      /\ DOMAIN Tail(reports[c]) = 1..(Len(reports[c]) - 1)
      /\ \A i \in 1..(Len(reports[c]) - 1) : Tail(reports[c])[i] = reports[c][i + 1]
      /\ Head(reports[c]) = reports[c][1]
  BY <1>1
<1>4. \A i \in DOMAIN reports'[c] : /\ i \in Nat \ {0} /\ i + 1 \in DOMAIN reports[c]
                                  /\ reports'[c][i] = reports[c][i + 1]
  BY <1>2, <1>3
<1>5. ASSUME NEW i \in DOMAIN reports[c], i # 1
      PROVE  /\ i \in Nat /\ i > 1 /\ i - 1 \in DOMAIN reports'[c]
             /\ reports'[c][i - 1] = reports[c][i]
  <2>1. i \in Nat /\ i > 1 /\ i - 1 \in 1..(Len(reports[c]) - 1) /\ (i - 1) + 1 = i
    BY <1>3, <1>5
  <2>2. QED
    BY <1>2, <1>3, <2>1
<1>6. 1 \in DOMAIN reports[c] /\ reports[c][1].kind = kind
  BY <1>1, <1>3
<1>7. QED
  BY <1>1, <1>2, <1>3, <1>4, <1>5, <1>6

\* A report of what the machine just did keeps the invariant, when it announces the
\* end of every call that ends, and nothing untrue.
LEMMA ReportedStep ==
  ASSUME ApprovalsTypeOK, DeskInv, NEW report \in Report, Reported(report),
         UNCHANGED <<relayVars, opened, socket, answers, tookBack, hosting>>,
         \A a \in Ask : askedOn'[a] <= opened,
         \A a \in Ask : call[a] = "over" => call'[a] = "over",
         \A a \in Ask : Stays(a) =>
            Stays(a)' \/ report = [kind |-> "resolved", ask |-> a],
         \A a \in Ask : Going(a)' => Going(a) \/ hosting,
         \A a \in Ask : call'[a] = "waiting" =>
            \/ hosting /\ report = [kind |-> "requested", ask |-> a]
            \/ call[a] = "waiting" /\ askedOn'[a] = askedOn[a],
         report.kind # "hosted",
         report.kind = "requested" => Stays(report.ask)',
         report.kind = "resolved" => call'[report.ask] = "over",
         report.kind = "released" => ~ hosting /\ \A a \in Ask : ~ Going(a)'
  PROVE  DeskInv'
<1>1. UNCHANGED <<desk, agent, linked>>
  BY DEF relayVars
<1>2. SocketsInv'
  <2>1. \A c \in Conn : socket[c] # "open" => reports'[c] = reports[c]
    BY ReportedGrows
  <2>2. \A c \in Conn : /\ socket[c] = "unused" <=> c > opened
                        /\ socket[c] = "open" => c = opened
                        /\ socket[c] \in {"unused", "closed"} => reports[c] = <<>>
    BY DEF DeskInv, SocketsInv
  <2>3. QED
    BY <2>1, <2>2 DEF SocketsInv
<1>3. LinksInv'
  BY <1>1 DEF DeskInv, LinksInv
<1>4. ReportsInv'
  <2> SUFFICES ASSUME NEW c \in Conn, NEW i \in DOMAIN reports'[c]
               PROVE  /\ reports'[c][i].kind = "hosted" => i = 1 /\ c \notin linked
                      /\ reports'[c][i].kind = "resolved" => call'[reports'[c][i].ask] = "over"
                      /\ reports'[c][i].kind = "released" =>
                           ~ hosting /\ \A a \in Ask : ~ Going(a)'
    BY <1>1 DEF ReportsInv
  <2>1. CASE i \in DOMAIN reports[c] /\ reports'[c][i] = reports[c][i]
    <3>1. /\ reports[c][i].kind = "hosted" => i = 1 /\ c \notin linked
          /\ reports[c][i].kind = "resolved" => call[reports[c][i].ask] = "over"
          /\ reports[c][i].kind = "released" => ~ hosting /\ \A a \in Ask : ~ Going(a)
      BY <2>1 DEF DeskInv, ReportsInv
    <3>2. reports[c][i].kind = "resolved" => reports[c][i].ask \in Ask
      BY <2>1 DEF ApprovalsTypeOK, Report
    <3>3. QED
      BY <2>1, <3>1, <3>2
  <2>2. CASE reports'[c][i] = report
    BY <2>2
  <2>3. QED
    BY <2>1, <2>2, ReportedGrows
<1>5. AnnouncedInv'
  <2>1. \A a \in Ask : call'[a] = "waiting" => hosting
    BY DEF DeskInv, AnnouncedInv
  <2>2. \A c \in Conn : 1 \in DOMAIN reports[c] =>
          1 \in DOMAIN reports'[c] /\ reports'[c][1] = reports[c][1]
    BY ReportedGrows
  <2>3. QED
    BY <1>1, <2>1, <2>2 DEF DeskInv, AnnouncedInv
<1>6. FollowedInv' /\ EndComesInv'
  <2>1. ASSUME NEW c \in Conn, socket[c] = "open", NEW a \in Ask, NEW i \in Nat,
               i = 0 \/ i \in DOMAIN reports[c],
               Stays(a) \/ ResolvedAfter(c, a, i)
        PROVE  Stays(a)' \/ \E j \in DOMAIN reports'[c] :
                              j > i /\ reports'[c][j] = [kind |-> "resolved", ask |-> a]
    <3>1. CASE ResolvedAfter(c, a, i)
      <4>1. PICK j \in DOMAIN reports[c] : j > i /\ reports[c][j] = [kind |-> "resolved", ask |-> a]
        BY <3>1 DEF ResolvedAfter
      <4>2. j \in DOMAIN reports'[c] /\ reports'[c][j] = reports[c][j]
        BY ReportedGrows
      <4>3. QED
        BY <4>1, <4>2
    <3>2. CASE Stays(a) /\ report = [kind |-> "resolved", ask |-> a]
      <4>1. PICK j \in DOMAIN reports'[c] : /\ j \in Nat \ {0} /\ reports'[c][j] = report
                                           /\ \A k \in DOMAIN reports[c] : k < j
        BY <2>1, ReportedGrows
      <4>2. QED
        BY <2>1, <3>2, <4>1
    <3>3. QED
      BY <2>1, <3>1, <3>2
  <2>2. ASSUME NEW c \in Conn, NEW a \in Ask, socket[c] = "open", NEW i \in DOMAIN reports'[c],
               reports'[c][i] = [kind |-> "requested", ask |-> a]
        PROVE  Stays(a)' \/ ResolvedAfter(c, a, i)'
    <3>1. CASE i \in DOMAIN reports[c] /\ reports'[c][i] = reports[c][i]
      <4>1. Stays(a) \/ ResolvedAfter(c, a, i)
        BY <2>2, <3>1 DEF DeskInv, FollowedInv
      <4>2. i \in Nat
        BY <3>1 DEF ApprovalsTypeOK
      <4>3. QED
        BY <2>1, <2>2, <3>1, <4>1, <4>2 DEF ResolvedAfter
    <3>2. CASE reports'[c][i] = report
      BY <2>2, <3>2
    <3>3. QED
      BY <3>1, <3>2, ReportedGrows
  <2>3. ASSUME ~ tookBack, NEW a \in desk, socket[agent] = "open"
        PROVE  Stays(a)' \/ ResolvedAfter(agent, a, 0)'
    <3>1. a \in Ask /\ agent \in Conn
      BY <2>3 DEF ApprovalsTypeOK, DeskInv, LinksInv
    <3>2. Stays(a) \/ ResolvedAfter(agent, a, 0)
      BY <2>3 DEF DeskInv, EndComesInv
    <3>3. QED
      BY <1>1, <2>1, <2>3, <3>1, <3>2 DEF ResolvedAfter
  <2>4. QED
    BY <1>1, <2>2, <2>3 DEF FollowedInv, EndComesInv
<1>7. ShownInv'
  <2> SUFFICES ASSUME NEW a \in Ask, NEW c \in Conn, call'[a] = "waiting", askedOn'[a] = c,
                      socket[c] = "open", \A w \in answers : w.ask # a
               PROVE  RequestComes(c, a)' \/ (c \in linked /\ (agent = c => a \in desk))
    BY <1>1 DEF ShownInv
  <2>1. CASE report = [kind |-> "requested", ask |-> a]
    BY <2>1, ReportedGrows DEF RequestComes
  <2>2. CASE call[a] = "waiting" /\ askedOn'[a] = askedOn[a]
    <3>1. RequestComes(c, a) \/ (c \in linked /\ (agent = c => a \in desk))
      BY <2>2 DEF DeskInv, ShownInv
    <3>2. RequestComes(c, a) => RequestComes(c, a)'
      BY ReportedGrows DEF RequestComes
    <3>3. QED
      BY <3>1, <3>2
  <2>3. QED
    BY <2>1, <2>2
<1>8. QED
  BY <1>2, <1>3, <1>4, <1>5, <1>6, <1>7 DEF DeskInv

\* The relay reads a report: what the other connections carry stays true, and what
\* this one carries behind the report.
LEMMA ReadStep ==
  ASSUME ApprovalsTypeOK, DeskInv, NEW c \in Conn, NEW kind, Read(c, kind),
         linked' \subseteq linked \cup {c},
         hosting => linked \subseteq linked' /\ (kind = "hosted" => c \in linked')
  PROVE  /\ SocketsInv' /\ ReportsInv' /\ AnnouncedInv' /\ FollowedInv'
         /\ \A d \in Conn, a \in Ask : ResolvedAfter(d, a, 0) =>
              \/ ResolvedAfter(d, a, 0)'
              \/ d = c /\ Head(reports[c]) = [kind |-> "resolved", ask |-> a]
         /\ \A d \in Conn, a \in Ask : RequestComes(d, a) =>
              \/ RequestComes(d, a)'
              \/ d = c /\ Head(reports[c]) = [kind |-> "requested", ask |-> a]
<1>1. UNCHANGED <<call, hosting, opened, socket, askedOn>> /\ socket[c] \in {"open", "lost"}
  BY DEF Read, machineVars
<1>2. SocketsInv'
  BY <1>1, ReadShrinks DEF DeskInv, SocketsInv
<1>3. ReportsInv'
  <2> SUFFICES ASSUME NEW d \in Conn, NEW i \in DOMAIN reports'[d]
               PROVE  /\ reports'[d][i].kind = "hosted" => i = 1 /\ d \notin linked'
                      /\ reports'[d][i].kind = "resolved" => call[reports'[d][i].ask] = "over"
                      /\ reports'[d][i].kind = "released" =>
                           ~ hosting /\ \A a \in Ask : ~ Going(a)
    BY <1>1 DEF ReportsInv, Going, Stays
  <2>1. CASE d = c
    <3>1. /\ i \in Nat \ {0} /\ i + 1 \in DOMAIN reports[c]
          /\ reports'[d][i] = reports[c][i + 1]
      BY <2>1, ReadShrinks
    <3>2. i + 1 # 1
      BY <3>1
    <3>3. QED
      BY <2>1, <3>1, <3>2 DEF DeskInv, ReportsInv
  <2>2. CASE d # c
    BY <2>2, ReadShrinks DEF DeskInv, ReportsInv
  <2>3. QED
    BY <2>1, <2>2
<1>4. AnnouncedInv'
  <2> SUFFICES ASSUME NEW d \in Conn, socket[d] = "open", hosting
               PROVE  d \in linked' \/ (1 \in DOMAIN reports'[d] /\ reports'[d][1].kind = "hosted")
    BY <1>1 DEF DeskInv, AnnouncedInv
  <2>1. d \in linked \/ (1 \in DOMAIN reports[d] /\ reports[d][1].kind = "hosted")
    BY DEF DeskInv, AnnouncedInv
  <2>2. QED
    BY <2>1, ReadShrinks
<1>5. ASSUME NEW d \in Conn, NEW a \in Ask, ResolvedAfter(d, a, 0)
      PROVE  \/ ResolvedAfter(d, a, 0)'
             \/ d = c /\ Head(reports[c]) = [kind |-> "resolved", ask |-> a]
  <2>1. PICK j \in DOMAIN reports[d] : j > 0 /\ reports[d][j] = [kind |-> "resolved", ask |-> a]
    BY <1>5 DEF ResolvedAfter
  <2>2. CASE d = c /\ j # 1
    <3>1. /\ j \in Nat /\ j > 1 /\ j - 1 \in DOMAIN reports'[c]
          /\ reports'[c][j - 1] = reports[c][j]
      BY <2>2, ReadShrinks
    <3>2. j - 1 > 0
      BY <3>1
    <3>3. QED
      BY <2>1, <2>2, <3>1, <3>2 DEF ResolvedAfter
  <2>3. CASE d = c /\ j = 1
    BY <2>1, <2>3, ReadShrinks
  <2>4. CASE d # c
    BY <2>1, <2>4, ReadShrinks DEF ResolvedAfter
  <2>5. QED
    BY <2>2, <2>3, <2>4
<1>6. ASSUME NEW d \in Conn, NEW a \in Ask, RequestComes(d, a)
      PROVE  \/ RequestComes(d, a)'
             \/ d = c /\ Head(reports[c]) = [kind |-> "requested", ask |-> a]
  <2>1. PICK j \in DOMAIN reports[d] : reports[d][j] = [kind |-> "requested", ask |-> a]
    BY <1>6 DEF RequestComes
  <2>2. CASE d = c /\ j # 1
    <3>1. j - 1 \in DOMAIN reports'[c] /\ reports'[c][j - 1] = reports[c][j]
      BY <2>2, ReadShrinks
    <3>2. QED
      BY <2>1, <2>2, <3>1 DEF RequestComes
  <2>3. CASE d = c /\ j = 1
    BY <2>1, <2>3, ReadShrinks
  <2>4. CASE d # c
    BY <2>1, <2>4, ReadShrinks DEF RequestComes
  <2>5. QED
    BY <2>2, <2>3, <2>4
<1>7. FollowedInv'
  <2> SUFFICES ASSUME NEW d \in Conn, NEW a \in Ask, socket[d] = "open",
                      NEW i \in DOMAIN reports'[d],
                      reports'[d][i] = [kind |-> "requested", ask |-> a]
               PROVE  Stays(a) \/ ResolvedAfter(d, a, i)'
    BY <1>1 DEF FollowedInv, Going, Stays
  <2>1. CASE d = c
    <3>1. /\ i \in Nat \ {0} /\ i + 1 \in DOMAIN reports[c]
          /\ reports[c][i + 1] = [kind |-> "requested", ask |-> a]
      BY <2>1, ReadShrinks
    <3>2. CASE ResolvedAfter(c, a, i + 1)
      <4>1. PICK j \in DOMAIN reports[c] :
                   j > i + 1 /\ reports[c][j] = [kind |-> "resolved", ask |-> a]
        BY <3>2 DEF ResolvedAfter
      <4>2. j # 1 /\ j \in Nat
        <5>1. j \in Nat
          BY DEF ApprovalsTypeOK
        <5>2. QED
          BY <3>1, <4>1, <5>1
      <4>3. j - 1 \in DOMAIN reports'[c] /\ reports'[c][j - 1] = reports[c][j]
        BY <4>2, ReadShrinks
      <4>4. j - 1 > i
        BY <3>1, <4>1, <4>2
      <4>5. QED
        BY <2>1, <4>1, <4>3, <4>4 DEF ResolvedAfter
    <3>3. QED
      BY <2>1, <3>1, <3>2 DEF DeskInv, FollowedInv
  <2>2. CASE d # c
    <3>1. reports'[d] = reports[d]
      BY <2>2, ReadShrinks
    <3>2. QED
      BY <3>1 DEF DeskInv, FollowedInv, ResolvedAfter
  <2>3. QED
    BY <2>1, <2>2
<1>8. QED
  BY <1>2, <1>3, <1>4, <1>5, <1>6, <1>7

\* A request is put on the desk, or taken off it.
LEMMA ReadRequestDesk ==
  ASSUME ApprovalsTypeOK, DeskInv, NEW c \in Conn, ReadRequested(c) \/ ReadResolved(c)
  PROVE  DeskInv'
<1>1. /\ UNCHANGED <<call, opened, socket, answers, askedOn, agent, linked, tookBack>>
      /\ hosting' = hosting
  BY DEF ReadRequested, ReadResolved, Read, machineVars
<1>2. PICK kind \in {"requested", "resolved"} : Read(c, kind)
  BY DEF ReadRequested, ReadResolved
<1>3. /\ SocketsInv' /\ ReportsInv' /\ AnnouncedInv' /\ FollowedInv'
      /\ \A d \in Conn, a \in Ask : ResolvedAfter(d, a, 0) =>
           \/ ResolvedAfter(d, a, 0)'
           \/ d = c /\ Head(reports[c]) = [kind |-> "resolved", ask |-> a]
      /\ \A d \in Conn, a \in Ask : RequestComes(d, a) =>
           \/ RequestComes(d, a)'
           \/ d = c /\ Head(reports[c]) = [kind |-> "requested", ask |-> a]
  BY <1>1, <1>2, ReadStep
<1>4. /\ 1 \in DOMAIN reports[c] /\ Head(reports[c]) = reports[c][1]
      /\ reports[c][1].kind = kind /\ reports[c][1] \in Report
  BY <1>2, ReadShrinks DEF ApprovalsTypeOK
<1>5. PICK b \in Ask : Head(reports[c]) = [kind |-> kind, ask |-> b]
  BY <1>4 DEF Report
<1>6. \/ /\ kind = "requested"
         /\ desk' = IF c \in linked THEN desk \cup {b} ELSE desk
      \/ /\ kind = "resolved" /\ call[b] = "over"
         /\ desk' = IF c \in linked THEN desk \ {b} ELSE desk
  <2>1. Head(reports[c]).kind = kind /\ Head(reports[c]).ask = b
    BY <1>5
  <2>2. CASE ReadRequested(c)
    BY <2>1, <2>2 DEF ReadRequested, Read
  <2>3. CASE ReadResolved(c)
    <3>1. kind = "resolved" /\ desk' = IF c \in linked THEN desk \ {b} ELSE desk
      BY <2>1, <2>3 DEF ReadResolved, Read
    <3>2. QED
      BY <1>4, <2>1, <3>1 DEF DeskInv, ReportsInv
  <2>4. QED
    BY <2>2, <2>3
<1>7. LinksInv'
  BY <1>1, <1>6 DEF DeskInv, LinksInv
<1>8. EndComesInv'
  <2> SUFFICES ASSUME ~ tookBack, NEW a \in desk', socket[agent] = "open"
               PROVE  Stays(a) \/ ResolvedAfter(agent, a, 0)'
    BY <1>1 DEF EndComesInv, Going, Stays
  <2>1. a \in Ask /\ agent \in Conn /\ agent \in linked /\ (c \in linked => c = agent)
    <3>1. agent # None
      BY <1>6 DEF DeskInv, LinksInv
    <3>2. QED
      BY <1>6, <3>1 DEF DeskInv, LinksInv, ApprovalsTypeOK
  <2>2. CASE a \in desk
    <3>1. Stays(a) \/ ResolvedAfter(agent, a, 0)
      BY <2>2 DEF DeskInv, EndComesInv
    <3>2. ASSUME agent = c, Head(reports[c]) = [kind |-> "resolved", ask |-> a]
          PROVE  FALSE
      <4>1. b = a /\ kind = "resolved"
        BY <1>5, <3>2
      <4>2. c \in linked
        BY <2>1, <3>2
      <4>3. QED
        BY <1>6, <4>1, <4>2
    <3>3. QED
      BY <1>1, <1>3, <2>1, <3>1, <3>2
  <2>3. CASE a \notin desk
    <3>1. a = b /\ kind = "requested" /\ c = agent
      BY <1>6, <2>1, <2>3
    <3>2. Stays(a) \/ ResolvedAfter(c, a, 1)
      <4>1. socket[c] = "open" /\ reports[c][1] = [kind |-> "requested", ask |-> a]
        BY <1>4, <1>5, <3>1
      <4>2. QED
        BY <1>4, <2>1, <4>1 DEF DeskInv, FollowedInv
    <3>3. ASSUME ResolvedAfter(c, a, 1)
          PROVE  ResolvedAfter(c, a, 0)'
      <4>1. PICK j \in DOMAIN reports[c] :
                   j > 1 /\ reports[c][j] = [kind |-> "resolved", ask |-> a]
        BY <3>3 DEF ResolvedAfter
      <4>2. j # 1
        BY <4>1
      <4>3. /\ j \in Nat /\ j > 1 /\ j - 1 \in DOMAIN reports'[c]
            /\ reports'[c][j - 1] = reports[c][j]
        BY <1>2, <4>2, ReadShrinks
      <4>4. j - 1 > 0
        BY <4>3
      <4>5. QED
        BY <4>1, <4>3, <4>4 DEF ResolvedAfter
    <3>4. QED
      BY <1>1, <3>1, <3>2, <3>3
  <2>4. QED
    BY <2>2, <2>3
<1>9. ShownInv'
  <2> SUFFICES ASSUME NEW a \in Ask, NEW d \in Conn, call[a] = "waiting", askedOn[a] = d,
                      socket[d] = "open", \A w \in answers : w.ask # a
               PROVE  RequestComes(d, a)' \/ (d \in linked /\ (agent = d => a \in desk'))
    BY <1>1 DEF ShownInv
  <2>1. RequestComes(d, a) \/ (d \in linked /\ (agent = d => a \in desk))
    BY DEF DeskInv, ShownInv
  <2>2. a \in desk => a \in desk'
    BY <1>6
  <2>3. CASE d = c /\ Head(reports[c]) = [kind |-> "requested", ask |-> a]
    <3>1. a = b /\ kind = "requested"
      BY <1>5, <2>3
    <3>2. c \in linked
      BY <1>4, <2>3, <3>1 DEF DeskInv, AnnouncedInv
    <3>3. QED
      BY <1>6, <2>3, <3>1, <3>2
  <2>4. QED
    BY <1>3, <2>1, <2>2, <2>3
<1>10. QED
  BY <1>3, <1>7, <1>8, <1>9 DEF DeskInv

\* The room comes to a connection, or the connection lets it go.
LEMMA ReadHostedDesk ==
  ASSUME ApprovalsTypeOK, DeskInv, NEW c \in Conn, ReadHosted(c)
  PROVE  DeskInv'
<1>1. /\ UNCHANGED <<call, opened, socket, answers, askedOn, desk, hosting>>
      /\ linked' = linked \cup {c} /\ agent' = c
      /\ tookBack' = (tookBack \/ c # opened)
      /\ Read(c, "hosted")
  BY DEF ReadHosted, Read, machineVars
<1>2. /\ SocketsInv' /\ ReportsInv' /\ AnnouncedInv' /\ FollowedInv'
      /\ \A d \in Conn, a \in Ask : RequestComes(d, a) =>
           \/ RequestComes(d, a)'
           \/ d = c /\ Head(reports[c]) = [kind |-> "requested", ask |-> a]
  BY <1>1, ReadStep
<1>3. c \notin linked /\ Head(reports[c]).kind = "hosted"
  BY <1>1, ReadShrinks DEF DeskInv, ReportsInv
<1>4. ~ tookBack' => desk = {} /\ linked = {}
  <2>1. ASSUME ~ tookBack'
        PROVE  agent = None /\ linked = {}
    <3>1. c = opened /\ ~ tookBack
      BY <1>1, <2>1
    <3>2. linked = {}
      BY <1>3, <3>1 DEF DeskInv, LinksInv
    <3>3. QED
      BY <3>2 DEF DeskInv, LinksInv
  <2>2. QED
    BY <1>1, <2>1 DEF DeskInv, LinksInv
<1>5. LinksInv'
  <2>1. \A d \in linked' : socket[d] \in {"open", "lost"}
    BY <1>1 DEF DeskInv, LinksInv, Read
  <2>2. ~ tookBack' => linked' \subseteq {opened} \cap {c} /\ desk = {}
    BY <1>1, <1>4
  <2>3. QED
    BY <1>1, <2>1, <2>2 DEF LinksInv
<1>6. EndComesInv'
  BY <1>1, <1>4 DEF EndComesInv
<1>7. ShownInv'
  <2> SUFFICES ASSUME NEW a \in Ask, NEW d \in Conn, call[a] = "waiting", askedOn[a] = d,
                      socket[d] = "open", \A w \in answers : w.ask # a
               PROVE  RequestComes(d, a)' \/ (d \in linked' /\ (c = d => a \in desk))
    BY <1>1 DEF ShownInv
  <2>1. RequestComes(d, a) \/ (d \in linked /\ (agent = d => a \in desk))
    BY DEF DeskInv, ShownInv
  <2>2. Head(reports[c]) # [kind |-> "requested", ask |-> a]
    BY <1>3
  <2>3. QED
    BY <1>1, <1>2, <1>3, <2>1, <2>2
<1>8. QED
  BY <1>2, <1>5, <1>6, <1>7 DEF DeskInv

\* Whoever lets go of the room leaves a desk that is empty if it was the agent.
LEMMA UnhostDesk ==
  ASSUME ApprovalsTypeOK, DeskInv, NEW c, linked' = linked \ {c},
         IF c \in linked THEN Unhost(c) ELSE UNCHANGED <<desk, agent>>
  PROVE  /\ agent' = IF agent = c THEN None ELSE agent
         /\ desk' \subseteq desk
         /\ agent' # None => agent' \in linked' /\ agent' = agent /\ desk' = desk
         /\ ~ tookBack => (agent' = None => desk' = {}) /\ linked' \subseteq {agent'}
<1>1. agent # None => agent \in linked
  BY DEF DeskInv, LinksInv
<1>2. c = None => c \notin linked
  BY DEF ApprovalsTypeOK, Conn, None
<1>3. QED
  BY <1>1, <1>2 DEF DeskInv, LinksInv, Unhost

LEMMA ReadReleasedDesk ==
  ASSUME ApprovalsTypeOK, DeskInv, NEW c \in Conn, ReadReleased(c)
  PROVE  DeskInv'
<1>1. /\ UNCHANGED <<call, opened, socket, answers, askedOn, hosting, tookBack>>
      /\ linked' = linked \ {c}
      /\ IF c \in linked THEN Unhost(c) ELSE UNCHANGED <<desk, agent>>
      /\ Read(c, "released")
  BY DEF ReadReleased, Read, machineVars
<1>2. ~ hosting /\ \A a \in Ask : ~ Going(a)
  BY <1>1, ReadShrinks DEF DeskInv, ReportsInv
<1>3. /\ SocketsInv' /\ ReportsInv' /\ AnnouncedInv' /\ FollowedInv'
      /\ \A d \in Conn, a \in Ask : ResolvedAfter(d, a, 0) =>
           \/ ResolvedAfter(d, a, 0)'
           \/ d = c /\ Head(reports[c]) = [kind |-> "resolved", ask |-> a]
  BY <1>1, <1>2, ReadStep
<1>4. /\ agent' = IF agent = c THEN None ELSE agent
      /\ desk' \subseteq desk
      /\ agent' # None => agent' \in linked' /\ agent' = agent /\ desk' = desk
      /\ ~ tookBack => (agent' = None => desk' = {}) /\ linked' \subseteq {agent'}
  BY <1>1, UnhostDesk
<1>5. LinksInv'
  BY <1>1, <1>4 DEF DeskInv, LinksInv
<1>6. EndComesInv'
  <2> SUFFICES ASSUME ~ tookBack, NEW a \in desk', socket[agent'] = "open"
               PROVE  Stays(a) \/ ResolvedAfter(agent, a, 0)'
    BY <1>1 DEF EndComesInv, Going, Stays
  <2>1. agent' = agent /\ agent \in Conn /\ a \in Ask /\ a \in desk
    BY <1>4 DEF ApprovalsTypeOK
  <2>2. Stays(a) \/ ResolvedAfter(agent, a, 0)
    BY <2>1 DEF DeskInv, EndComesInv
  <2>3. Head(reports[c]) # [kind |-> "resolved", ask |-> a]
    <3>1. Head(reports[c]).kind = "released"
      BY <1>1, ReadShrinks
    <3>2. QED
      BY <3>1
  <2>4. QED
    BY <1>3, <2>1, <2>2, <2>3
<1>7. ShownInv'
  BY <1>1, <1>2 DEF ShownInv, Going, Stays
<1>8. QED
  BY <1>3, <1>5, <1>6, <1>7 DEF DeskInv

\* The relay finds a connection lost.
LEMMA NoticeDesk ==
  ASSUME ApprovalsTypeOK, DeskInv, NEW c \in Conn, Notice(c)
  PROVE  DeskInv'
<1>1. /\ UNCHANGED <<call, opened, answers, askedOn, hosting, tookBack>>
      /\ linked' = linked \ {c}
      /\ IF c \in linked THEN Unhost(c) ELSE UNCHANGED <<desk, agent>>
      /\ socket[c] = "lost" /\ socket'[c] = "closed" /\ reports'[c] = <<>>
      /\ \A d \in Conn \ {c} : socket'[d] = socket[d] /\ reports'[d] = reports[d]
  BY DEF Notice, machineVars, historyVars, ApprovalsTypeOK
<1>2. /\ desk' \subseteq desk
      /\ agent' # None => agent' \in linked' /\ agent' = agent /\ desk' = desk
      /\ ~ tookBack => (agent' = None => desk' = {}) /\ linked' \subseteq {agent'}
  BY <1>1, UnhostDesk
<1>3. SocketsInv'
  BY <1>1 DEF DeskInv, SocketsInv
<1>4. LinksInv'
  <2>1. \A d \in linked' : d \in Conn \ {c} /\ d \in linked
    BY <1>1 DEF ApprovalsTypeOK
  <2>2. QED
    BY <1>1, <1>2, <2>1 DEF DeskInv, LinksInv
<1>5. ReportsInv'
  BY <1>1 DEF DeskInv, ReportsInv, Going, Stays
<1>6. AnnouncedInv'
  BY <1>1 DEF DeskInv, AnnouncedInv
<1>7. FollowedInv'
  BY <1>1 DEF DeskInv, FollowedInv, ResolvedAfter, Going, Stays
<1>8. EndComesInv'
  <2> SUFFICES ASSUME ~ tookBack, NEW a \in desk', socket'[agent'] = "open"
               PROVE  Stays(a) \/ ResolvedAfter(agent, a, 0)'
    BY <1>1 , <1>2 DEF EndComesInv, Going, Stays
  <2>1. agent' = agent /\ agent \in Conn \ {c} /\ a \in desk
    BY <1>1, <1>2 DEF ApprovalsTypeOK
  <2>2. socket[agent] = "open" /\ reports'[agent] = reports[agent]
    BY <1>1, <2>1
  <2>3. QED
    BY <2>1, <2>2 DEF DeskInv, EndComesInv, ResolvedAfter
<1>9. ShownInv'
  BY <1>1, <1>2 DEF DeskInv, ShownInv, RequestComes, Conn, None
<1>10. QED
  BY <1>3, <1>4, <1>5, <1>6, <1>7, <1>8, <1>9 DEF DeskInv

\* The daemon reconnects: nothing of the former connection counts any more.
LEMMA ConnectDesk ==
  ASSUME ApprovalsTypeOK, DeskInv, Connect
  PROVE  DeskInv'
<1>. DEFINE new == opened + 1
<1>1. /\ UNCHANGED <<call, answers, askedOn, hosting, tookBack>>
      /\ linked' = linked \ {opened}
      /\ IF opened \in linked THEN Unhost(opened) ELSE UNCHANGED <<desk, agent>>
      /\ opened' = new
  BY DEF Connect, machineVars, historyVars
<1>2. /\ new \in Conn /\ opened \in Nat /\ \A d \in Conn : d \in Nat
      /\ socket'[new] = "open"
      /\ reports'[new] = IF hosting THEN <<[kind |-> "hosted"]>> ELSE <<>>
      /\ \A d \in Conn \ {new} : /\ socket'[d] = socket[d] /\ reports'[d] = reports[d]
                                /\ socket'[d] # "open"
  <2>1. MaxConns \in Nat
    BY ApprovalsAssumption
  <2>2. opened \in 0..MaxConns /\ opened < MaxConns /\ \A d \in Conn : socket[d] # "open"
    BY DEF Connect, Current, ApprovalsTypeOK
  <2>3. new \in Conn
    BY <2>1, <2>2 DEF Conn
  <2>4. /\ socket' = [socket EXCEPT ![new] = "open"]
        /\ reports' = [reports EXCEPT ![new] =
                          IF hosting THEN <<[kind |-> "hosted"]>> ELSE <<>>]
    BY <1>1 DEF Connect
  <2>5. DOMAIN socket = Conn /\ DOMAIN reports = Conn
    BY DEF ApprovalsTypeOK
  <2>6. socket'[new] = "open" /\ \A d \in Conn \ {new} : socket'[d] = socket[d]
    BY <2>3, <2>4, <2>5
  <2>7. /\ reports'[new] = IF hosting THEN <<[kind |-> "hosted"]>> ELSE <<>>
        /\ \A d \in Conn \ {new} : reports'[d] = reports[d]
    BY <2>3, <2>4, <2>5
  <2>8. opened \in Nat /\ \A d \in Conn : d \in Nat
    BY <2>1, <2>2 DEF Conn
  <2>9. QED
    BY <2>3, <2>2, <2>6, <2>7, <2>8
<1>3. /\ desk' \subseteq desk
      /\ agent' # None => agent' \in linked' /\ agent' = agent /\ desk' = desk
      /\ ~ tookBack => (agent' = None => desk' = {}) /\ linked' \subseteq {agent'}
  BY <1>1, UnhostDesk
<1>4. socket[new] = "unused" /\ new \notin linked
  <2>1. socket[new] = "unused"
    BY <1>2 DEF DeskInv, SocketsInv
  <2>2. QED
    BY <2>1 DEF DeskInv, LinksInv
<1>5. SocketsInv'
  <2>1. ASSUME NEW d \in Conn
        PROVE  /\ socket'[d] = "unused" <=> d > new
               /\ socket'[d] = "open" => d = new
               /\ socket'[d] \in {"unused", "closed"} => reports'[d] = <<>>
    <3>1. /\ socket[d] = "unused" <=> d > opened
          /\ socket[d] \in {"unused", "closed"} => reports[d] = <<>>
      BY DEF DeskInv, SocketsInv
    <3>2. CASE d = new
      BY <1>2, <3>2
    <3>3. CASE d # new
      <4>1. d \in Nat /\ opened \in Nat /\ (d > opened <=> d > new)
        BY <1>2, <3>3
      <4>2. socket'[d] = socket[d] /\ reports'[d] = reports[d] /\ socket'[d] # "open"
        BY <1>2, <3>3
      <4>3. QED
        BY <3>1, <4>1, <4>2
    <3>4. QED
      BY <3>2, <3>3
  <2>2. \A a \in Ask : askedOn[a] <= new
    <3>1. \A a \in Ask : askedOn[a] \in Nat /\ askedOn[a] <= opened
      BY <1>2 DEF DeskInv, SocketsInv, ApprovalsTypeOK, None
    <3>2. QED
      BY <1>2, <3>1
  <2>3. QED
    BY <1>1, <2>1, <2>2 DEF SocketsInv
<1>6. LinksInv'
  <2>1. \A d \in linked' : d \in Conn \ {new} /\ d \in linked
    BY <1>1, <1>4 DEF ApprovalsTypeOK
  <2>2. \A d \in linked' : socket'[d] \in {"open", "lost"}
    BY <1>2, <2>1 DEF DeskInv, LinksInv
  <2>3. ~ tookBack => linked' = {}
    BY <1>1 DEF DeskInv, LinksInv
  <2>4. QED
    BY <1>1, <1>3, <2>2, <2>3 DEF LinksInv
<1>7. ReportsInv'
  <2> SUFFICES ASSUME NEW d \in Conn, NEW i \in DOMAIN reports'[d]
               PROVE  /\ reports'[d][i].kind = "hosted" => i = 1 /\ d \notin linked'
                      /\ reports'[d][i].kind = "resolved" => call[reports'[d][i].ask] = "over"
                      /\ reports'[d][i].kind = "released" =>
                           ~ hosting /\ \A a \in Ask : ~ Going(a)
    BY <1>1 DEF ReportsInv, Going, Stays
  <2>1. CASE d = new
    BY <1>1, <1>2, <1>4, <2>1
  <2>2. CASE d # new
    BY <1>1, <1>2, <2>2 DEF DeskInv, ReportsInv
  <2>3. QED
    BY <2>1, <2>2
<1>8. AnnouncedInv'
  BY <1>1, <1>2 DEF DeskInv, AnnouncedInv
<1>9. FollowedInv'
  BY <1>1, <1>2 DEF FollowedInv
<1>10. EndComesInv'
  BY <1>1, <1>3 DEF EndComesInv, DeskInv, LinksInv
<1>11. ShownInv'
  <2>1. \A a \in Ask : askedOn[a] # new
    <3>1. \A a \in Ask : askedOn[a] \in Nat /\ askedOn[a] <= opened
      BY <1>2 DEF DeskInv, SocketsInv, ApprovalsTypeOK, None
    <3>2. QED
      BY <1>2, <3>1
  <2>2. QED
    BY <1>1, <1>2, <2>1 DEF ShownInv
<1>12. QED
  BY <1>5, <1>6, <1>7, <1>8, <1>9, <1>10, <1>11 DEF DeskInv

\* While no connection is open, nothing is promised of what the desk shows.
LEMMA NoneOpenDesk ==
  ASSUME ApprovalsTypeOK, LinksInv', \A c \in Conn : socket'[c] # "open",
         agent' \in Conn \cup {None}, \A a \in Ask : call'[a] = "waiting" => hosting'
  PROVE  AnnouncedInv' /\ FollowedInv' /\ EndComesInv' /\ ShownInv'
BY DEF LinksInv, AnnouncedInv, FollowedInv, EndComesInv, ShownInv

\* The relay restarts.
LEMMA RelayRestartsDesk ==
  ASSUME ApprovalsTypeOK, DeskInv, RelayRestarts
  PROVE  DeskInv'
<1>1. /\ UNCHANGED <<call, opened, answers, askedOn, hosting, tookBack>>
      /\ desk' = {} /\ agent' = None /\ linked' = {}
      /\ \A c \in Conn : /\ socket'[c] = IF socket[c] = "unused" THEN "unused" ELSE "closed"
                         /\ reports'[c] = <<>>
  BY DEF RelayRestarts, Fault, machineVars
<1>2. SocketsInv' /\ LinksInv' /\ ReportsInv'
  BY <1>1 DEF DeskInv, SocketsInv, LinksInv, ReportsInv
<1>3. AnnouncedInv' /\ FollowedInv' /\ EndComesInv' /\ ShownInv'
  <2>1. \A c \in Conn : socket'[c] # "open"
    BY <1>1
  <2>2. \A a \in Ask : call'[a] = "waiting" => hosting'
    BY <1>1 DEF DeskInv, AnnouncedInv
  <2>3. QED
    BY <1>1, <1>2, <2>1, <2>2, NoneOpenDesk
<1>4. QED
  BY <1>2, <1>3 DEF DeskInv

\* The open connection is lost, if there is one, maybe because the machine stops.
LEMMA LossDesk ==
  ASSUME ApprovalsTypeOK, DeskInv,
         (\E c \in Conn : CutConnection(c)) \/ MachineRestarts
  PROVE  DeskInv'
<1>1. /\ UNCHANGED <<relayVars, opened, answers, askedOn, hosting, tookBack>>
      /\ \A a \in Ask : /\ call[a] = "over" => call'[a] = "over"
                        /\ Going(a)' => Going(a)
                        /\ call'[a] = "waiting" => call[a] = "waiting"
  <2>1. CASE MachineRestarts
    <3>1. \A a \in Ask : call'[a] = IF Going(a) THEN "lost" ELSE call[a]
      BY <2>1 DEF MachineRestarts, Going, Stays
    <3>2. QED
      BY <2>1, <3>1 DEF MachineRestarts, Fault, Going, Stays
  <2>2. CASE \E c \in Conn : CutConnection(c)
    BY <2>2 DEF CutConnection, Fault, machineVars, Going, Stays
  <2>3. QED
    BY <2>1, <2>2
<1>2. UNCHANGED <<desk, agent, linked>>
  BY <1>1 DEF relayVars
<1>3. /\ \A c \in Conn : /\ socket'[c] # "open"
                         /\ socket'[c] = socket[c] \/ (socket[c] = "open" /\ socket'[c] = "lost")
                         /\ reports[c] = <<>> => reports'[c] = <<>>
      /\ \A c \in Conn : \A i \in DOMAIN reports'[c] :
           i \in DOMAIN reports[c] /\ reports'[c][i] = reports[c][i]
  <2>1. CASE \E c \in Conn : Lost(c)
    <3>1. PICK c \in Conn : Lost(c)
      BY <2>1
    <3>2. PICK n \in 0..Len(reports[c]) : reports' = [reports EXCEPT ![c] = SubSeq(reports[c], 1, n)]
      BY <3>1 DEF Lost
    <3>3. reports[c] \in Seq(Report) /\ Len(reports[c]) \in Nat /\ n \in Nat
      BY DEF ApprovalsTypeOK
    <3>4. /\ DOMAIN SubSeq(reports[c], 1, n) = 1..n /\ n <= Len(reports[c])
          /\ DOMAIN reports[c] = 1..Len(reports[c])
          /\ \A i \in 1..n : SubSeq(reports[c], 1, n)[i] = reports[c][i]
      BY <3>3
    <3>5. reports[c] = <<>> => SubSeq(reports[c], 1, n) = <<>>
      BY <3>3, <3>4
    <3>6. /\ reports'[c] = SubSeq(reports[c], 1, n)
          /\ \A d \in Conn \ {c} : reports'[d] = reports[d]
      BY <3>2 DEF ApprovalsTypeOK
    <3>7. /\ socket[c] = "open" /\ socket'[c] = "lost"
          /\ \A d \in Conn \ {c} : socket'[d] = socket[d]
      BY <3>1 DEF Lost, ApprovalsTypeOK
    <3>8. \A d \in Conn \ {c} : socket[d] # "open"
      BY <3>7 DEF DeskInv, SocketsInv
    <3>9. \A i \in DOMAIN reports'[c] : i \in DOMAIN reports[c] /\ reports'[c][i] = reports[c][i]
      BY <3>3, <3>4, <3>6
    <3>10. QED
      BY <3>5, <3>6, <3>7, <3>8, <3>9
  <2>2. CASE Current = {} /\ UNCHANGED <<socket, reports>>
    BY <2>2 DEF Current
  <2>3. QED
    BY <2>1, <2>2 DEF CutConnection, MachineRestarts, Current
<1>4. SocketsInv'
  BY <1>1, <1>3 DEF DeskInv, SocketsInv
<1>5. LinksInv'
  <2>1. \A c \in linked : c \in Conn
    BY DEF ApprovalsTypeOK
  <2>2. QED
    BY <1>1, <1>2, <1>3, <2>1 DEF DeskInv, LinksInv
<1>6. ReportsInv'
  <2> SUFFICES ASSUME NEW c \in Conn, NEW i \in DOMAIN reports'[c]
               PROVE  /\ reports'[c][i].kind = "hosted" => i = 1 /\ c \notin linked
                      /\ reports'[c][i].kind = "resolved" => call'[reports'[c][i].ask] = "over"
                      /\ reports'[c][i].kind = "released" =>
                           ~ hosting /\ \A a \in Ask : ~ Going(a)'
    BY <1>1, <1>2 DEF ReportsInv
  <2>1. i \in DOMAIN reports[c] /\ reports'[c][i] = reports[c][i]
    BY <1>3
  <2>2. /\ reports[c][i].kind = "hosted" => i = 1 /\ c \notin linked
        /\ reports[c][i].kind = "resolved" => call[reports[c][i].ask] = "over"
        /\ reports[c][i].kind = "released" => ~ hosting /\ \A a \in Ask : ~ Going(a)
    BY <2>1 DEF DeskInv, ReportsInv
  <2>3. reports[c][i].kind = "resolved" => reports[c][i].ask \in Ask
    BY <2>1, ReportAt
  <2>4. QED
    BY <1>1, <2>1, <2>2, <2>3
<1>7. AnnouncedInv' /\ FollowedInv' /\ EndComesInv' /\ ShownInv'
  <2>1. \A a \in Ask : call'[a] = "waiting" => hosting'
    BY <1>1 DEF DeskInv, AnnouncedInv
  <2>2. agent' \in Conn \cup {None}
    BY <1>2 DEF ApprovalsTypeOK
  <2>3. QED
    BY <1>3, <1>5, <2>1, <2>2, NoneOpenDesk
<1>8. QED
  BY <1>4, <1>5, <1>6, <1>7 DEF DeskInv

\* The machine hears an answer or lets the room go, or the relay accepts an answer:
\* nothing is announced, and the desk only loses what was answered.
LEMMA HeardDesk ==
  ASSUME ApprovalsTypeOK, DeskInv,
         UNCHANGED <<agent, linked, opened, socket, reports, askedOn, tookBack>>,
         answers \subseteq answers', desk' \subseteq desk,
         \A a \in desk \ desk' : \E w \in answers' : w.ask = a,
         hosting' => hosting,
         \A a \in Ask : /\ Going(a)' <=> Going(a)
                        /\ Stays(a)' <=> Stays(a)
                        /\ call[a] = "over" => call'[a] = "over"
                        /\ call'[a] = "waiting" => call[a] = "waiting" /\ hosting'
  PROVE  DeskInv'
<1>1. SocketsInv' /\ LinksInv' /\ AnnouncedInv'
  BY DEF DeskInv, SocketsInv, LinksInv, AnnouncedInv
<1>2. ReportsInv'
  <2> SUFFICES ASSUME NEW c \in Conn, NEW i \in DOMAIN reports[c]
               PROVE  /\ reports[c][i].kind = "hosted" => i = 1 /\ c \notin linked
                      /\ reports[c][i].kind = "resolved" => call'[reports[c][i].ask] = "over"
                      /\ reports[c][i].kind = "released" =>
                           ~ hosting' /\ \A a \in Ask : ~ Going(a)'
    BY DEF ReportsInv
  <2>1. reports[c][i].kind = "resolved" => reports[c][i].ask \in Ask
    BY ReportAt
  <2>2. QED
    BY <2>1 DEF DeskInv, ReportsInv
<1>3. FollowedInv'
  BY DEF DeskInv, FollowedInv, ResolvedAfter
<1>4. EndComesInv'
  <2>1. \A a \in desk : a \in Ask
    BY DEF ApprovalsTypeOK
  <2>2. QED
    BY <2>1 DEF DeskInv, EndComesInv, ResolvedAfter
<1>5. ShownInv'
  BY DEF DeskInv, ShownInv, RequestComes
<1>6. QED
  BY <1>1, <1>2, <1>3, <1>4, <1>5 DEF DeskInv

LEMMA LetGoStep ==
  ASSUME LetGoInv, [ApprovalsNext]_approvalVars
  PROVE  LetGoInv'
<1>1. \/ UNCHANGED <<reader, hosting>>
      \/ reader' = "free"
      \/ hosting' = hosting /\ reader' = "draining"
      \/ ~ hosting'
  BY DEF LetGoInv, ApprovalsNext, Machine, Relay, StartAsk, AskCut, Asked, Answered, TimedOut, Cancelled, Settle,
         ObeyAnswer, ObeyInterrupt, ObeyUnhost, Drained, Released, MachineRestarts, DecideAsk,
         ChangeRight, OrderCut, ReadRequested, ReadResolved, ReadHosted, ReadReleased, Read,
         Notice, RelayRestarts, Connect, CutConnection, approvalVars, machineVars
<1>2. QED
  BY <1>1 DEF LetGoInv

\* The connection of a request was opened.
LEMMA AskedOnOpened ==
  ASSUME ApprovalsTypeOK, DeskInv, NEW a \in Ask, NEW p, NEW state, Asked(a, p, state)
  PROVE  \A b \in Ask : askedOn'[b] <= opened
<1>1. /\ askedOn'[a] = IF Current = {} THEN None ELSE CHOOSE c \in Current : TRUE
      /\ \A b \in Ask \ {a} : askedOn'[b] = askedOn[b]
  BY DEF Asked, ApprovalsTypeOK
<1>2. \A c \in Current : c = opened
  BY DEF Current, DeskInv, SocketsInv
<1>3. opened \in Nat
  BY ApprovalsAssumption DEF ApprovalsTypeOK
<1>4. (IF Current = {} THEN None ELSE CHOOSE c \in Current : TRUE) \in {None, opened}
  BY <1>2
<1>5. askedOn'[a] \in {None, opened}
  BY <1>1, <1>4
<1>6. None <= opened /\ opened <= opened
  BY <1>3 DEF None
<1> QED
  BY <1>1, <1>5, <1>6 DEF DeskInv, SocketsInv

\* Every step keeps the invariant.
LEMMA DeskStep ==
  ASSUME ApprovalsTypeOK, LetGoInv, DeskInv, [ApprovalsNext]_approvalVars
  PROVE  DeskInv'
<1>1. ASSUME NEW a \in Ask, NEW p \in People, StartAsk(a, p) \/ AskCut(a, p)
      PROVE  DeskInv'
  <2>. DEFINE report == [kind |-> "requested", ask |-> a]
  <2>1. /\ report \in Report /\ Reported(report) /\ call[a] = "none"
        /\ UNCHANGED <<relayVars, opened, socket, answers, tookBack, hosting>>
    BY <1>1, ReportTyped DEF StartAsk, AskCut, Asked
  <2>2. \A b \in Ask : askedOn'[b] <= opened
    BY <1>1, AskedOnOpened DEF StartAsk, AskCut
  <2>3. \A b \in Ask \ {a} : askedOn'[b] = askedOn[b]
    BY <1>1 DEF StartAsk, AskCut, Asked, ApprovalsTypeOK
  <2>4. CASE StartAsk(a, p)
    <3>1. hosting /\ \A b \in Ask : call'[b] = IF b = a THEN "waiting" ELSE call[b]
      BY <2>4 DEF StartAsk, Asked, ApprovalsTypeOK
    <3>2. QED
      BY <2>1, <2>2, <2>3, <3>1, ReportedStep DEF Going, Stays
  <2>5. CASE AskCut(a, p)
    <3>1. \A b \in Ask : call'[b] = IF b = a THEN "cut" ELSE call[b]
      BY <2>5 DEF AskCut, Asked, ApprovalsTypeOK
    <3>2. QED
      BY <2>1, <2>2, <2>3, <3>1, ReportedStep DEF Going, Stays
  <2>6. QED
    BY <1>1, <2>4, <2>5
<1>2. ASSUME NEW a \in Ask, Answered(a) \/ TimedOut(a) \/ Cancelled(a)
      PROVE  DeskInv'
  <2>. DEFINE report == [kind |-> "resolved", ask |-> a]
  <2>1. /\ report \in Report /\ Reported(report) /\ Going(a)
        /\ UNCHANGED <<relayVars, opened, socket, answers, askedOn, tookBack, hosting>>
        /\ \A b \in Ask : call'[b] = IF b = a THEN "over" ELSE call[b]
    BY <1>2, ReportTyped
       DEF Answered, TimedOut, Cancelled, Settle, Going, Stays, historyVars, ApprovalsTypeOK
  <2>2. \A b \in Ask : askedOn'[b] <= opened
    BY <2>1 DEF DeskInv, SocketsInv
  <2>3. QED
    BY <2>1, <2>2, ReportedStep DEF Going, Stays
<1>3. CASE Released
  <2>. DEFINE report == [kind |-> "released"]
  <2>1. /\ report \in Report /\ Reported(report)
        /\ ~ hosting /\ \A a \in Ask : ~ Going(a)
        /\ UNCHANGED <<call, relayVars, opened, socket, answers, askedOn, tookBack, hosting>>
    BY <1>3, ReportTyped DEF Released, LetGoInv, Going, Stays, historyVars
  <2>2. \A b \in Ask : askedOn'[b] <= opened
    BY <2>1 DEF DeskInv, SocketsInv
  <2>3. QED
    BY <2>1, <2>2, ReportedStep DEF Going, Stays
<1>4. ASSUME NEW c \in Conn, ObeyAnswer(c)
      PROVE  DeskInv'
  <2>1. /\ UNCHANGED <<agent, linked, opened, socket, reports, askedOn, tookBack, answers,
                       desk, hosting>>
        /\ \A a \in Ask : \/ call'[a] = call[a]
                          \/ call[a] = "waiting" /\ call'[a] = "decided"
    <3>1. Head(orders[c]).ask \in Ask
      BY <1>4, ObeyTyped DEF ObeyAnswer, Obey, Order
    <3>2. QED
      BY <1>4, <3>1 DEF ObeyAnswer, relayVars, historyVars, ApprovalsTypeOK
  <2>2. QED
    BY <2>1, HeardDesk DEF Going, Stays, DeskInv, AnnouncedInv
<1>5. ASSUME NEW c \in Conn, ObeyUnhost(c)
      PROVE  DeskInv'
  <2>1. /\ UNCHANGED <<agent, linked, opened, socket, reports, askedOn, tookBack, answers, desk>>
        /\ ~ hosting'
        /\ \A a \in Ask : call'[a] = IF call[a] = "waiting" THEN "decided" ELSE call[a]
    BY <1>5 DEF ObeyUnhost, relayVars, historyVars
  <2>2. QED
    BY <2>1, HeardDesk DEF Going, Stays
<1>6. ASSUME NEW p \in People, NEW a \in Ask, NEW allow \in BOOLEAN, DecideAsk(p, a, allow)
      PROVE  DeskInv'
  <2>. DEFINE answer == [ask |-> a, by |-> p, allow |-> allow, right |-> rights[p]]
  <2>1. /\ UNCHANGED <<agent, linked, opened, socket, reports, askedOn, tookBack, call, hosting>>
        /\ desk' = desk \ {a}
        /\ answers' = answers \cup {answer}
        /\ answer.ask = a
    BY <1>6 DEF DecideAsk, machineVars
  <2>2. \A b \in desk \ desk' : \E w \in answers' : w.ask = b
    BY <2>1
  <2>3. QED
    BY <2>1, <2>2, HeardDesk DEF Going, Stays, DeskInv, AnnouncedInv
<1>7. ASSUME \/ Drained
             \/ \E c \in Conn : ObeyInterrupt(c)
             \/ \E p \in People, right \in Right : ChangeRight(p, right)
             \/ \E kind \in {"interrupt", "unhost"} : OrderCut(kind)
             \/ UNCHANGED approvalVars
      PROVE  DeskInv'
  <2>1. UNCHANGED <<agent, linked, opened, socket, reports, askedOn, tookBack, call, hosting,
                    answers, desk>>
    BY <1>7 DEF Drained, ObeyInterrupt, ChangeRight, OrderCut, approvalVars, machineVars,
                relayVars, connVars, historyVars
  <2>2. QED
    BY <2>1, HeardDesk DEF Going, Stays, DeskInv, AnnouncedInv
<1>8. QED
  BY <1>1, <1>2, <1>3, <1>4, <1>5, <1>6, <1>7, LossDesk, ReadRequestDesk, ReadHostedDesk,
     ReadReleasedDesk, NoticeDesk, ConnectDesk, RelayRestartsDesk
     DEF ApprovalsNext, Machine, Relay

\* Once everything sent was read and every loss noticed, the desk shows no call that
\* is over (server/approvals.py:116-124), and shows every call nobody answered whose
\* connection is the agent's (server/approvals.py:66-72): DeskIsTrue holds in every
\* reachable state.
THEOREM TheDeskIsTrue == ApprovalsSpec => []DeskIsTrue
<1>1. ApprovalsInit => DeskInv
  <2> SUFFICES ASSUME ApprovalsInit
               PROVE  DeskInv
    OBVIOUS
  <2>1. \A c \in Conn : c > 0
    BY ApprovalsAssumption DEF Conn
  <2>2. SocketsInv
    BY <2>1 DEF ApprovalsInit, SocketsInv, None
  <2>3. LinksInv /\ ReportsInv /\ AnnouncedInv /\ FollowedInv /\ EndComesInv /\ ShownInv
    BY DEF ApprovalsInit, LinksInv, ReportsInv, AnnouncedInv, FollowedInv, EndComesInv, ShownInv
  <2>4. QED
    BY <2>2, <2>3 DEF DeskInv
<1>2. ApprovalsTypeOK /\ DeskInv => DeskIsTrue
  <2> SUFFICES ASSUME ApprovalsTypeOK, DeskInv, Quiet
               PROVE  /\ ~ tookBack => \A a \in desk : call[a] \in {"waiting", "cut"}
                      /\ \A a \in Ask :
                           (call[a] = "waiting" /\ agent # None /\ askedOn[a] = agent
                              /\ (\A w \in answers : w.ask # a)) => a \in desk
    BY DEF DeskIsTrue
  <2>1. agent # None => agent \in Conn /\ agent \in linked /\ socket[agent] = "open"
    BY DEF ApprovalsTypeOK, DeskInv, LinksInv, Quiet
  <2>2. \A c \in Conn, a \in Ask : ~ ResolvedAfter(c, a, 0) /\ ~ RequestComes(c, a)
    BY DEF Quiet, ResolvedAfter, RequestComes
  <2>3. ASSUME ~ tookBack, NEW a \in desk
        PROVE  call[a] \in {"waiting", "cut"}
    <3>1. agent # None /\ a \in Ask
      BY <2>3 DEF DeskInv, LinksInv, ApprovalsTypeOK
    <3>2. QED
      BY <2>1, <2>2, <2>3, <3>1 DEF DeskInv, EndComesInv, Going, Stays, Quiet
  <2>4. ASSUME NEW a \in Ask, call[a] = "waiting", agent # None, askedOn[a] = agent,
               \A w \in answers : w.ask # a
        PROVE  a \in desk
    BY <2>1, <2>2, <2>4 DEF DeskInv, ShownInv
  <2>5. QED
    BY <2>3, <2>4
<1>3. ApprovalsInit => LetGoInv
  BY DEF ApprovalsInit, LetGoInv
<1>4. QED
  BY <1>1, <1>2, <1>3, ApprovalsTypeCorrect, LetGoStep, DeskStep, PTL DEF ApprovalsSpec

=============================================================================
