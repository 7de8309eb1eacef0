--------------------------- MODULE AnswerSheetProofs ---------------------------
(***************************************************************************)
(* AnswerSheet for any paper, any order of its options and any number of   *)
(* clicks: the types, that nothing is saved which was not chosen, and that *)
(* LastIsSheet, which is inductive, makes the server's answers those of    *)
(* the sheet wherever the last request of a question came last.            *)
(***************************************************************************)
EXTENDS AnswerSheet, TLAPS

\* A request that a click sends is new: no other one has its number.
LEMMA SaveTypes ==
  ASSUME TypeOK, NEW q \in Questions, NEW o \in Answers, Save(q, o)
  PROVE  /\ order' \in [Questions -> Orders]
         /\ sheet' \in [Questions -> Answers] /\ visited' \subseteq Questions
         /\ wire' \subseteq Requests /\ clicks' \in 0..MaxClicks
         /\ \A m \in wire' : m.seq <= clicks'
         /\ \A m, n \in wire' : m.seq = n.seq => m = n
         /\ DOMAIN saved' \subseteq Questions /\ \A p \in DOMAIN saved' : saved'[p] \in Answers
         /\ submitted' \in BOOLEAN /\ muddled' \subseteq Questions
<1> DEFINE sent == [seq |-> clicks + 1, question |-> q, option |-> o]
<1>1. clicks + 1 \in 1..MaxClicks /\ clicks' = clicks + 1 /\ MaxClicks \in Nat
  BY OptionsAssumption DEF TypeOK, Save
<1>2. sent \in Requests /\ wire' = wire \cup {sent}
  BY <1>1 DEF Requests, Save
<1>3. \A m \in wire' : m.seq <= clicks'
  <2> SUFFICES ASSUME NEW m \in wire' PROVE m.seq <= clicks'
    OBVIOUS
  <2>1. CASE m \in wire
    BY <2>1, <1>1 DEF TypeOK, Requests
  <2>2. CASE m = sent
    BY <2>2, <1>1
  <2> QED
    BY <2>1, <2>2, <1>2
<1>4. \A m, n \in wire' : m.seq = n.seq => m = n
  <2>1. \A m \in wire : m.seq # sent.seq
    BY <1>1 DEF TypeOK, Requests
  <2> QED
    BY <2>1, <1>2 DEF TypeOK
<1>5. /\ sheet' \in [Questions -> Answers] /\ visited' \subseteq Questions
      /\ order' \in [Questions -> Orders]
  BY DEF TypeOK, Save
<1>6. /\ DOMAIN saved' \subseteq Questions /\ \A p \in DOMAIN saved' : saved'[p] \in Answers
      /\ submitted' \in BOOLEAN /\ muddled' \subseteq Questions
  BY DEF TypeOK, Save, server
<1> QED
  BY <1>1, <1>2, <1>3, <1>4, <1>5, <1>6 DEF TypeOK

\* Delivering or losing a request leaves fewer under way.
LEMMA WireShrinks ==
  ASSUME TypeOK, NEW m \in wire, wire' = wire \ {m}, clicks' = clicks
  PROVE  /\ wire' \subseteq Requests /\ clicks' \in 0..MaxClicks
         /\ \A k \in wire' : k.seq <= clicks'
         /\ \A k, n \in wire' : k.seq = n.seq => k = n
BY DEF TypeOK

\* Every variable of AnswerSheet holds a value of its kind, and each request
\* that saveAnswer sends has a number of its own.
THEOREM TypeCorrect == Spec => []TypeOK
<1>1. Init => TypeOK
  <2> SUFFICES ASSUME Init PROVE TypeOK
    OBVIOUS
  <2>1. sheet \in [Questions -> Answers] /\ order \in [Questions -> Orders]
    BY DEF Init, Answers
  <2>2. DOMAIN saved = {} /\ clicks \in 0..MaxClicks
    BY OptionsAssumption DEF Init, Empty
  <2>3. visited = {} /\ wire = {} /\ submitted = FALSE /\ chosen = {} /\ muddled = {}
    BY DEF Init
  <2> QED
    BY <2>1, <2>2, <2>3 DEF TypeOK
<1>2. TypeOK /\ [Next]_vars => TypeOK'
  <2> SUFFICES ASSUME TypeOK, [Next]_vars PROVE TypeOK'
    OBVIOUS
  <2>1. ASSUME NEW q \in Questions, NEW o \in Positions, Choose(q, o) PROVE TypeOK'
    <3>1. o \in Answers /\ Save(q, o)
      BY <2>1 DEF Choose, Answers
    <3>2. chosen' \subseteq Questions \X Positions
      BY <2>1 DEF TypeOK, Choose
    <3> QED
      BY <3>1, <3>2, SaveTypes DEF TypeOK, Requests
  <2>2. ASSUME NEW q \in Questions, Clear(q) PROVE TypeOK'
    <3>1. None \in Answers /\ Save(q, None)
      BY <2>2 DEF Clear, Answers
    <3>2. chosen' \subseteq Questions \X Positions
      BY <2>2 DEF TypeOK, Clear
    <3> QED
      BY <3>1, <3>2, SaveTypes DEF TypeOK, Requests
  <2>3. ASSUME NEW q \in Questions, SaveAgain(q) PROVE TypeOK'
    <3>1. sheet[q] \in Answers /\ Save(q, sheet[q])
      BY <2>3 DEF SaveAgain, TypeOK
    <3>2. chosen' \subseteq Questions \X Positions
      BY <2>3 DEF TypeOK, SaveAgain
    <3> QED
      BY <3>1, <3>2, SaveTypes DEF TypeOK, Requests
  <2>4. CASE Reload
    BY <2>4 DEF Reload, TypeOK, Requests, Answers, server, history
  <2>5. ASSUME NEW m \in wire, Deliver(m) PROVE TypeOK'
    <3>1. m \in Requests /\ wire' = wire \ {m} /\ clicks' = clicks
      BY <2>5 DEF TypeOK, Deliver
    <3>2. /\ DOMAIN saved' \subseteq Questions
          /\ \A p \in DOMAIN saved' : saved'[p] \in Answers
      BY <2>5, <3>1 DEF Deliver, TypeOK, Requests
    <3> QED
      BY <2>5, <3>1, <3>2, WireShrinks DEF Deliver, TypeOK, Requests, client
  <2>6. ASSUME NEW m \in wire, Lose(m) PROVE TypeOK'
    BY <2>6, WireShrinks DEF Lose, TypeOK, Requests, client, server
  <2>7. CASE Submit
    BY <2>7 DEF Submit, TypeOK, Requests, client, history
  <2>8. CASE Evaluate
    BY <2>8 DEF Evaluate, TypeOK, Requests, client, history
  <2>9. CASE UNCHANGED vars
    BY <2>9 DEF vars, TypeOK, Requests
  <2> QED
    BY <2>1, <2>2, <2>3, <2>4, <2>5, <2>6, <2>7, <2>8, <2>9 DEF Next
<1> QED
  BY <1>1, <1>2, PTL DEF Spec

\* What a click sends was chosen: now, before, or it is no answer.
LEMMA SaveKeepsChosen ==
  ASSUME TypeOK, OnlyChosen, NEW q \in Questions, NEW o \in Answers, Save(q, o),
         chosen \subseteq chosen', o # None => <<q, o>> \in chosen'
  PROVE  OnlyChosen'
<1>1. \A p \in DOMAIN saved' : saved'[p] # None => <<p, saved'[p]>> \in chosen'
  BY DEF OnlyChosen, Save, server
<1>2. \A p \in Questions : sheet'[p] # None => <<p, sheet'[p]>> \in chosen'
  BY DEF OnlyChosen, TypeOK, Save
<1>3. \A m \in wire' : m.option # None => <<m.question, m.option>> \in chosen'
  <2> SUFFICES ASSUME NEW m \in wire', m.option # None
               PROVE  <<m.question, m.option>> \in chosen'
    OBVIOUS
  <2>1. CASE m \in wire
    BY <2>1 DEF OnlyChosen
  <2>2. CASE m = [seq |-> clicks + 1, question |-> q, option |-> o]
    BY <2>2
  <2> QED
    BY <2>1, <2>2 DEF Save
<1> QED
  BY <1>1, <1>2, <1>3 DEF OnlyChosen

\* No autosave, reload, reordering or loss puts an answer on the server that the
\* candidate did not choose for that question.
THEOREM ChosenOnly == Spec => []OnlyChosen
<1>1. Init => OnlyChosen
  BY DEF Init, OnlyChosen, Empty
<1>2. TypeOK /\ OnlyChosen /\ [Next]_vars => OnlyChosen'
  <2> SUFFICES ASSUME TypeOK, OnlyChosen, [Next]_vars PROVE OnlyChosen'
    OBVIOUS
  <2>1. ASSUME NEW q \in Questions, NEW o \in Positions, Choose(q, o) PROVE OnlyChosen'
    BY <2>1, SaveKeepsChosen DEF Choose, Answers
  <2>2. ASSUME NEW q \in Questions, Clear(q) PROVE OnlyChosen'
    BY <2>2, SaveKeepsChosen DEF Clear, Answers
  <2>3. ASSUME NEW q \in Questions, SaveAgain(q) PROVE OnlyChosen'
    <3>1. sheet[q] \in Answers /\ (sheet[q] # None => <<q, sheet[q]>> \in chosen)
      BY DEF TypeOK, OnlyChosen
    <3>2. Save(q, sheet[q]) /\ chosen' = chosen
      BY <2>3 DEF SaveAgain
    <3> QED
      BY <3>1, <3>2, SaveKeepsChosen
  <2>4. CASE Reload
    BY <2>4 DEF Reload, OnlyChosen, server, history
  <2>5. ASSUME NEW m \in wire, Deliver(m) PROVE OnlyChosen'
    <3>1. /\ chosen' = chosen /\ sheet' = sheet /\ wire' \subseteq wire
          /\ m.option # None => <<m.question, m.option>> \in chosen
      BY <2>5 DEF Deliver, OnlyChosen, client
    <3>2. \A p \in DOMAIN saved' : saved'[p] # None => <<p, saved'[p]>> \in chosen
      BY <2>5, <3>1 DEF Deliver, OnlyChosen
    <3> QED
      BY <3>1, <3>2 DEF OnlyChosen
  <2>6. ASSUME NEW m \in wire, Lose(m) PROVE OnlyChosen'
    BY <2>6 DEF Lose, OnlyChosen, client, server
  <2>7. CASE Submit
    BY <2>7 DEF Submit, OnlyChosen, client, history
  <2>8. CASE Evaluate
    BY <2>8 DEF Evaluate, OnlyChosen, client, history
  <2>9. CASE UNCHANGED vars
    BY <2>9 DEF vars, OnlyChosen
  <2> QED
    BY <2>1, <2>2, <2>3, <2>4, <2>5, <2>6, <2>7, <2>8, <2>9 DEF Next
<1> QED
  BY <1>1, <1>2, TypeCorrect, PTL DEF Spec

\* A click puts its question's answer into the last request.
LEMMA SaveIsLast ==
  ASSUME TypeOK, LastIsSheet, NEW q \in Questions, NEW o \in Answers, Save(q, o)
  PROVE  LastIsSheet'
<1>0. PICK sent : sent = [seq |-> clicks + 1, question |-> q, option |-> o]
  OBVIOUS
<1>1. /\ wire' = wire \cup {sent} /\ visited' = visited \cup {q}
      /\ sheet' = [sheet EXCEPT ![q] = o] /\ saved' = saved /\ submitted' = submitted
      /\ muddled' = muddled \ {q}
  BY <1>0 DEF Save, server
<1>2. \A n \in wire : n.seq < sent.seq
  BY <1>0 DEF TypeOK, Requests
<1> SUFFICES ASSUME NEW p \in visited' \ muddled'
             PROVE  \/ \E m \in wire' : m.question = p /\ m.option = sheet'[p] /\ IsLast(m)'
                    \/ /\ \A n \in wire' : n.question # p
                       /\ submitted' \/ (p \in DOMAIN saved' /\ saved'[p] = sheet'[p])
  BY DEF LastIsSheet
<1>3. CASE p = q
  <2>1. sent.question = p /\ sent.option = sheet'[p] /\ sent \in wire'
    BY <1>0, <1>1, <1>3 DEF TypeOK
  <2>2. IsLast(sent)'
    BY <1>1, <1>2 DEF IsLast, Rivals
  <2> QED
    BY <2>1, <2>2
<1>4. CASE p # q
  <2>1. p \in visited \ muddled /\ sheet'[p] = sheet[p] /\ sent.question # p
    BY <1>0, <1>1, <1>4 DEF TypeOK
  <2>2. CASE \A n \in wire : n.question # p
    BY <1>1, <2>1, <2>2 DEF LastIsSheet
  <2>3. ASSUME NEW m \in wire, m.question = p, m.option = sheet[p], IsLast(m)
        PROVE  m \in wire' /\ m.option = sheet'[p] /\ IsLast(m)'
    BY <1>1, <2>1, <2>3 DEF IsLast, Rivals
  <2> QED
    BY <2>1, <2>2, <2>3 DEF LastIsSheet
<1> QED
  BY <1>3, <1>4

\* One request leaves the wire, saved or not: the questions of the others keep
\* their last request.
LEMMA OthersKeepTheirs ==
  ASSUME LastIsSheet, NEW m \in wire, wire' = wire \ {m},
         sheet' = sheet, visited' = visited, submitted' = submitted,
         NEW p \in visited \ muddled, p # m.question,
         p \in DOMAIN saved => p \in DOMAIN saved' /\ saved'[p] = saved[p]
  PROVE  \/ \E k \in wire' : k.question = p /\ k.option = sheet'[p] /\ IsLast(k)'
         \/ /\ \A n \in wire' : n.question # p
            /\ submitted' \/ (p \in DOMAIN saved' /\ saved'[p] = sheet'[p])
<1>1. CASE \A n \in wire : n.question # p
  BY <1>1 DEF LastIsSheet
<1>2. ASSUME NEW k \in wire, k.question = p, k.option = sheet[p], IsLast(k)
      PROVE  k \in wire' /\ k.option = sheet'[p] /\ IsLast(k)'
  BY <1>2 DEF IsLast, Rivals
<1> QED
  BY <1>1, <1>2 DEF LastIsSheet

\* A request that is not the last of its question leaves the last one under way.
LEMMA LastStays ==
  ASSUME TypeOK, LastIsSheet, NEW m \in wire, wire' = wire \ {m}, sheet' = sheet,
         m.question \in visited \ muddled, ~IsLast(m)
  PROVE  \E k \in wire' : /\ k.question = m.question
                          /\ k.option = sheet'[m.question] /\ IsLast(k)'
<1>1. PICK k \in wire : k.question = m.question /\ k.option = sheet[m.question] /\ IsLast(k)
  BY DEF LastIsSheet
<1>2. k # m
  BY <1>1
<1>3. IsLast(k)'
  BY <1>1 DEF IsLast, Rivals
<1> QED
  BY <1>1, <1>2, <1>3

\* The last request of a question, when no other of it is under way, leaves the
\* sheet's answer saved; delivered before another, it leaves the question muddled.
LEMMA DeliverKeepsLast ==
  ASSUME TypeOK, LastIsSheet, NEW m \in wire, Deliver(m)
  PROVE  LastIsSheet'
<1>1. /\ wire' = wire \ {m} /\ sheet' = sheet /\ visited' = visited
      /\ submitted' = submitted /\ muddled \subseteq muddled'
      /\ m.question \notin muddled' => ~IsLast(m) \/ Rivals(m) = {}
      /\ saved' = IF submitted THEN saved
                  ELSE [q \in DOMAIN saved \cup {m.question} |->
                          IF q = m.question THEN m.option ELSE saved[q]]
  BY DEF Deliver, client
<1> SUFFICES ASSUME NEW p \in visited \ muddled, p \notin muddled'
             PROVE  \/ \E k \in wire' : k.question = p /\ k.option = sheet'[p] /\ IsLast(k)'
                    \/ /\ \A n \in wire' : n.question # p
                       /\ submitted' \/ (p \in DOMAIN saved' /\ saved'[p] = sheet'[p])
  BY <1>1 DEF LastIsSheet
<1>2. CASE p # m.question
  BY <1>1, <1>2, OthersKeepTheirs
<1>3. CASE p = m.question /\ ~IsLast(m)
  BY <1>1, <1>3, LastStays
<1>4. CASE p = m.question /\ Rivals(m) = {}
  <2>1. \A n \in wire : n.question = p => n = m
    BY <1>4 DEF Rivals
  <2>2. m.option = sheet[p]
    BY <1>4, <2>1 DEF LastIsSheet
  <2> QED
    BY <1>1, <1>4, <2>1, <2>2
<1> QED
  BY <1>1, <1>2, <1>3, <1>4

\* A lost request muddles its question only if it was the last.
LEMMA LoseKeepsLast ==
  ASSUME TypeOK, LastIsSheet, NEW m \in wire, Lose(m)
  PROVE  LastIsSheet'
<1>1. /\ wire' = wire \ {m} /\ sheet' = sheet /\ visited' = visited /\ saved' = saved
      /\ submitted' = submitted /\ muddled \subseteq muddled'
      /\ m.question \notin muddled' => ~IsLast(m)
  BY DEF Lose, client, server
<1> SUFFICES ASSUME NEW p \in visited \ muddled, p \notin muddled'
             PROVE  \/ \E k \in wire' : k.question = p /\ k.option = sheet'[p] /\ IsLast(k)'
                    \/ /\ \A n \in wire' : n.question # p
                       /\ submitted' \/ (p \in DOMAIN saved' /\ saved'[p] = sheet'[p])
  BY <1>1 DEF LastIsSheet
<1>2. CASE p # m.question
  BY <1>1, <1>2, OthersKeepTheirs
<1>3. CASE p = m.question
  BY <1>1, <1>3, LastStays
<1> QED
  BY <1>2, <1>3

\* The server's answers are those of the sheet whenever no autosave request is
\* under way, but for the questions whose last request was lost or overtook
\* another: reloads, earlier losses and disorder across questions do no harm.
THEOREM QuietSaved == Spec => []QuietIsSaved
<1>1. Init => LastIsSheet
  BY DEF Init, LastIsSheet
<1>2. TypeOK /\ LastIsSheet /\ [Next]_vars => LastIsSheet'
  <2> SUFFICES ASSUME TypeOK, LastIsSheet, [Next]_vars PROVE LastIsSheet'
    OBVIOUS
  <2>1. ASSUME NEW q \in Questions, NEW o \in Positions, Choose(q, o) PROVE LastIsSheet'
    BY <2>1, SaveIsLast DEF Choose, Answers
  <2>2. ASSUME NEW q \in Questions, Clear(q) PROVE LastIsSheet'
    BY <2>2, SaveIsLast DEF Clear, Answers
  <2>3. ASSUME NEW q \in Questions, SaveAgain(q) PROVE LastIsSheet'
    <3>1. sheet[q] \in Answers
      BY DEF TypeOK
    <3> QED
      BY <2>3, <3>1, SaveIsLast DEF SaveAgain
  <2>4. CASE Reload
    BY <2>4 DEF Reload, LastIsSheet
  <2>5. ASSUME NEW m \in wire, Deliver(m) PROVE LastIsSheet'
    BY <2>5, DeliverKeepsLast
  <2>6. ASSUME NEW m \in wire, Lose(m) PROVE LastIsSheet'
    BY <2>6, LoseKeepsLast
  <2>7. CASE Submit
    BY <2>7 DEF Submit, LastIsSheet, IsLast, Rivals, client, history
  <2>8. CASE Evaluate
    BY <2>8 DEF Evaluate, LastIsSheet, IsLast, Rivals, client, history
  <2>9. CASE UNCHANGED vars
    BY <2>9 DEF vars, LastIsSheet, IsLast, Rivals
  <2> QED
    BY <2>1, <2>2, <2>3, <2>4, <2>5, <2>6, <2>7, <2>8, <2>9 DEF Next
<1>3. LastIsSheet => QuietIsSaved
  BY DEF LastIsSheet, QuietIsSaved
<1> QED
  BY <1>1, <1>2, <1>3, TypeCorrect, PTL DEF Spec

=============================================================================
