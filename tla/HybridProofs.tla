---------------------------- MODULE HybridProofs ----------------------------
(***************************************************************************)
(* The deterministic core stands, and its tail makes a record invalid only *)
(* by a constraint of a field it filled, for any schema, pages, replies    *)
(* and number of samples.                                                  *)
(***************************************************************************)
EXTENDS Hybrid, TLAPS

Control == {"extract", "gate", "idle", "fill", "reply", "done"}

Stands(filled, extracted) ==
  /\ Len(filled) = Len(extracted)
  /\ \A i \in DOMAIN extracted, f \in Fields :
       extracted[i][f] # None => filled[i][f] = extracted[i][f]

\* What a fill of the fields in asked may do to an extraction that was accepted.
MayEscape(filled, extracted, asked) ==
  Reason(extracted) = "" =>
    /\ Reason(filled) \in {"", "schema"}
    /\ \A i \in DOMAIN filled, f \in Fields :
         \/ filled[i][f] = extracted[i][f]
         \/ extracted[i][f] = None /\ f \in asked /\ filled[i][f] \in Bare[f]
    /\ (\A i \in DOMAIN filled, f \in asked : filled[i][f] \notin Bare[f] \ Typed[f])
         => Reason(filled) = ""

LEMMA BlankedType ==
  ASSUME NEW records \in Seq(Item), NEW fields
  PROVE  Blanked(records, fields) \in Seq(Item)
<1>1. DOMAIN records = 1..Len(records) /\ Len(records) \in Nat
  OBVIOUS
<1>2. \A i \in DOMAIN records : records[i] \in Item
  OBVIOUS
<1>3. \A i \in DOMAIN records :
        [f \in Fields |-> IF f \in fields THEN None ELSE records[i][f]] \in Item
  BY <1>2 DEF Item
<1> QED BY <1>1, <1>3 DEF Blanked

\* Every value of a tail is for a field asked for, one its bare type accepts.
LEMMA TailTyped ==
  ASSUME NEW reply \in Replies
  PROVE  /\ DOMAIN TailOf(reply) \subseteq Fields \cap residual
         /\ \A f \in DOMAIN TailOf(reply) : TailOf(reply)[f] \in Bare[f]
<1>1. /\ DOMAIN reply \subseteq Fields
      /\ \A f \in DOMAIN reply : reply[f] \in Values \cup {None}
      /\ \A f \in Fields, v \in Values : Coerce[f][v] \in Bare[f] \cup {None}
  BY HybridAssumption
<1>2. ASSUME NEW f \in DOMAIN TailOf(reply)
      PROVE  f \in Fields \cap residual /\ TailOf(reply)[f] = Coerce[f][reply[f]]
             /\ reply[f] \in Values /\ Coerce[f][reply[f]] # None
  BY <1>1, <1>2 DEF TailOf
<1> QED BY <1>1, <1>2

\* Merging a tail of well-typed values into the records of a page.
LEMMA MergeProperties ==
  ASSUME NEW records \in Seq(Item), NEW tail, NEW asked,
         DOMAIN tail \subseteq Fields \cap asked,
         \A f \in DOMAIN tail : tail[f] \in Bare[f],
         NEW filled, filled = [i \in DOMAIN records |-> Merged(records[i], tail)]
  PROVE  filled \in Seq(Item) /\ Stands(filled, records)
         /\ MayEscape(filled, records, asked)
<1>1. /\ DOMAIN records = 1..Len(records) /\ Len(records) \in Nat
      /\ \A i \in DOMAIN records : records[i] \in Item
  OBVIOUS
<1>2. \A f \in Fields : Typed[f] \subseteq Bare[f] /\ Bare[f] \subseteq Values
  BY HybridAssumption
<1>3. \A i \in DOMAIN records :
        /\ Merged(records[i], tail) \in Item
        /\ \A f \in Fields :
             /\ records[i][f] # None => Merged(records[i], tail)[f] = records[i][f]
             /\ \/ Merged(records[i], tail)[f] = records[i][f]
                \/ f \in asked /\ Merged(records[i], tail)[f] \in Bare[f]
  BY <1>1, <1>2 DEF Merged, Item
<1>4. /\ DOMAIN filled = DOMAIN records
      /\ \A i \in DOMAIN records : filled[i] = Merged(records[i], tail)
  OBVIOUS
<1>5. filled \in Seq(Item) /\ Len(filled) = Len(records)
  <2>1. filled \in [1..Len(records) -> Item]
    BY <1>1, <1>3
  <2> QED BY <1>1, <2>1
<1>6. Stands(filled, records)
  BY <1>3, <1>4, <1>5 DEF Stands
<1>7. ASSUME Reason(records) = ""
      PROVE  /\ Reason(filled) \in {"", "schema"}
             /\ (\A i \in DOMAIN filled : SchemaValid(filled[i])) => Reason(filled) = ""
  <2>1. /\ records # <<>>
        /\ \A f \in Required : ~LowFill(records, f)
        /\ \A i \in DOMAIN records : SchemaValid(records[i])
    BY <1>7 DEF Reason
  <2>2. filled # <<>>
    BY <1>1, <1>5, <2>1
  <2>3. ASSUME NEW f \in Required PROVE ~LowFill(filled, f)
    <3>1. f \in Fields
      BY ValidatorAssumption
    <3>2. \A i \in DOMAIN records : records[i][f] # None /\ filled[i][f] # None
      BY <1>3, <1>4, <2>1, <3>1 DEF SchemaValid
    <3>3. {i \in DOMAIN filled : filled[i][f] # None}
            = {i \in DOMAIN records : records[i][f] # None}
      BY <1>4, <3>2
    <3>4. LowFill(filled, f) = LowFill(records, f)
      BY <1>5, <3>3 DEF LowFill
    <3> QED BY <2>1, <3>4
  <2> QED BY <2>2, <2>3 DEF Reason
<1>8. ASSUME Reason(records) = "",
             \A i \in DOMAIN filled, f \in asked : filled[i][f] \notin Bare[f] \ Typed[f]
      PROVE  \A i \in DOMAIN filled : SchemaValid(filled[i])
  <2> SUFFICES ASSUME NEW i \in DOMAIN filled, NEW f \in Fields
               PROVE  IF filled[i][f] = None THEN f \notin Required
                                             ELSE filled[i][f] \in Typed[f]
    BY DEF SchemaValid
  <2>1. IF records[i][f] = None THEN f \notin Required ELSE records[i][f] \in Typed[f]
    BY <1>4, <1>8 DEF Reason, SchemaValid
  <2>2. \/ filled[i][f] = records[i][f]
        \/ f \in asked /\ filled[i][f] \in Bare[f]
    BY <1>3, <1>4
  <2>3. None \notin Bare[f]
    BY <1>2, ValidatorAssumption
  <2> QED BY <1>8, <2>1, <2>2, <2>3
<1>9. \A i \in DOMAIN filled, f \in Fields :
        \/ filled[i][f] = records[i][f]
        \/ records[i][f] = None /\ f \in asked /\ filled[i][f] \in Bare[f]
  BY <1>3, <1>4
<1> QED BY <1>5, <1>6, <1>7, <1>8, <1>9 DEF MayEscape

\* An answer without a tail.
LEMMA UnfilledStands ==
  ASSUME NEW records \in Seq(Item)
  PROVE  Stands(records, records) /\ MayEscape(records, records, residual)
  BY DEF Stands, MayEscape

-----------------------------------------------------------------------------
(* The inductive invariant: what an answered request returns, and the      *)
(* types of what it was made from.                                         *)

HInv ==
  /\ pc \in Control
  /\ items \in Seq(Item)
  /\ pc = "done" => Stands(result, items) /\ MayEscape(result, items, residual)

LEMMA InitHInv == Init => HInv
  BY DEF Init, HInv, Control

LEMMA NextHInv ==
  ASSUME HInv, [Next]_vars
  PROVE  HInv'
<1> USE DEF Control
<1>1. ASSUME NEW answer \in Answers \cup {Unparsed}, Extract(answer) PROVE HInv'
  <2>1. pc' \in {"extract", "gate"} /\ items' = items
    BY <1>1 DEF Extract, NextOracle, Request
  <2> QED BY <2>1 DEF HInv
<1>2. CASE Escalate
  BY <1>2 DEF Escalate, Request, HInv
<1>3. ASSUME NEW missed, Promote(missed) PROVE HInv'
  BY <1>3 DEF Promote, Request, HInv
<1>4. ASSUME NEW shown \in Pages, NEW missed, Serve(shown, missed) PROVE HInv'
  <2>1. shown \in Seq(Item)
    BY HybridAssumption
  <2> QED BY <1>4, <2>1, BlankedType DEF Serve, HInv
<1>5. CASE NoFill
  BY <1>5, UnfilledStands DEF NoFill, Answer, HInv
<1>6. CASE OffList \/ Done
  <2>1. pc' = "idle" /\ items' = <<>>
    BY <1>6 DEF OffList, Done, Forgotten
  <2> QED BY <2>1 DEF HInv
<1>7. ASSUME NEW shown \in Pages, Refetch(shown) PROVE HInv'
  BY <1>7 DEF Refetch, HInv
<1>8. ASSUME NEW reply \in Replies, Reply(reply) PROVE HInv'
  <2>1. /\ items' = items /\ residual' = residual /\ pc' = "done"
        /\ result' = [i \in DOMAIN items |-> Merged(items[i], TailOf(reply))]
    BY <1>8 DEF Reply, Answer
  <2>2. Stands(result', items) /\ MayEscape(result', items, residual)
    <3> DEFINE tail == TailOf(reply)
    <3>1. /\ DOMAIN tail \subseteq Fields \cap residual
          /\ \A f \in DOMAIN tail : tail[f] \in Bare[f]
          /\ result' = [i \in DOMAIN items |-> Merged(items[i], tail)]
      BY <2>1, TailTyped
    <3> HIDE DEF tail
    <3> QED BY <3>1, MergeProperties DEF HInv
  <2> QED BY <2>1, <2>2 DEF HInv
<1>9. CASE NoReply
  BY <1>9, UnfilledStands DEF NoReply, Answer, HInv
<1>10. CASE UNCHANGED vars
  BY <1>10 DEF vars, HInv
<1> QED
  BY <1>1, <1>2, <1>3, <1>4, <1>5, <1>6, <1>7, <1>8, <1>9, <1>10 DEF Next

\* No answer of the model changes an extracted value, adds a record or drops one
\* (merge_record, engine.py:287).
THEOREM DeterministicCoreStands == Spec => []DeterministicStands
<1>1. HInv => DeterministicStands
  BY DEF HInv, Stands, DeterministicStands
<1> QED BY InitHInv, NextHInv, <1>1, PTL DEF Spec

\* Of an extraction the gates accepted, the fill, which nothing validates again,
\* spoils a record only with a value of the bare type that the constraints of a
\* residual field refuse (fill_residual, hybrid.py:182 and 262).
THEOREM FillEscapesByConstraint == Spec => []OnlyConstraintsEscape
<1>1. HInv => OnlyConstraintsEscape
  BY DEF HInv, MayEscape, OnlyConstraintsEscape
<1> QED BY InitHInv, NextHInv, <1>1, PTL DEF Spec
-----------------------------------------------------------------------------
(* Closing the gap.  It takes two halves that meet in the audit trail: the *)
(* residual set holds every field the crawler never extracts (promotion),  *)
(* and what is asked for is filled in (request).                           *)

\* A value a field accepts is dumped as one that is equal to it.
CoercionKept ==
  \A f \in Fields : \A v \in Typed[f] :
    Coerce[f][v] # None /\ FieldEqual(Coerce[f][v], v)

Closed(filled, shown) ==
  \A f \in blind \cap known :
    (\A i, j \in DOMAIN shown : shown[i][f] = shown[j][f]) =>
      \A i \in DOMAIN shown : FieldEqual(filled[i][f], shown[i][f])

GapInv ==
  /\ blind \subseteq Fields /\ blind \cap known \subseteq residual
  /\ pc \in {"fill", "reply"} => page \in Pages
  /\ pc \in {"fill", "reply"} /\ faithful => items = Blanked(page, blind)
  /\ pc = "reply" /\ faithful => html = page
  /\ pc = "done" /\ faithful => Closed(result, page)

\* The residual set computed at a promotion has every field the new crawler never
\* extracts and some oracle populates.
LEMMA ResidualCovers ==
  ASSUME NEW missed \in [DOMAIN oracles -> SUBSET (Fields \ Required)], Promote(missed)
  PROVE  blind' \subseteq Fields /\ blind' \cap known' \subseteq residual'
<1> DEFINE outputs == [i \in DOMAIN oracles |-> Blanked(oracles[i], missed[i])]
<1> SUFFICES ASSUME NEW f \in Fields, \A i \in DOMAIN oracles : f \in missed[i],
                    \E i \in DOMAIN oracles : Populates(oracles[i], f)
             PROVE  f \in ResidualFields(outputs)
  BY DEF Promote
<1>1. ASSUME NEW i \in DOMAIN oracles PROVE ~Populates(outputs[i], f)
  <2>1. outputs[i] = Blanked(oracles[i], missed[i]) /\ f \in missed[i]
    OBVIOUS
  <2> HIDE DEF outputs
  <2> QED BY <2>1 DEF Populates, Blanked
<1> HIDE DEF outputs
<1> QED BY <1>1 DEF ResidualFields

LEMMA ReplyCloses ==
  ASSUME CoercionKept, GapInv, NEW reply \in Replies, pc = "reply", faithful, Truthful(reply),
         NEW filled, filled = [i \in DOMAIN items |-> Merged(items[i], TailOf(reply))]
  PROVE  Closed(filled, page)
<1> SUFFICES ASSUME NEW f \in blind \cap known, NEW i \in DOMAIN page,
                    \A j, k \in DOMAIN page : page[j][f] = page[k][f]
             PROVE  FieldEqual(filled[i][f], page[i][f])
  BY DEF Closed
<1>1. /\ page \in Pages /\ html = page /\ f \in Fields /\ f \in residual
      /\ items = Blanked(page, blind)
  BY DEF GapInv
<1>2. DOMAIN items = DOMAIN page /\ items[i][f] = None
  BY <1>1 DEF Blanked
<1>3. reply[f] = page[i][f] /\ f \in DOMAIN reply
  BY <1>1 DEF Truthful
<1>4. page[i][f] = None \/ page[i][f] \in Typed[f]
  <2>1. page # <<>> /\ \A j \in DOMAIN page : SchemaValid(page[j])
    BY <1>1, HybridAssumption DEF Reason
  <2> QED BY <1>1, <2>1 DEF SchemaValid
<1>5. filled[i][f] = IF f \in DOMAIN TailOf(reply) THEN TailOf(reply)[f] ELSE None
  BY <1>1, <1>2 DEF Merged
<1>6. CASE page[i][f] = None
  <2>1. f \notin DOMAIN TailOf(reply)
    BY <1>3, <1>6 DEF TailOf
  <2> QED BY <1>5, <1>6, <2>1 DEF FieldEqual
<1>7. CASE page[i][f] \in Typed[f] /\ page[i][f] # None
  <2>1. Coerce[f][page[i][f]] # None /\ FieldEqual(Coerce[f][page[i][f]], page[i][f])
    BY <1>1, <1>7 DEF CoercionKept
  <2>2. f \in DOMAIN TailOf(reply) /\ TailOf(reply)[f] = Coerce[f][page[i][f]]
    BY <1>1, <1>3, <1>7, <2>1 DEF TailOf
  <2> QED BY <1>5, <2>1, <2>2
<1> QED BY <1>4, <1>6, <1>7

LEMMA NextGapInv ==
  ASSUME CoercionKept, GapInv, [Next]_vars
  PROVE  GapInv'
<1>1. ASSUME NEW answer, Extract(answer) PROVE GapInv'
  <2>1. /\ pc' \in {"extract", "gate"} \/ (pc' = pc /\ pc = "extract")
        /\ UNCHANGED <<residual, blind, known>>
    BY <1>1 DEF Extract, NextOracle
  <2> QED BY <2>1 DEF GapInv
<1>2. CASE Escalate
  BY <1>2 DEF Escalate, GapInv
<1>3. ASSUME NEW missed \in [DOMAIN oracles -> SUBSET (Fields \ Required)], Promote(missed)
      PROVE  GapInv'
  <2>1. blind' \subseteq Fields /\ blind' \cap known' \subseteq residual'
    BY <1>3, ResidualCovers
  <2>2. pc' = "idle"
    BY <1>3 DEF Promote
  <2> QED BY <2>1, <2>2 DEF GapInv
<1>4. ASSUME NEW shown \in Pages, NEW missed, Serve(shown, missed) PROVE GapInv'
  BY <1>4 DEF Serve, GapInv
<1>5. CASE NoFill
  <2>1. /\ UNCHANGED <<residual, blind, known, page>> /\ pc' = "done"
        /\ residual = {} \/ ~faithful'
    BY <1>5 DEF NoFill, Answer
  <2> QED BY <2>1 DEF GapInv, Closed
<1>6. CASE OffList \/ Done
  BY <1>6 DEF OffList, Done, Forgotten, GapInv
<1>7. ASSUME NEW shown \in Pages, Refetch(shown) PROVE GapInv'
  BY <1>7 DEF Refetch, GapInv
<1>8. ASSUME NEW reply \in Replies, Reply(reply) PROVE GapInv'
  <2>1. /\ UNCHANGED <<residual, blind, known, page>> /\ pc = "reply" /\ pc' = "done"
        /\ result' = [i \in DOMAIN items |-> Merged(items[i], TailOf(reply))]
        /\ faithful' => faithful /\ Truthful(reply)
    BY <1>8 DEF Reply, Answer
  <2>2. faithful' => Closed(result', page)
    BY <2>1, ReplyCloses
  <2> QED BY <2>1, <2>2 DEF GapInv, Closed
<1>9. CASE NoReply
  BY <1>9 DEF NoReply, Answer, GapInv
<1>10. CASE UNCHANGED vars
  BY <1>10 DEF vars, GapInv, Closed
<1> QED
  BY <1>1, <1>2, <1>3, <1>4, <1>5, <1>6, <1>7, <1>8, <1>9, <1>10 DEF Next

\* Where a type dumps its values as equal ones, a truthful model fills every field
\* the active crawler never extracts and its oracles showed to exist, as long as
\* the records of the page agree on it (compute_residual_fields, fill_residual).
THEOREM GapIsClosed ==
  ASSUME CoercionKept
  PROVE  Spec => []GapClosed
<1>1. Init => GapInv
  BY DEF Init, GapInv
<1>2. GapInv /\ [Next]_vars => GapInv'
  BY NextGapInv
<1>3. GapInv => GapClosed
  BY DEF GapInv, Closed, GapClosed
<1> QED BY <1>1, <1>2, <1>3, PTL DEF Spec
-----------------------------------------------------------------------------
(* Types.  One tail call is made for a request at most: none is out while  *)
(* it waits for one.                                                       *)

HTypes ==
  /\ TypeOK
  /\ pc \in {"fill", "reply"} => calls = 0

LEMMA InitHTypes == Init => HTypes
<1> SUFFICES ASSUME Init PROVE HTypes
  OBVIOUS
<1>1. MaxRepairs \in Nat /\ attempt = 0
  BY HybridAssumption DEF Init
<1>2. attempt \in 0..MaxRepairs
  BY <1>1
<1>3. <<>> \in Seq(Answers \cup {<<>>}) /\ <<>> \in Seq(Item)
  OBVIOUS
<1> QED BY <1>2, <1>3 DEF Init, HTypes, TypeOK

LEMMA NextHTypes ==
  ASSUME HTypes, [Next]_vars
  PROVE  HTypes'
<1>0. TypeOK /\ MaxRepairs \in Nat /\ <<>> \in Seq(Item)
  <2>1. MaxRepairs \in Nat
    BY HybridAssumption
  <2>2. <<>> \in Seq(Item)
    OBVIOUS
  <2> QED BY <2>1, <2>2 DEF HTypes
<1> USE DEF HTypes, TypeOK
<1>1. ASSUME NEW answer \in Answers \cup {Unparsed}, Extract(answer) PROVE HTypes'
  <2>1. ASSUME NEW records \in Answers \cup {<<>>}, NextOracle(records)
        PROVE  /\ oracles' \in Seq(Answers \cup {<<>>}) /\ attempt' \in 0..MaxRepairs
               /\ pc' \in {"extract", "gate"}
    BY <1>0, <2>1 DEF NextOracle
  <2>2. ASSUME RepairsLeft, attempt' = attempt + 1 PROVE attempt' \in 0..MaxRepairs
    BY <1>0, <2>2 DEF RepairsLeft
  <2>3. /\ oracles' \in Seq(Answers \cup {<<>>}) /\ attempt' \in 0..MaxRepairs
        /\ pc' \in {"extract", "gate"}
    BY <1>0, <1>1, <2>1, <2>2 DEF Extract, Usable
  <2> QED BY <1>0, <1>1, <2>3 DEF Extract, Request
<1>2. CASE Escalate
  BY <1>0, <1>2 DEF Escalate, Request
<1>3. ASSUME NEW missed, Promote(missed) PROVE HTypes'
  <2>1. {residual', blind', known'} \subseteq SUBSET Fields
    BY <1>3 DEF Promote, ResidualFields
  <2>2. pc' = "idle" /\ oracles' = <<>> /\ UNCHANGED <<attempt, Request>>
    BY <1>3 DEF Promote
  <2> QED BY <1>0, <2>1, <2>2 DEF Request
<1>4. ASSUME NEW shown \in Pages, NEW missed, Serve(shown, missed) PROVE HTypes'
  <2>1. Blanked(shown, missed) \in Seq(Item)
    BY HybridAssumption, BlankedType
  <2>2. faithful' \in BOOLEAN
    BY <1>4 DEF Serve
  <2> QED BY <1>0, <1>4, <2>1, <2>2 DEF Serve
<1>5. CASE NoFill
  BY <1>0, <1>5 DEF NoFill, Answer
<1>6. CASE OffList \/ Done
  <2>1. /\ pc' = "idle" /\ calls' = 0 /\ faithful' = TRUE
        /\ page' = <<>> /\ items' = <<>> /\ html' = <<>> /\ result' = <<>>
        /\ UNCHANGED <<attempt, oracles, residual, blind, known>>
    BY <1>6 DEF OffList, Done, Forgotten
  <2>2. faithful' \in BOOLEAN /\ calls' \in 0..1
    BY <2>1
  <2> QED BY <1>0, <2>1, <2>2
<1>7. ASSUME NEW shown \in Pages, Refetch(shown) PROVE HTypes'
  BY <1>0, <1>7 DEF Refetch
<1>8. ASSUME NEW reply \in Replies, Reply(reply) PROVE HTypes'
  <2>1. /\ result' = [i \in DOMAIN items |-> Merged(items[i], TailOf(reply))]
        /\ pc = "reply" /\ pc' = "done" /\ calls' = calls + 1
        /\ faithful' = (faithful /\ Truthful(reply))
        /\ UNCHANGED <<attempt, oracles, residual, blind, known, page, items, html>>
    BY <1>8 DEF Reply, Answer
  <2>2. result' \in Seq(Item)
    <3> DEFINE tail == TailOf(reply)
    <3>1. /\ DOMAIN tail \subseteq Fields \cap residual
          /\ \A f \in DOMAIN tail : tail[f] \in Bare[f]
          /\ result' = [i \in DOMAIN items |-> Merged(items[i], tail)]
      BY <2>1, TailTyped
    <3> HIDE DEF tail
    <3> QED BY <1>0, <3>1, MergeProperties
  <2>3. calls' \in 0..1 /\ faithful' \in BOOLEAN
    BY <2>1
  <2> QED BY <1>0, <2>1, <2>2, <2>3
<1>9. CASE NoReply
  <2>1. /\ pc = "reply" /\ pc' = "done" /\ calls' = calls + 1 /\ faithful' = FALSE
        /\ result' = items
        /\ UNCHANGED <<attempt, oracles, residual, blind, known, page, items, html>>
    BY <1>9 DEF NoReply, Answer
  <2>2. calls' \in 0..1
    BY <2>1
  <2>3. faithful' \in BOOLEAN
    BY <2>1
  <2> QED BY <1>0, <2>1, <2>2, <2>3
<1>10. CASE UNCHANGED vars
  BY <1>0, <1>10 DEF vars
<1> QED
  BY <1>1, <1>2, <1>3, <1>4, <1>5, <1>6, <1>7, <1>8, <1>9, <1>10 DEF Next

\* Types, whatever the model answers: the records of a request stay records of the
\* schema, and it makes one tail call at most.
THEOREM HybridTypeCorrect == Spec => []TypeOK
<1>1. HTypes => TypeOK
  BY DEF HTypes
<1> QED BY InitHTypes, NextHTypes, <1>1, PTL DEF Spec
=============================================================================
