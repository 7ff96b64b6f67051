------------------------- MODULE RuleProcessorProofs -------------------------
(***************************************************************************)
(* The result of RuleProcessor.Process, for every rule list and request.   *)
(*                                                                         *)
(* The invariant is the loop invariant of Process: after some rounds the   *)
(* two maps and the result are right for the matching rules seen so far     *)
(* (Seen), and while the loop runs none of those was a final rule.  When    *)
(* it ends the rules seen are the rules that count.                        *)
(***************************************************************************)
EXTENDS RuleProcessor, TLAPS, WellFoundedInduction

\* A set of natural numbers has a least element, a bounded one a greatest.
LEMMA Least ==
    ASSUME NEW K, K \subseteq Nat, K # {}
    PROVE  \E k \in K : \A j \in K : k <= j
<1> DEFINE R == {p \in Nat \X Nat : p[1] < p[2]}
<1>1. IsWellFoundedOn(R, Nat)
  BY NatLessThanWellFounded DEF OpToRel
<1>2. PICK k \in K : \A j \in K : <<j, k>> \notin R
  <2> HIDE DEF R
  <2> QED BY <1>1, WFMin
<1>3. \A j \in K : ~ (j < k)
  BY <1>2
<1> QED BY <1>3

LEMMA Greatest ==
    ASSUME NEW n \in Nat, NEW K, K \subseteq 0 .. n, K # {}
    PROVE  \E k \in K : \A j \in K : j <= k
<1> DEFINE T == {n - k : k \in K}
<1>1. T \subseteq Nat /\ T # {}
  <2>1. PICK k \in K : TRUE
    OBVIOUS
  <2>2. n - k \in T
    BY <2>1
  <2> QED BY <2>2
<1>2. PICK t \in T : \A s \in T : t <= s
  <2> HIDE DEF T
  <2> QED BY <1>1, Least
<1>3. PICK k \in K : t = n - k
  BY <1>2
<1>4. \A j \in K : j <= k
  BY <1>2, <1>3
<1> QED BY <1>4

\* The choices made among a rule's own lists.
LEMMA LastOfAdds ==
    ASSUME NEW u \in RuleSet, NEW n \in Names, AddsOf(u, n) # {}
    PROVE  /\ LastOf(AddsOf(u, n)) \in AddsOf(u, n)
           /\ \A m \in AddsOf(u, n) : m <= LastOf(AddsOf(u, n))
           /\ u.adds[LastOf(AddsOf(u, n))] \in Add
           /\ u.adds[LastOf(AddsOf(u, n))].name = n
<1>1. u.adds \in Seq(Add)
  BY RulesAssumption
<1>2. AddsOf(u, n) \subseteq 0 .. Len(u.adds) /\ Len(u.adds) \in Nat
  BY <1>1 DEF AddsOf
<1>3. \E k \in AddsOf(u, n) : \A j \in AddsOf(u, n) : j <= k
  BY <1>2, Greatest
<1>4. /\ LastOf(AddsOf(u, n)) \in AddsOf(u, n)
      /\ \A m \in AddsOf(u, n) : m <= LastOf(AddsOf(u, n))
  BY <1>3 DEF LastOf
<1>5. \A k \in AddsOf(u, n) : u.adds[k] \in Add /\ u.adds[k].name = n
  BY <1>1 DEF AddsOf
<1> QED BY <1>4, <1>5

LEMMA FirstOfScripts ==
    ASSUME NEW u \in RuleSet, NEW l \in Urls, ScriptsOf(u, l) # {}
    PROVE  /\ FirstOf(ScriptsOf(u, l)) \in ScriptsOf(u, l)
           /\ \A m \in ScriptsOf(u, l) : FirstOf(ScriptsOf(u, l)) <= m
           /\ u.scripts[FirstOf(ScriptsOf(u, l))] \in Script
           /\ u.scripts[FirstOf(ScriptsOf(u, l))].url = l
<1>1. u.scripts \in Seq(Script)
  BY RulesAssumption
<1>2. ScriptsOf(u, l) \subseteq Nat
  BY <1>1 DEF ScriptsOf
<1>3. \E k \in ScriptsOf(u, l) : \A j \in ScriptsOf(u, l) : k <= j
  BY <1>2, Least
<1>4. /\ FirstOf(ScriptsOf(u, l)) \in ScriptsOf(u, l)
      /\ \A m \in ScriptsOf(u, l) : FirstOf(ScriptsOf(u, l)) <= m
  BY <1>3 DEF FirstOf
<1>5. \A k \in ScriptsOf(u, l) : u.scripts[k] \in Script /\ u.scripts[k].url = l
  BY <1>1 DEF ScriptsOf
<1> QED BY <1>4, <1>5

-----------------------------------------------------------------------------
(* The invariant *)

Seen == {i \in Matching : i < next}

\* What the rules in I leave under a name or a URL, with the rules and the
\* positions it comes from.
IsAdd(I, n, a) ==
    \E i \in I : \E k \in AddsOf(rules[i], n) :
        /\ rules[i].adds[k] = a
        /\ \A m \in AddsOf(rules[i], n) : m <= k
        /\ \A j \in I : AddsOf(rules[j], n) # {} => j <= i

IsScript(I, l, s) ==
    \E i \in I : \E k \in ScriptsOf(rules[i], l) :
        /\ rules[i].scripts[k] = s
        /\ \A m \in ScriptsOf(rules[i], l) : k <= m
        /\ \A j \in I : ScriptsOf(rules[j], l) # {} => i <= j

AddsRight(I) ==
    \A n \in Names :
        IF adds[n] = Nil THEN \A i \in I : AddsOf(rules[i], n) = {}
        ELSE adds[n].name = n /\ IsAdd(I, n, adds[n])

ScriptsRight(I) ==
    \A l \in Urls :
        IF scripts[l] = Nil THEN \A i \in I : ScriptsOf(rules[i], l) = {}
        ELSE scripts[l].url = l /\ IsScript(I, l, scripts[l])

Undecided ==
    phase = "rules" =>
        /\ Seen \cap Final = {}
        /\ ~result.log /\ ~result.downloads /\ result.dests = Nil

Ended == phase # "rules" => Seen = Counted

DecisionRight ==
    phase # "rules" =>
        /\ result.log = (Final # {})
        /\ \A f \in Final \cap Counted :
            /\ result.downloads = rules[f].downloads
            /\ result.dests = IF rules[f].dests = <<>> THEN Nil ELSE rules[f].dests
        /\ Final = {} => ~result.downloads /\ result.dests = Nil

SlicesRight ==
    phase = "done" => /\ result.addList \in Slices(adds)
                      /\ result.scriptList \in Slices(scripts)

ResultFields == {"inject", "log", "downloads", "track", "dests", "addList", "scriptList"}

IInv ==
    /\ TypeOK
    /\ result = [f \in ResultFields |-> result[f]]
    /\ AddsRight(Seen)
    /\ ScriptsRight(Seen)
    /\ Undecided
    /\ Ended
    /\ DecisionRight
    /\ SlicesRight

-----------------------------------------------------------------------------
(* Initially nothing was seen *)

LEMMA InitEstablishes == Init => IInv
<1> SUFFICES ASSUME Init PROVE IInv
  OBVIOUS
<1>1. rules \in Seq(RuleSet) /\ MaxRules \in Nat
  BY RulesAssumption DEF Init, Lists
<1>2. Seen = {}
  BY <1>1 DEF Init, Seen, Matching
<1>3. TypeOK
  <2>1. Len(rules) \in Nat /\ next \in 1 .. Len(rules) + 1
    BY <1>1 DEF Init
  <2>2. adds \in [Names -> Add \cup {Nil}] /\ scripts \in [Urls -> Script \cup {Nil}]
    BY DEF Init
  <2>3. {result.inject, result.log, result.downloads, result.track} \subseteq BOOLEAN
    BY DEF Init, NoResult
  <2> QED BY <1>1, <2>1, <2>2, <2>3 DEF Init, TypeOK, NoResult
<1>4. AddsRight(Seen) /\ ScriptsRight(Seen)
  BY <1>2 DEF Init, AddsRight, ScriptsRight
<1>5. Undecided /\ result = [f \in ResultFields |-> result[f]]
  BY <1>2 DEF Init, Undecided, NoResult, ResultFields
<1> QED BY <1>3, <1>4, <1>5 DEF Init, IInv, Ended, DecisionRight, SlicesRight

-----------------------------------------------------------------------------
(* One round of the loop *)

\* What a step that stays on the same rules and request cannot change.
LEMMA SameRules ==
    ASSUME UNCHANGED <<rules, req>>
    PROVE  /\ Matching' = Matching /\ Final' = Final /\ Counted' = Counted
           /\ \A I, n, a : IsAdd(I, n, a)' = IsAdd(I, n, a)
           /\ \A I, l, s : IsScript(I, l, s)' = IsScript(I, l, s)
BY DEF Matching, Final, Counted, Applies, IsAdd, IsScript

LEMMA MapsKept ==
    ASSUME AddsRight(Seen), ScriptsRight(Seen), UNCHANGED <<rules, adds, scripts>>, Seen' = Seen
    PROVE  AddsRight(Seen)' /\ ScriptsRight(Seen)'
<1>1. rules' = rules /\ adds' = adds /\ scripts' = scripts
  OBVIOUS
<1>2. AddsRight(Seen)'
  BY <1>1 DEF AddsRight, IsAdd
<1>3. ScriptsRight(Seen)'
  BY <1>1 DEF ScriptsRight, IsScript
<1> QED BY <1>2, <1>3

LEMMA SeenGrows ==
    ASSUME TypeOK, AtRule, next' = next + 1, UNCHANGED <<rules, req>>
    PROVE  /\ next \in DOMAIN rules /\ rules[next] \in RuleSet
           /\ \A i \in Seen : i \in Nat /\ i < next
           /\ Seen' = IF Applies(rules[next]) THEN Seen \cup {next} ELSE Seen
<1>1. rules \in Seq(RuleSet) /\ next \in 1 .. Len(rules) + 1 /\ next <= Len(rules)
  BY DEF TypeOK, AtRule
<1>2. next \in DOMAIN rules /\ rules[next] \in RuleSet
  BY <1>1
<1>3. \A i \in Matching : i \in Nat
  BY <1>1 DEF Matching
<1>4. Seen' = {i \in Matching : i < next + 1}
  BY SameRules DEF Seen
<1>5. \A i \in Nat : i < next + 1 <=> (i < next \/ i = next)
  BY <1>1
<1>6. next \in Matching <=> Applies(rules[next])
  BY <1>2 DEF Matching
<1> QED BY <1>2, <1>3, <1>4, <1>5, <1>6 DEF Seen

\* The maps after a rule that applies.
LEMMA AccumulateKeeps ==
    ASSUME IInv, AtRule, Applies(rules[next]), Accumulate
    PROVE  /\ AddsRight(Seen)' /\ ScriptsRight(Seen)'
           /\ adds' \in [Names -> Add \cup {Nil}]
           /\ scripts' \in [Urls -> Script \cup {Nil}]
<1> DEFINE u == rules[next]
           I == Seen \cup {next}
<1>1. /\ u \in RuleSet /\ next \in Nat
      /\ \A i \in Seen : i \in Nat /\ i < next
      /\ Seen' = I
  BY SeenGrows DEF IInv, TypeOK, Accumulate
<1>2. /\ adds \in [Names -> Add \cup {Nil}] /\ adds' = MergeAdds(u)
      /\ scripts \in [Urls -> Script \cup {Nil}] /\ scripts' = MergeScripts(u)
      /\ rules' = rules
  BY DEF IInv, TypeOK, Accumulate
<1>3. Nil \notin Add /\ Nil \notin Script
  BY RulesAssumption
<1>4. ASSUME NEW n \in Names
      PROVE  /\ adds'[n] \in Add \cup {Nil}
             /\ IF adds'[n] = Nil THEN \A i \in I : AddsOf(rules[i], n) = {}
                ELSE adds'[n].name = n /\ IsAdd(I, n, adds'[n])
  <2>1. CASE AddsOf(u, n) = {}
    <3>1. adds'[n] = adds[n]
      BY <1>2, <2>1 DEF MergeAdds
    <3>2. CASE adds[n] = Nil
      BY <1>2, <2>1, <3>1, <3>2 DEF IInv, AddsRight
    <3>3. CASE adds[n] # Nil
      <4>1. adds[n].name = n /\ IsAdd(Seen, n, adds[n])
        BY <3>3 DEF IInv, AddsRight
      <4>2. IsAdd(I, n, adds[n])
        BY <4>1, <2>1 DEF IsAdd
      <4> QED BY <1>2, <3>1, <3>3, <4>1, <4>2
    <3> QED BY <3>2, <3>3
  <2>2. CASE AddsOf(u, n) # {}
    <3> DEFINE k == LastOf(AddsOf(u, n))
    <3>1. adds'[n] = u.adds[k]
      BY <1>2, <2>2 DEF MergeAdds
    <3>2. /\ k \in AddsOf(u, n) /\ u.adds[k] \in Add /\ u.adds[k].name = n
          /\ \A m \in AddsOf(u, n) : m <= k
      BY <1>1, <2>2, LastOfAdds
    <3>3. IsAdd(I, n, u.adds[k])
      <4> HIDE DEF k
      <4>1. \A j \in I : j <= next
        BY <1>1
      <4> QED BY <3>2, <4>1 DEF IsAdd
    <3> QED BY <1>3, <3>1, <3>2, <3>3
  <2> QED BY <2>1, <2>2
<1>5. ASSUME NEW l \in Urls
      PROVE  /\ scripts'[l] \in Script \cup {Nil}
             /\ IF scripts'[l] = Nil THEN \A i \in I : ScriptsOf(rules[i], l) = {}
                ELSE scripts'[l].url = l /\ IsScript(I, l, scripts'[l])
  <2>1. CASE scripts[l] # Nil
    <3>1. scripts'[l] = scripts[l]
      BY <1>2, <2>1 DEF MergeScripts
    <3>2. scripts[l].url = l /\ IsScript(Seen, l, scripts[l])
      BY <2>1 DEF IInv, ScriptsRight
    <3>3. IsScript(I, l, scripts[l])
      <4>1. \A i \in Seen : i <= next
        BY <1>1
      <4> QED BY <3>2, <4>1 DEF IsScript
    <3> QED BY <1>2, <2>1, <3>1, <3>2, <3>3
  <2>2. CASE scripts[l] = Nil /\ ScriptsOf(u, l) = {}
    <3>1. scripts'[l] = Nil
      BY <1>2, <2>2 DEF MergeScripts
    <3>2. \A i \in Seen : ScriptsOf(rules[i], l) = {}
      BY <2>2 DEF IInv, ScriptsRight
    <3> QED BY <2>2, <3>1, <3>2
  <2>3. CASE scripts[l] = Nil /\ ScriptsOf(u, l) # {}
    <3> DEFINE k == FirstOf(ScriptsOf(u, l))
    <3>1. scripts'[l] = u.scripts[k]
      BY <1>2, <2>3 DEF MergeScripts
    <3>2. /\ k \in ScriptsOf(u, l) /\ u.scripts[k] \in Script /\ u.scripts[k].url = l
          /\ \A m \in ScriptsOf(u, l) : k <= m
      BY <1>1, <2>3, FirstOfScripts
    <3>3. \A i \in Seen : ScriptsOf(rules[i], l) = {}
      BY <2>3 DEF IInv, ScriptsRight
    <3>4. IsScript(I, l, u.scripts[k])
      <4> HIDE DEF k
      <4>1. next <= next
        BY <1>1
      <4> QED BY <3>2, <3>3, <4>1 DEF IsScript
    <3> QED BY <1>3, <3>1, <3>2, <3>4
  <2> QED BY <2>1, <2>2, <2>3
<1>6. DOMAIN adds' = Names /\ DOMAIN scripts' = Urls
  BY <1>2 DEF MergeAdds, MergeScripts
<1>7. AddsRight(Seen)'
  <2> HIDE DEF I
  <2> QED BY <1>1, <1>2, <1>4 DEF AddsRight, IsAdd
<1>8. ScriptsRight(Seen)'
  <2> HIDE DEF I
  <2> QED BY <1>1, <1>2, <1>5 DEF ScriptsRight, IsScript
<1>9. adds' \in [Names -> Add \cup {Nil}]
  BY <1>2, <1>4 DEF MergeAdds
<1>10. scripts' \in [Urls -> Script \cup {Nil}]
  BY <1>2, <1>5 DEF MergeScripts
<1> QED BY <1>7, <1>8, <1>9, <1>10

-----------------------------------------------------------------------------
(* Every step preserves the invariant *)

LEMMA SkipKeeps == IInv /\ SkipRule => IInv'
<1> SUFFICES ASSUME IInv, SkipRule PROVE IInv'
  OBVIOUS
<1>1. /\ Seen' = Seen /\ next \in DOMAIN rules /\ phase' = "rules" /\ phase = "rules"
      /\ UNCHANGED <<rules, req, adds, scripts, result>>
  BY SeenGrows DEF IInv, SkipRule, AtRule
<1>2. TypeOK'
  BY <1>1 DEF IInv, TypeOK, SkipRule
<1>3. AddsRight(Seen)' /\ ScriptsRight(Seen)'
  BY <1>1, MapsKept DEF IInv
<1>4. Undecided'
  BY <1>1, SameRules DEF IInv, Undecided
<1> QED BY <1>1, <1>2, <1>3, <1>4
         DEF IInv, Ended, DecisionRight, SlicesRight, ResultFields

LEMMA ContinueKeeps == IInv /\ ContinueRule => IInv'
<1> SUFFICES ASSUME IInv, ContinueRule PROVE IInv'
  OBVIOUS
<1>1. /\ AddsRight(Seen)' /\ ScriptsRight(Seen)'
      /\ adds' \in [Names -> Add \cup {Nil}]
      /\ scripts' \in [Urls -> Script \cup {Nil}]
  BY AccumulateKeeps DEF ContinueRule
<1>2. /\ Seen' = Seen \cup {next} /\ next \in DOMAIN rules /\ rules[next] \in RuleSet
      /\ phase = "rules" /\ phase' = "rules" /\ next' = next + 1
      /\ UNCHANGED <<rules, req>>
  BY SeenGrows DEF IInv, ContinueRule, AtRule, Accumulate
<1>3. rules[next].track \in BOOLEAN
  BY <1>2, RulesAssumption
<1>4. result' = [result EXCEPT !.inject = TRUE, !.track = @ \/ rules[next].track]
  BY DEF ContinueRule, Accumulated
<1>5. result' = [f \in ResultFields |-> result'[f]]
  BY <1>4 DEF IInv, ResultFields
<1>6. /\ result'.inject \in BOOLEAN /\ result'.track \in BOOLEAN
      /\ result'.log = result.log /\ result'.downloads = result.downloads
      /\ result'.dests = result.dests
  BY <1>3, <1>4 DEF IInv, ResultFields, TypeOK
<1>7. TypeOK'
  BY <1>1, <1>2, <1>6 DEF IInv, TypeOK
<1>8. Undecided'
  <2>1. next \notin Final
    BY DEF ContinueRule, Final
  <2>2. Seen' \cap Final' = {}
    BY <1>2, <2>1, SameRules DEF IInv, Undecided
  <2>3. ~result.log /\ ~result.downloads /\ result.dests = Nil
    BY <1>2 DEF IInv, Undecided, ResultFields
  <2> QED BY <1>5, <1>6, <2>2, <2>3 DEF Undecided, ResultFields
<1> QED BY <1>1, <1>2, <1>5, <1>7, <1>8
         DEF IInv, Ended, DecisionRight, SlicesRight

LEMMA FinalKeeps == IInv /\ FinalRule => IInv'
<1> SUFFICES ASSUME IInv, FinalRule PROVE IInv'
  OBVIOUS
<1>1. /\ AddsRight(Seen)' /\ ScriptsRight(Seen)'
      /\ adds' \in [Names -> Add \cup {Nil}]
      /\ scripts' \in [Urls -> Script \cup {Nil}]
  BY AccumulateKeeps DEF FinalRule
<1>2. /\ Seen' = Seen \cup {next} /\ next \in DOMAIN rules /\ rules[next] \in RuleSet
      /\ \A i \in Seen : i \in Nat /\ i < next
      /\ phase = "rules" /\ phase' = "slices" /\ next' = next + 1
      /\ UNCHANGED <<rules, req>>
  BY SeenGrows DEF IInv, FinalRule, AtRule, Accumulate, AfterFinal
<1>3. rules[next].track \in BOOLEAN /\ rules[next].downloads \in BOOLEAN
  BY <1>2, RulesAssumption
<1>4. result' = [Accumulated(rules[next]) EXCEPT
          !.log = TRUE, !.downloads = rules[next].downloads,
          !.dests = IF rules[next].dests = <<>> THEN Nil ELSE rules[next].dests]
  BY DEF FinalRule, Decided
<1>5. /\ result' = [f \in ResultFields |-> result'[f]]
      /\ result'.inject = TRUE /\ result'.track \in BOOLEAN
      /\ result'.log = TRUE /\ result'.downloads = rules[next].downloads
      /\ result'.dests = IF rules[next].dests = <<>> THEN Nil ELSE rules[next].dests
  BY <1>3, <1>4 DEF IInv, ResultFields, Accumulated, TypeOK
<1>6. TypeOK'
  <2>1. rules \in Seq(RuleSet) /\ next' \in 1 .. Len(rules) + 1
    BY <1>2 DEF IInv, TypeOK
  <2>2. {result'.inject, result'.log, result'.downloads, result'.track} \subseteq BOOLEAN
    BY <1>3, <1>5
  <2> QED BY <1>1, <1>2, <2>1, <2>2 DEF IInv, TypeOK
<1>7. next \in Final /\ next \in Nat /\ Matching \subseteq Nat
  BY <1>2 DEF FinalRule, Final, Matching, IInv, TypeOK
<1>8. \A f \in Final : next <= f
  BY <1>2, <1>7 DEF IInv, Undecided, Seen, Final
<1>9. Counted = Seen \cup {next}
  <2>1. \A i \in Matching : i \in Nat /\ (i \in Seen <=> i < next)
    BY <1>7 DEF Seen
  <2>2. \A i \in Counted : i \in Matching /\ i <= next
    BY <1>7 DEF Counted
  <2>3. \A i \in Seen \cup {next} : i \in Counted
    <3>1. ASSUME NEW i \in Seen \cup {next}, NEW f \in Final PROVE i <= f
      BY <1>2, <1>7, <1>8 DEF Final
    <3> QED BY <1>7, <3>1 DEF Counted, Seen, Final
  <2>4. ASSUME NEW i \in Counted PROVE i \in Seen \cup {next}
    <3>1. i \in Nat /\ next \in Nat /\ i <= next
      BY <1>7, <2>1, <2>2
    <3>2. i < next \/ i = next
      BY <3>1
    <3> QED BY <3>2, <2>1, <2>2
  <2> QED BY <2>3, <2>4
<1>10. Final \cap Counted = {next}
  BY <1>2, <1>7, <1>8, <1>9 DEF IInv, Undecided
<1>11. Ended' /\ DecisionRight'
  BY <1>2, <1>5, <1>7, <1>9, <1>10, SameRules DEF Ended, DecisionRight
<1> QED BY <1>1, <1>2, <1>5, <1>6, <1>11 DEF IInv, Undecided, SlicesRight

LEMMA EndKeeps == IInv /\ RulesEnd => IInv'
<1> SUFFICES ASSUME IInv, RulesEnd PROVE IInv'
  OBVIOUS
<1>1. /\ UNCHANGED <<rules, req, next, adds, scripts, result>>
      /\ phase = "rules" /\ phase' = "slices" /\ next = Len(rules) + 1
  BY DEF RulesEnd
<1>2. TypeOK'
  BY <1>1 DEF IInv, TypeOK
<1>3. Seen = Matching /\ Seen' = Matching
  BY <1>1, SameRules DEF Seen, Matching, IInv, TypeOK
<1>4. Final = {} /\ Counted = Matching
  BY <1>1, <1>3 DEF IInv, Undecided, Final, Counted
<1>5. result.log = FALSE /\ ~result.downloads /\ result.dests = Nil
  BY <1>1 DEF IInv, TypeOK, Undecided
<1>6. AddsRight(Seen)' /\ ScriptsRight(Seen)'
  BY <1>1, <1>3, MapsKept DEF IInv
<1>7. Ended' /\ DecisionRight'
  <2>1. Final' = {} /\ Counted' = Matching /\ result' = result
    BY <1>1, <1>4, SameRules
  <2> QED BY <1>3, <1>5, <2>1 DEF Ended, DecisionRight
<1> QED BY <1>1, <1>2, <1>6, <1>7 DEF IInv, Undecided, SlicesRight, ResultFields

LEMMA ConvertKeeps == IInv /\ Convert => IInv'
<1> SUFFICES ASSUME IInv, Convert PROVE IInv'
  OBVIOUS
<1>1. /\ UNCHANGED <<rules, req, next, adds, scripts>>
      /\ phase = "slices" /\ phase' = "done"
  BY DEF Convert
<1>2. PICK a \in Slices(adds), s \in Slices(scripts) :
          result' = [result EXCEPT !.addList = a, !.scriptList = s]
  BY DEF Convert
<1>3. /\ result' = [f \in ResultFields |-> result'[f]]
      /\ result'.addList = a /\ result'.scriptList = s
      /\ \A f \in ResultFields \ {"addList", "scriptList"} : result'[f] = result[f]
  BY <1>2 DEF IInv, ResultFields
<1>4. /\ result'.inject = result.inject /\ result'.track = result.track
      /\ result'.log = result.log /\ result'.downloads = result.downloads
      /\ result'.dests = result.dests
  BY <1>3 DEF ResultFields
<1>5. TypeOK'
  BY <1>1, <1>4 DEF IInv, TypeOK
<1>6. Seen' = Seen
  BY <1>1, SameRules DEF Seen
<1>7. AddsRight(Seen)' /\ ScriptsRight(Seen)'
  BY <1>1, <1>6, MapsKept DEF IInv
<1>8. Ended' /\ DecisionRight'
  BY <1>1, <1>4, <1>6, SameRules DEF IInv, Ended, DecisionRight
<1>9. SlicesRight'
  <2>1. Slices(adds)' = Slices(adds) /\ Slices(scripts)' = Slices(scripts)
    BY <1>1 DEF Slices, ValuesOf
  <2> QED BY <1>2, <1>3, <2>1 DEF SlicesRight
<1> QED BY <1>1, <1>3, <1>5, <1>7, <1>8, <1>9 DEF IInv, Undecided

\* The loop invariant of Process.
THEOREM ProcessInvariance == Spec => []IInv
<1>1. Init => IInv
  BY InitEstablishes
<1>2. IInv /\ [Next]_vars => IInv'
  <2>1. ASSUME IInv, UNCHANGED vars PROVE IInv'
    <3>1. Seen' = Seen /\ UNCHANGED <<rules, req>>
      BY <2>1, SameRules DEF Seen, vars
    <3>2. AddsRight(Seen)' /\ ScriptsRight(Seen)'
      BY <2>1, <3>1, MapsKept DEF IInv, vars
    <3>3. TypeOK' /\ result' = [f \in ResultFields |-> result'[f]]
      BY <2>1 DEF IInv, TypeOK, vars, ResultFields
    <3>4. Undecided' /\ Ended' /\ DecisionRight'
      BY <2>1, <3>1, SameRules DEF IInv, Undecided, Ended, DecisionRight, vars
    <3>5. SlicesRight'
      <4>1. Slices(adds)' = Slices(adds) /\ Slices(scripts)' = Slices(scripts)
        BY <2>1 DEF Slices, ValuesOf, vars
      <4> QED BY <2>1, <4>1 DEF IInv, SlicesRight, vars
    <3> QED BY <3>2, <3>3, <3>4, <3>5 DEF IInv
  <2> QED BY <2>1, SkipKeeps, ContinueKeeps, FinalKeeps, EndKeeps, ConvertKeeps DEF Next
<1> QED BY <1>1, <1>2, PTL DEF Spec

-----------------------------------------------------------------------------
(* The properties *)

\* Process returns what it declares: types of the loop and its result.
THEOREM RulesTypeCorrect == Spec => []TypeOK
<1>1. IInv => TypeOK
  BY DEF IInv
<1> QED BY <1>1, ProcessInvariance, PTL

\* For every rule list and every request, the first matching rule without
\* "continue" alone decides about logging, destinations and downloads.
THEOREM FirstFinalDecidesHolds == Spec => []FirstFinalDecides
<1>1. IInv => FirstFinalDecides
  BY DEF IInv, DecisionRight, FirstFinalDecides
<1> QED BY <1>1, ProcessInvariance, PTL

\* Names are unique and the last addition under a name is the one kept.
THEOREM LastAddWinsHolds == Spec => []LastAddWins
<1>1. IInv => LastAddWins
  <2> SUFFICES ASSUME IInv, phase = "done" PROVE
        /\ \A j, k \in DOMAIN result.addList :
            result.addList[j].name = result.addList[k].name => j = k
        /\ \A a \in Add : InList(a, result.addList) <=> IsAdd(Counted, a.name, a)
    BY DEF LastAddWins, IsAdd
  <2>1. /\ adds \in [Names -> Add \cup {Nil}] /\ AddsRight(Counted)
        /\ result.addList \in Slices(adds)
    BY DEF IInv, TypeOK, Ended, SlicesRight
  <2>2. /\ \A v \in ValuesOf(adds) : InList(v, result.addList)
        /\ \A k \in DOMAIN result.addList : result.addList[k] \in ValuesOf(adds)
        /\ \A j, k \in DOMAIN result.addList :
            result.addList[j] = result.addList[k] => j = k
    BY <2>1 DEF Slices, InList
  <2>3. \A v \in ValuesOf(adds) :
          v \in Add /\ v = adds[v.name] /\ IsAdd(Counted, v.name, v)
    BY <2>1 DEF ValuesOf, AddsRight
  <2>4. ASSUME NEW a \in Add, IsAdd(Counted, a.name, a) PROVE a \in ValuesOf(adds)
    <3>1. a.name \in Names
      BY DEF Add
    <3>2. adds[a.name] # Nil
      BY <2>1, <2>4, <3>1 DEF AddsRight, IsAdd
    <3>3. adds[a.name] = a
      <4>1. IsAdd(Counted, a.name, adds[a.name])
        BY <2>1, <3>1, <3>2 DEF AddsRight
      <4>2. PICK i \in Counted : \E k \in AddsOf(rules[i], a.name) :
              /\ rules[i].adds[k] = a
              /\ \A m \in AddsOf(rules[i], a.name) : m <= k
              /\ \A j \in Counted : AddsOf(rules[j], a.name) # {} => j <= i
        BY <2>4 DEF IsAdd
      <4>3. PICK j \in Counted : \E l \in AddsOf(rules[j], a.name) :
              /\ rules[j].adds[l] = adds[a.name]
              /\ \A m \in AddsOf(rules[j], a.name) : m <= l
              /\ \A h \in Counted : AddsOf(rules[h], a.name) # {} => h <= j
        BY <4>1 DEF IsAdd
      <4>4. i = j
        <5>1. i <= j /\ j <= i
          BY <4>2, <4>3
        <5>2. i \in Nat /\ j \in Nat
          BY DEF IInv, TypeOK, Counted, Matching
        <5> QED BY <5>1, <5>2
      <4>5. PICK k \in AddsOf(rules[i], a.name) :
              rules[i].adds[k] = a /\ \A m \in AddsOf(rules[i], a.name) : m <= k
        BY <4>2
      <4>6. PICK l \in AddsOf(rules[i], a.name) :
              rules[i].adds[l] = adds[a.name] /\ \A m \in AddsOf(rules[i], a.name) : m <= l
        BY <4>3, <4>4
      <4>7. k = l
        <5>1. k <= l /\ l <= k
          BY <4>5, <4>6
        <5>2. rules[i] \in RuleSet
          BY DEF IInv, TypeOK, Counted, Matching
        <5>3. rules[i].adds \in Seq(Add)
          BY <5>2, RulesAssumption
        <5>4. k \in Nat /\ l \in Nat
          BY <5>3 DEF AddsOf
        <5> QED BY <5>1, <5>4
      <4> QED BY <4>5, <4>6, <4>7
    <3> QED BY <2>1, <3>1, <3>2, <3>3 DEF ValuesOf
  <2>5. \A j, k \in DOMAIN result.addList :
          result.addList[j].name = result.addList[k].name => j = k
    BY <2>2, <2>3
  <2>6. \A a \in Add : InList(a, result.addList) <=> IsAdd(Counted, a.name, a)
    BY <2>2, <2>3, <2>4 DEF InList
  <2> QED BY <2>5, <2>6
<1> QED BY <1>1, ProcessInvariance, PTL

\* URLs are unique and the first script injected under a URL is the one kept.
THEOREM FirstScriptWinsHolds == Spec => []FirstScriptWins
<1>1. IInv => FirstScriptWins
  <2> SUFFICES ASSUME IInv, phase = "done" PROVE
        /\ \A j, k \in DOMAIN result.scriptList :
            result.scriptList[j].url = result.scriptList[k].url => j = k
        /\ \A a \in Script : InList(a, result.scriptList) <=> IsScript(Counted, a.url, a)
    BY DEF FirstScriptWins, IsScript
  <2>1. /\ scripts \in [Urls -> Script \cup {Nil}] /\ ScriptsRight(Counted)
        /\ result.scriptList \in Slices(scripts)
    BY DEF IInv, TypeOK, Ended, SlicesRight
  <2>2. /\ \A v \in ValuesOf(scripts) : InList(v, result.scriptList)
        /\ \A k \in DOMAIN result.scriptList : result.scriptList[k] \in ValuesOf(scripts)
        /\ \A j, k \in DOMAIN result.scriptList :
            result.scriptList[j] = result.scriptList[k] => j = k
    BY <2>1 DEF Slices, InList
  <2>3. \A v \in ValuesOf(scripts) :
          v \in Script /\ v = scripts[v.url] /\ IsScript(Counted, v.url, v)
    BY <2>1 DEF ValuesOf, ScriptsRight
  <2>4. ASSUME NEW a \in Script, IsScript(Counted, a.url, a) PROVE a \in ValuesOf(scripts)
    <3>1. a.url \in Urls
      BY DEF Script
    <3>2. scripts[a.url] # Nil
      BY <2>1, <2>4, <3>1 DEF ScriptsRight, IsScript
    <3>3. scripts[a.url] = a
      <4>1. IsScript(Counted, a.url, scripts[a.url])
        BY <2>1, <3>1, <3>2 DEF ScriptsRight
      <4>2. PICK i \in Counted : \E k \in ScriptsOf(rules[i], a.url) :
              /\ rules[i].scripts[k] = a
              /\ \A m \in ScriptsOf(rules[i], a.url) : k <= m
              /\ \A j \in Counted : ScriptsOf(rules[j], a.url) # {} => i <= j
        BY <2>4 DEF IsScript
      <4>3. PICK j \in Counted : \E l \in ScriptsOf(rules[j], a.url) :
              /\ rules[j].scripts[l] = scripts[a.url]
              /\ \A m \in ScriptsOf(rules[j], a.url) : l <= m
              /\ \A h \in Counted : ScriptsOf(rules[h], a.url) # {} => j <= h
        BY <4>1 DEF IsScript
      <4>4. i = j
        <5>1. i <= j /\ j <= i
          BY <4>2, <4>3
        <5>2. i \in Nat /\ j \in Nat
          BY DEF IInv, TypeOK, Counted, Matching
        <5> QED BY <5>1, <5>2
      <4>5. PICK k \in ScriptsOf(rules[i], a.url) :
              rules[i].scripts[k] = a /\ \A m \in ScriptsOf(rules[i], a.url) : k <= m
        BY <4>2
      <4>6. PICK l \in ScriptsOf(rules[i], a.url) :
              rules[i].scripts[l] = scripts[a.url] /\ \A m \in ScriptsOf(rules[i], a.url) : l <= m
        BY <4>3, <4>4
      <4>7. k = l
        <5>1. k <= l /\ l <= k
          BY <4>5, <4>6
        <5>2. rules[i] \in RuleSet
          BY DEF IInv, TypeOK, Counted, Matching
        <5>3. rules[i].scripts \in Seq(Script)
          BY <5>2, RulesAssumption
        <5>4. k \in Nat /\ l \in Nat
          BY <5>3 DEF ScriptsOf
        <5> QED BY <5>1, <5>4
      <4> QED BY <4>5, <4>6, <4>7
    <3> QED BY <2>1, <3>1, <3>2, <3>3 DEF ValuesOf
  <2>5. \A j, k \in DOMAIN result.scriptList :
          result.scriptList[j].url = result.scriptList[k].url => j = k
    BY <2>2, <2>3
  <2>6. \A a \in Script : InList(a, result.scriptList) <=> IsScript(Counted, a.url, a)
    BY <2>2, <2>3, <2>4 DEF InList
  <2> QED BY <2>5, <2>6
<1> QED BY <1>1, ProcessInvariance, PTL

\* Rules for networks see the sender unless a trusted proxy speaks for another.
THEOREM SenderDecidesHolds == Spec => []SenderDecides
<1>1. SenderDecides
  <2> SUFFICES ASSUME NEW i \in Matching, rules[i].condition.cidrs # {}, req.remote \notin Trusted
               PROVE  \E n \in rules[i].condition.cidrs : req.remote \in n
    BY DEF SenderDecides
  <2>1. GetClientIP(req, FALSE) = req.remote
    BY DEF GetClientIP, FromProxy
  <2> QED BY <2>1 DEF Matching, Applies, Matches
<1> QED BY <1>1, PTL
=============================================================================
