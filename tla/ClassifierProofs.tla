-------------------------- MODULE ClassifierProofs --------------------------
(***************************************************************************)
(* What is proved of the two classifiers: of the API's, for every way of   *)
(* writing types, every number of arguments and every package, that a step *)
(* it does not rate breaking, stale or unknown breaks none of the          *)
(* package's users; of the surfaces', for every CLI, schema and action,    *)
(* that a step it does not rate breaking leaves every call and every       *)
(* document as good as it was.                                             *)
(***************************************************************************)
EXTENDS ApiClassifier, SurfaceClassifier, TLAPS

-----------------------------------------------------------------------------
(* The API.                                                                *)

\* All that is needed of packages once they are normalized.
Declared(members) ==
  /\ \A r \in DOMAIN members : members[r] \in Member
  /\ \A r, s \in DOMAIN members :
       r # s /\ members[r].kind \in Overloadable /\ groupKey(members[r]) = groupKey(members[s])
         => members[r].parameters # members[s].parameters

Comparable(old, new) ==
  /\ Declared(old) /\ Declared(new)
  /\ \A r \in DOMAIN old \cap DOMAIN new : groupKey(old[r]) = groupKey(new[r])

Rated(changes) == \A c \in changes : c.compatibility \in Compatibility
Harmless(changes) == \A c \in changes : c.compatibility = "compatible"

\* Normalizing leaves some of the declarations, each as it is.
LEMMA NormalizedComparable ==
  ASSUME NEW history \in Histories, NEW p \in history, NEW q \in history, NEW threshold
  PROVE  Comparable(normalizeApiPackage(p, threshold), normalizeApiPackage(q, threshold))
<1>1. ASSUME NEW package
      PROVE  LET normal == normalizeApiPackage(package, threshold)
             IN /\ DOMAIN normal \subseteq DOMAIN package
                /\ \A r \in DOMAIN normal : normal[r] = package[r]
  BY DEF normalizeApiPackage
<1> DEFINE old == normalizeApiPackage(p, threshold)
           new == normalizeApiPackage(q, threshold)
<1>2. DOMAIN old \subseteq DOMAIN p /\ \A r \in DOMAIN old : old[r] = p[r]
  BY <1>1
<1>3. DOMAIN new \subseteq DOMAIN q /\ \A r \in DOMAIN new : new[r] = q[r]
  BY <1>1
<1> HIDE DEF old, new
<1>4. Declared(old)
  BY <1>2, HistoriesAssumption DEF Declared
<1>5. Declared(new)
  BY <1>3, HistoriesAssumption DEF Declared
<1>6. \A r \in DOMAIN old \cap DOMAIN new : groupKey(old[r]) = groupKey(new[r])
  BY <1>2, <1>3, HistoriesAssumption
<1> QED BY <1>4, <1>5, <1>6 DEF Comparable, old, new

-----------------------------------------------------------------------------
(* Ratings.                                                                *)

\* Nothing is worse than the worst.
LEMMA WorstIsWorst ==
  ASSUME NEW changes, Rated(changes), worst(changes) \in {"unchanged", "compatible", "widening"}
  PROVE  Harmless(changes)
<1> DEFINE ratings == {"unchanged"} \cup {c.compatibility : c \in changes}
           Worst(c) == \A d \in ratings : IMPACT_RANK[c] >= IMPACT_RANK[d]
<1>1. ratings \subseteq {"unchanged", "compatible", "unknown", "breaking"}
  BY DEF Rated, Compatibility
<1>2. /\ IMPACT_RANK["unchanged"] = 0 /\ IMPACT_RANK["compatible"] = 1
      /\ IMPACT_RANK["unknown"] = 2 /\ IMPACT_RANK["breaking"] = 3
  BY DEF IMPACT_RANK
<1>3. "unchanged" \in ratings
  OBVIOUS
<1>4. worst(changes) = CHOOSE c \in ratings : Worst(c)
  BY DEF worst
<1> HIDE DEF ratings
<1>5. \E c \in ratings : Worst(c)
  <2>1. CASE "breaking" \in ratings
    BY <1>1, <1>2, <2>1
  <2>2. CASE "breaking" \notin ratings /\ "unknown" \in ratings
    BY <1>1, <1>2, <2>2
  <2>3. CASE ratings \subseteq {"unchanged", "compatible"}
    BY <1>2, <1>3, <2>3
  <2> QED BY <1>1, <2>1, <2>2, <2>3
<1>6. worst(changes) \in ratings /\ Worst(worst(changes))
  BY <1>4, <1>5
<1>7. ratings \subseteq {"unchanged", "compatible"}
  BY <1>1, <1>2, <1>6
<1> QED BY <1>7 DEF ratings, Rated, Harmless, Compatibility

\* What is tightened or relaxed gets a rating.
LEMMA RelaxedRated ==
  ASSUME NEW kind, NEW yes
  PROVE  relaxed(kind, yes).compatibility \in Compatibility
BY DEF relaxed, change, Compatibility

\* A type that was written anew gets a rating.
LEMMA RetypedRated ==
  ASSUME NEW kind, NEW old, NEW new, NEW direction
  PROVE  Rated(retyped(kind, old, new, direction))
<1>1. checkAssignability(old, new, direction) \in Compatibility
  BY DEF checkAssignability, Compatibility
<1> QED BY <1>1 DEF Rated, retyped, change

\* Two lists of parameters get ratings.
LEMMA ParametersRated ==
  ASSUME NEW was, NEW now
  PROVE  Rated(compareParameters(was, now))
BY RelaxedRated, RetypedRated DEF Rated, compareParameters, change, Compatibility

\* What is said about two declarations gets ratings.
LEMMA MetadataRated ==
  ASSUME NEW was, NEW now
  PROVE  Rated(compareMetadata(was, now))
BY RelaxedRated DEF Rated, compareMetadata, change, Compatibility

\* Two declarations get ratings.
LEMMA MatchedRated ==
  ASSUME NEW was, NEW now
  PROVE  Rated(compareMatchedMember(was, now))
<1>1. Rated(compareEnumAndAlias(was, now))
  BY RetypedRated DEF Rated, compareEnumAndAlias, change, Compatibility
<1>2. Rated(compareProperty(was, now))
  BY RelaxedRated, RetypedRated DEF Rated, compareProperty
<1>3. Rated(compareVariable(was, now))
  BY RetypedRated DEF Rated, compareVariable
<1>4. Rated(compareSignature(was, now))
  BY RetypedRated, ParametersRated DEF Rated, compareSignature
<1> QED BY <1>1, <1>2, <1>3, <1>4, MetadataRated DEF Rated, compareMatchedMember

\* Two sets of overloads get ratings.
LEMMA OverloadSetRated ==
  ASSUME NEW old, NEW new, NEW key
  PROVE  Rated(classifyOverloadSet(old, new, key))
<1>1. ASSUME NEW was, NEW now
      PROVE  Rated(compareOverloadSets(old, new, was, now))
  BY MatchedRated DEF Rated, compareOverloadSets, change, Compatibility
<1>2. Rated({change("export-added", "compatible")}) /\ Rated({change("export-removed", "breaking")})
  BY DEF Rated, change, Compatibility
<1> DEFINE was == groupOverloads(old, key)
           now == groupOverloads(new, key)
           single == (\A r, s \in was : r = s) /\ (\A r, s \in now : r = s)
           each == UNION {compareMatchedMember(old[r], new[s]) : r \in was, s \in now}
<1>4. Rated(each)
  BY MatchedRated DEF Rated
<1>5. Rated(compareOverloadSets(old, new, was, now))
  BY <1>1
<1>6. CASE was = {}
  BY <1>2, <1>6 DEF classifyOverloadSet
<1>7. CASE was # {} /\ now = {}
  BY <1>2, <1>7 DEF classifyOverloadSet
<1>8. CASE was # {} /\ now # {} /\ single
  BY <1>4, <1>8 DEF classifyOverloadSet
<1>9. CASE was # {} /\ now # {} /\ ~single
  BY <1>5, <1>9 DEF classifyOverloadSet
<1> QED BY <1>6, <1>7, <1>8, <1>9

\* Two packages get ratings.
LEMMA ChangesRated ==
  ASSUME NEW old, NEW new
  PROVE  Rated(classifyContractChanges(old, new))
<1>1. ASSUME NEW m
      PROVE  added(old, m).compatibility \in Compatibility
  BY RelaxedRated DEF added, change, Compatibility
<1> DEFINE others(members) == {r \in DOMAIN members : members[r].kind \notin Overloadable}
<1>2. Rated(UNION {classifyOverloadSet(old, new, key) : key \in OverloadKeys(old) \cup OverloadKeys(new)})
  BY OverloadSetRated DEF Rated
<1>3. Rated({added(old, new[r]) : r \in others(new) \ others(old)})
  BY <1>1 DEF Rated
<1>4. Rated(UNION {compareMatchedMember(old[r], new[r]) : r \in others(new) \cap others(old)})
  BY MatchedRated DEF Rated
<1>5. Rated({change("removed", "breaking") : r \in others(old) \ others(new)})
  BY DEF Rated, change, Compatibility
<1> QED BY <1>2, <1>3, <1>4, <1>5 DEF Rated, classifyContractChanges

-----------------------------------------------------------------------------
(* What a harmless comparison says of the two declarations.                *)

\* A type fits the other as the direction asks.
LEMMA RetypedHarmless ==
  ASSUME NEW kind, NEW old \in Texts, NEW new \in Texts, NEW direction,
         Harmless(retyped(kind, old, new, direction))
  PROVE  /\ direction \in {"covariant", "invariant"} => Denotes[new] \subseteq Denotes[old]
         /\ direction \in {"contravariant", "invariant"} => Denotes[old] \subseteq Denotes[new]
<1>1. CASE old = new
  BY <1>1
<1>2. CASE old # new
  <2>1. checkAssignability(old, new, direction) = "compatible"
    BY <1>2 DEF Harmless, retyped, change
  <2> DEFINE probes == (IF direction # "covariant" THEN {<<old, new>>} ELSE {})
                         \cup (IF direction # "contravariant" THEN {<<new, old>>} ELSE {})
  <2>2. \A p \in probes : probeAssignability(p[1], p[2]) = "compatible"
    BY <2>1 DEF checkAssignability
  <2>3. direction # "covariant" => <<old, new>> \in probes
    OBVIOUS
  <2>4. direction # "contravariant" => <<new, old>> \in probes
    OBVIOUS
  <2> HIDE DEF probes
  <2>5. direction # "covariant" => probeAssignability(old, new) = "compatible"
    BY <2>2, <2>3
  <2>6. direction # "contravariant" => probeAssignability(new, old) = "compatible"
    BY <2>2, <2>4
  <2> QED BY <2>5, <2>6 DEF probeAssignability
<1> QED BY <1>1, <1>2

\* What a function took it takes.
LEMMA ParametersHarmless ==
  ASSUME NEW m \in Member, NEW n \in Member, NEW call \in Calls,
         Harmless(compareParameters(m.parameters, n.parameters)), accepts(m, call)
  PROVE  accepts(n, call)
<1> DEFINE was == m.parameters
           now == n.parameters
<1>1. was \in Seq(Parameter) /\ now \in Seq(Parameter)
  BY DEF Member
<1>2. Len(was) \in Nat /\ Len(now) \in Nat /\ Len(call) \in Nat
  BY <1>1 DEF Calls
<1>3. Len(was) <= Len(now)
  <2>1. SUFFICES ASSUME Len(was) > Len(now) PROVE FALSE
    BY <1>2
  <2>2. change("parameter-removed", "breaking") \in compareParameters(was, now)
    BY <1>2, <2>1 DEF compareParameters
  <2> QED BY <2>2 DEF Harmless, change
<1>4. ASSUME NEW i \in 1 .. Len(now), i > Len(was)
      PROVE  now[i].optional
  <2>1. relaxed("parameter-added", now[i].optional) \in compareParameters(was, now)
    BY <1>4 DEF compareParameters
  <2> QED BY <2>1 DEF Harmless, relaxed, change
<1>5. ASSUME NEW i \in 1 .. Len(was), was[i].optional
      PROVE  now[i].optional
  <2>1. was[i] \in Parameter /\ now[i] \in Parameter /\ i \in 1 .. Len(now)
    BY <1>1, <1>2, <1>3
  <2>2. was[i].optional # now[i].optional =>
          relaxed("parameter-optionality-changed", now[i].optional) \in compareParameters(was, now)
    BY <1>2, <2>1 DEF compareParameters
  <2>3. was[i].optional # now[i].optional => now[i].optional
    BY <2>2 DEF Harmless, relaxed, change
  <2> QED BY <1>5, <2>3
<1>6. ASSUME NEW i \in 1 .. Len(was)
      PROVE  Denotes[was[i].text] \subseteq Denotes[now[i].text]
  <2>1. was[i] \in Parameter /\ now[i] \in Parameter /\ i \in 1 .. Len(now)
    BY <1>1, <1>2, <1>3
  <2>2. retyped("parameter-type-changed", was[i].text, now[i].text, "contravariant")
          \subseteq compareParameters(was, now)
    BY <1>2, <2>1 DEF compareParameters
  <2>3. Harmless(retyped("parameter-type-changed", was[i].text, now[i].text, "contravariant"))
    BY <2>2 DEF Harmless
  <2>4. was[i].text \in Texts /\ now[i].text \in Texts
    BY <2>1 DEF Parameter
  <2> DEFINE a == was[i].text
             b == now[i].text
  <2> HIDE DEF a, b
  <2>5. a \in Texts /\ b \in Texts /\ Harmless(retyped("parameter-type-changed", a, b, "contravariant"))
    BY <2>3, <2>4 DEF a, b
  <2>6. Denotes[a] \subseteq Denotes[b]
    BY <2>5, RetypedHarmless
  <2> QED BY <2>6 DEF a, b
<1>7. Len(call) <= Len(was)
  BY DEF accepts
<1>8. ASSUME NEW i \in 1 .. Len(now)
      PROVE  IF i <= Len(call) THEN call[i] \in Denotes[now[i].text] ELSE now[i].optional
  <2>1. CASE i <= Len(call)
    <3>1. i \in 1 .. Len(was)
      BY <1>2, <1>7, <2>1
    <3>2. call[i] \in Denotes[was[i].text]
      BY <2>1, <3>1 DEF accepts
    <3> QED BY <1>6, <2>1, <3>1, <3>2
  <2>2. CASE i > Len(call) /\ i <= Len(was)
    <3>1. i \in 1 .. Len(was) /\ ~(i <= Len(call))
      BY <1>2, <2>2
    <3>2. was[i].optional
      BY <3>1 DEF accepts
    <3> QED BY <1>5, <3>1, <3>2
  <2>3. CASE i > Len(was)
    <3>1. ~(i <= Len(call))
      BY <1>2, <1>7, <2>3
    <3> QED BY <1>4, <2>3, <3>1
  <2> QED BY <1>2, <2>1, <2>2, <2>3
<1> QED BY <1>2, <1>3, <1>7, <1>8 DEF accepts

\* A function that took a call takes it, and returns no more.
LEMMA SignatureHarmless ==
  ASSUME NEW m \in Member, NEW n \in Member, n.kind \in Overloadable,
         Harmless(compareMatchedMember(m, n))
  PROVE  /\ \A call \in Calls : accepts(m, call) => accepts(n, call)
         /\ Denotes[n.text] \subseteq Denotes[m.text]
<1>1. compareSignature(m, n) \subseteq compareMatchedMember(m, n)
  BY DEF compareMatchedMember
<1>2. /\ Harmless(compareParameters(m.parameters, n.parameters))
      /\ Harmless(retyped("return-type-changed", m.text, n.text, "covariant"))
  BY <1>1 DEF Harmless, compareSignature
<1>3. m.text \in Texts /\ n.text \in Texts
  BY DEF Member
<1>4. Denotes[n.text] \subseteq Denotes[m.text]
  BY <1>2, <1>3, RetypedHarmless
<1> QED BY <1>2, <1>4, ParametersHarmless

-----------------------------------------------------------------------------
(* What a harmless comparison says of the two packages.                    *)

\* Every overload of the old package has one in the new that does for it.
LEMMA OverloadsHarmless ==
  ASSUME NEW old, NEW new, Comparable(old, new), Harmless(classifyContractChanges(old, new))
  PROVE  CallsKept(old, new)
<1> SUFFICES ASSUME NEW r \in DOMAIN old, old[r].kind \in Overloadable,
                    NEW call \in Calls, accepts(old[r], call)
             PROVE  \E s \in DOMAIN new : /\ groupKey(new[s]) = groupKey(old[r])
                                          /\ accepts(new[s], call)
                                          /\ Denotes[new[s].text] \subseteq Denotes[old[r].text]
  BY DEF CallsKept
<1> DEFINE key == groupKey(old[r])
           was == groupOverloads(old, key)
           now == groupOverloads(new, key)
<1>1. r \in was /\ key \in OverloadKeys(old)
  BY DEF groupOverloads, OverloadKeys
<1>2. Harmless(classifyOverloadSet(old, new, key))
  BY <1>1 DEF Harmless, classifyContractChanges
<1>3. old[r] \in Member /\ (\A s \in DOMAIN new : new[s] \in Member)
  BY DEF Comparable, Declared
<1>4. \A s \in now : s \in DOMAIN new /\ new[s].kind \in Overloadable /\ groupKey(new[s]) = key
  BY DEF groupOverloads
<1>5. SUFFICES \E s \in now : Harmless(compareMatchedMember(old[r], new[s]))
  BY <1>3, <1>4, SignatureHarmless
<1> HIDE DEF was, now, key
<1>6. now # {}
  <2>1. now = {} => change("export-removed", "breaking") \in classifyOverloadSet(old, new, key)
    BY <1>1 DEF classifyOverloadSet, was, now
  <2> QED BY <1>2, <2>1 DEF Harmless, change
<1> DEFINE single == (\A x, y \in was : x = y) /\ (\A x, y \in now : x = y)
<1>7. CASE single
  <2>1. PICK s \in now : TRUE
    BY <1>6
  <2>2. compareMatchedMember(old[r], new[s]) \subseteq classifyOverloadSet(old, new, key)
    BY <1>1, <1>6, <1>7 DEF classifyOverloadSet, was, now
  <2> QED BY <1>2, <2>2 DEF Harmless
<1>8. CASE ~single
  <2> DEFINE olds == bySignature(old, was)
             news == bySignature(new, now)
             matched == {s \in news : new[s].parameters = old[r].parameters}
  <2>1. Harmless(compareOverloadSets(old, new, was, now))
    BY <1>1, <1>2, <1>6, <1>8 DEF classifyOverloadSet, was, now
  <2>2. r \in olds
    <3>1. \A s \in was : old[s].parameters = old[r].parameters => s = r
      BY DEF Comparable, Declared, was, groupOverloads, key
    <3>2. old[r].overload <= old[r].overload
      BY <1>3 DEF Member
    <3> QED BY <1>1, <3>1, <3>2 DEF bySignature
  <2>3. matched # {}
    <3>1. matched = {} => change("overload-removed", "breaking") \in compareOverloadSets(old, new, was, now)
      BY <2>2 DEF compareOverloadSets
    <3> QED BY <2>1, <3>1 DEF Harmless, change
  <2>4. PICK s \in matched : TRUE
    BY <2>3
  <2>5. compareMatchedMember(old[r], new[s]) \subseteq compareOverloadSets(old, new, was, now)
    BY <2>2, <2>4 DEF compareOverloadSets
  <2>6. s \in now
    BY <2>4 DEF bySignature
  <2> QED BY <2>1, <2>5, <2>6 DEF Harmless
<1> QED BY <1>7, <1>8

\* What had a name is compared with what has it.
LEMMA OthersMatched ==
  ASSUME NEW old, NEW new, Comparable(old, new), Harmless(classifyContractChanges(old, new)),
         NEW r \in DOMAIN old, old[r].kind \notin Overloadable
  PROVE  /\ r \in DOMAIN new
         /\ old[r] \in Member /\ new[r] \in Member
         /\ old[r].kind = new[r].kind /\ old[r].parent = new[r].parent
         /\ Harmless(compareMatchedMember(old[r], new[r]))
<1> DEFINE others(members) == {s \in DOMAIN members : members[s].kind \notin Overloadable}
<1>1. r \in others(new)
  <2>1. r \notin others(new) => change("removed", "breaking") \in classifyContractChanges(old, new)
    BY DEF classifyContractChanges
  <2> QED BY <2>1 DEF Harmless, change
<1>2. old[r] \in Member /\ new[r] \in Member /\ groupKey(old[r]) = groupKey(new[r])
  BY <1>1 DEF Comparable, Declared
<1>3. old[r].kind = new[r].kind /\ old[r].parent = new[r].parent
  BY <1>2 DEF groupKey
<1>4. compareMatchedMember(old[r], new[r]) \subseteq classifyContractChanges(old, new)
  BY <1>1 DEF classifyContractChanges
<1> QED BY <1>1, <1>2, <1>3, <1>4 DEF Harmless

\* What it reads as, and what may be written to it, stays.
LEMMA NamesHarmless ==
  ASSUME NEW old, NEW new, Comparable(old, new), Harmless(classifyContractChanges(old, new))
  PROVE  NamesKept(old, new)
<1> SUFFICES ASSUME NEW r \in DOMAIN old, old[r].kind \notin Overloadable
             PROVE  /\ r \in DOMAIN new
                    /\ old[r].kind \in HasText /\ old[r].optional = new[r].optional =>
                         Denotes[new[r].text] \subseteq Denotes[old[r].text]
                    /\ old[r].kind \in HasText /\ ~new[r].readonly =>
                         Denotes[old[r].text] \subseteq Denotes[new[r].text]
  BY DEF NamesKept
<1> DEFINE m == old[r]
           n == new[r]
<1>1. /\ r \in DOMAIN new /\ m \in Member /\ n \in Member /\ m.kind = n.kind
      /\ Harmless(compareMatchedMember(m, n))
  BY OthersMatched
<1>2. m.text \in Texts /\ n.text \in Texts
  BY <1>1 DEF Member
<1> DEFINE a == m.text
           b == n.text
           direction == IF n.readonly THEN "covariant" ELSE "invariant"
           Kept == (Denotes[b] \subseteq Denotes[a]) /\ (~n.readonly => Denotes[a] \subseteq Denotes[b])
<1>3. CASE n.kind = "EnumMember"
  <2>1. a # b => change("enum-member-changed", "breaking") \in compareMatchedMember(m, n)
    BY <1>3 DEF compareMatchedMember, compareEnumAndAlias
  <2>2. a = b
    BY <1>1, <2>1 DEF Harmless, change
  <2> QED BY <1>1, <2>2
<1>4. CASE n.kind = "TypeAlias"
  <2>1. Harmless(retyped("type-alias-changed", a, b, "invariant"))
    BY <1>1, <1>4 DEF Harmless, compareMatchedMember, compareEnumAndAlias
  <2> HIDE DEF a, b
  <2>2. a \in Texts /\ b \in Texts
    BY <1>2 DEF a, b
  <2>3. Denotes[b] \subseteq Denotes[a] /\ Denotes[a] \subseteq Denotes[b]
    BY <2>1, <2>2, RetypedHarmless
  <2> QED BY <1>1, <2>3 DEF a, b
<1>5. CASE n.kind \in {"PropertySignature", "Variable"}
  <2>1. Harmless(retyped("property-type-changed", a, b, direction))
    BY <1>1, <1>5 DEF Harmless, compareMatchedMember, compareProperty, compareVariable
  <2> HIDE DEF a, b
  <2>2. a \in Texts /\ b \in Texts
    BY <1>2 DEF a, b
  <2>3. direction \in {"covariant", "invariant"}
    OBVIOUS
  <2>4. direction = "invariant" \/ n.readonly
    OBVIOUS
  <2> HIDE DEF direction
  <2>5. Denotes[b] \subseteq Denotes[a] /\ (direction = "invariant" => Denotes[a] \subseteq Denotes[b])
    BY <2>1, <2>2, <2>3, RetypedHarmless
  <2> QED BY <1>1, <2>4, <2>5 DEF a, b
<1>6. CASE n.kind \notin {"EnumMember", "TypeAlias", "PropertySignature", "Variable"}
  BY <1>1, <1>6 DEF HasText
<1> QED BY <1>3, <1>4, <1>5, <1>6

\* A property an object had to have is one it had to have before.
LEMMA ObjectsHarmless ==
  ASSUME NEW old, NEW new, Comparable(old, new), Harmless(classifyContractChanges(old, new))
  PROVE  ObjectsKept(old, new)
<1> SUFFICES ASSUME NEW i \in DOMAIN old, old[i].kind = "Interface",
                    NEW filled \in SUBSET properties(old, i), NEW object \in [filled -> Values],
                    NEW aside, aside = {r \in filled \cap DOMAIN new : new[r].readonly},
                    fits(object, old, i, aside)
             PROVE  i \in DOMAIN new /\ fits(object, new, i, aside)
  BY DEF ObjectsKept
<1>1. i \in DOMAIN new
  BY OthersMatched DEF Overloadable
<1>2. ASSUME NEW r \in properties(new, i), r \in filled, r \notin aside
      PROVE  object[r] \in Denotes[new[r].text]
  <2>1. r \in properties(old, i) /\ ~new[r].readonly
    BY <1>2 DEF properties, childrenOf
  <2>2. object[r] \in Denotes[old[r].text]
    BY <1>2, <2>1 DEF fits
  <2>3. r \in DOMAIN old /\ old[r].kind = "PropertySignature"
    BY <2>1 DEF properties, childrenOf
  <2>4. old[r].kind \notin Overloadable /\ old[r].kind \in HasText
    BY <2>3 DEF Overloadable, HasText
  <2>5. Denotes[old[r].text] \subseteq Denotes[new[r].text]
    BY <2>1, <2>3, <2>4, NamesHarmless DEF NamesKept
  <2> QED BY <2>2, <2>5
<1>3. ASSUME NEW r \in properties(new, i), r \notin filled
      PROVE  new[r].optional
  <2>1. r \in DOMAIN new /\ new[r].kind = "PropertySignature" /\ new[r].parent = i
    BY DEF properties, childrenOf
  <2>2. new[r].kind \notin Overloadable
    BY <2>1 DEF Overloadable
  <2>3. CASE r \in DOMAIN old
    <3>1. groupKey(old[r]) = groupKey(new[r])
      BY <2>1, <2>3 DEF Comparable
    <3>2. old[r].kind = "PropertySignature" /\ old[r].parent = i
      BY <2>1, <3>1 DEF groupKey
    <3>3. old[r].optional
      BY <1>3, <2>3, <3>2 DEF fits, properties, childrenOf
    <3>4. Harmless(compareMatchedMember(old[r], new[r])) /\ old[r] \in Member /\ new[r] \in Member
      BY <2>2, <2>3, <3>2, OthersMatched DEF Overloadable
    <3>5. ~new[r].optional => change("property-optionality-changed", "breaking") \in compareMatchedMember(old[r], new[r])
      BY <2>1, <3>3, <3>4 DEF compareMatchedMember, compareProperty, relaxed, Member
    <3> QED BY <3>4, <3>5 DEF Harmless, change
  <2>4. CASE r \notin DOMAIN old
    <3>1. added(old, new[r]) \in classifyContractChanges(old, new)
      BY <2>1, <2>2, <2>4 DEF classifyContractChanges
    <3>2. ~new[r].optional => added(old, new[r]) = change("property-added", "breaking")
      BY <2>1 DEF added, relaxed
    <3> QED BY <3>1, <3>2 DEF Harmless, change
  <2> QED BY <2>3, <2>4
<1>4. DOMAIN object = filled
  OBVIOUS
<1> QED BY <1>1, <1>2, <1>3, <1>4 DEF fits

-----------------------------------------------------------------------------
(* The classifier.                                                         *)

\* A step between two versions of any package, whatever it declares and however
\* its types are written, that is not rated breaking, stale or unknown breaks no
\* caller, no reader and no builder.
THEOREM CompatibleKeepsUsersCorrect == ApiSpec => CompatibleKeepsUsers
<1> DEFINE Kept ==
      \A threshold \in {"public", "beta"} :
        classifyTarget(api, api', threshold) \in {"unchanged", "compatible", "widening"} =>
          UsersKept(normalizeApiPackage(api, threshold), normalizeApiPackage(api', threshold))
<1>1. [ApiChanges]_api => [Kept]_api
  <2> SUFFICES ASSUME ApiChanges, NEW threshold \in {"public", "beta"},
                      classifyTarget(api, api', threshold) \in {"unchanged", "compatible", "widening"}
               PROVE  UsersKept(normalizeApiPackage(api, threshold), normalizeApiPackage(api', threshold))
    OBVIOUS
  <2> DEFINE old == normalizeApiPackage(api, threshold)
             new == normalizeApiPackage(api', threshold)
             changes == classifyContractChanges(old, new)
  <2>1. Comparable(old, new)
    BY NormalizedComparable DEF ApiChanges
  <2>2. worst(changes) \in {"unchanged", "compatible", "widening"}
    BY DEF classifyTarget
  <2>3. Harmless(changes)
    BY <2>2, ChangesRated, WorstIsWorst
  <2> HIDE DEF old, new, changes
  <2>4. CallsKept(old, new) /\ NamesKept(old, new) /\ ObjectsKept(old, new)
    BY <2>1, <2>3, OverloadsHarmless, NamesHarmless, ObjectsHarmless DEF changes
  <2> QED BY <2>4 DEF UsersKept, old, new
<1> QED BY <1>1, PTL DEF ApiSpec, CompatibleKeepsUsers

-----------------------------------------------------------------------------
(* The surfaces.                                                           *)

Unbroken(changes) == \A c \in changes : c.impact # "breaking"

SchemaOf(schema) == \A path \in DOMAIN schema : schema[path] \in Leaf

\* A change that breaks is rated so.
LEMMA BreaksBreak == \A kind : breaks(kind).impact = "breaking"
BY DEF breaks, surfaceChange

\* The entries flattenSchema leaves of a leaf that is no documentation.
LEMMA EntriesOf ==
  ASSUME NEW schema, NEW path \in DOMAIN schema, ~documents(path)
  PROVE  /\ schema[path].is = "scalar" => <<path, NoMember>> \in DOMAIN flattenSchema(schema).structure
         /\ schema[path].is = "list" =>
              \A m \in schema[path].holds : <<path, m>> \in DOMAIN flattenSchema(schema).structure
BY DEF flattenSchema

\* The leaf an entry comes from.
LEMMA LeafOf ==
  ASSUME NEW schema, SchemaOf(schema), NEW path, NEW m,
         <<path, m>> \in DOMAIN flattenSchema(schema).structure
  PROVE  /\ path \in DOMAIN schema
         /\ m = NoMember => flattenSchema(schema).structure[<<path, m>>] = schema[path]
         /\ m # NoMember => m \in schema[path].holds
<1> DEFINE structural == {p \in DOMAIN schema : ~documents(p)}
           of(is) == {p \in structural : schema[p].is = is}
           single == {<<p, NoMember>> : p \in {q \in of("list") : schema[q].holds = {}} \cup of("scalar")}
           each == UNION {{p} \X schema[p].holds : p \in of("list")}
           structure == [e \in single \cup each |-> IF e[2] = NoMember THEN schema[e[1]] ELSE e[2]]
<1>1. flattenSchema(schema).structure = structure
  BY DEF flattenSchema
<1>2. <<path, m>> \in single \cup each
  BY <1>1
<1>3. structure[<<path, m>>] = IF m = NoMember THEN schema[path] ELSE m
  BY <1>2
<1>4. CASE <<path, m>> \in single
  BY <1>1, <1>3, <1>4
<1>5. CASE <<path, m>> \in each
  BY <1>1, <1>3, <1>5
<1> QED BY <1>2, <1>4, <1>5

\* What a schema said of a path that is no documentation it says still.
LEMMA LeafKept ==
  ASSUME NEW before, NEW after, SchemaOf(before), SchemaOf(after),
         Unbroken(classifySchema(before, after)),
         NEW path \in DOMAIN before, ~documents(path), Last(path) # "required",
         before[path].holds # {}
  PROVE  path \in DOMAIN after /\ before[path].holds \subseteq after[path].holds
<1> DEFINE a == flattenSchema(before)
           b == flattenSchema(after)
           was == DOMAIN a.structure
           now == DOMAIN b.structure
<1>1. before[path] \in Leaf
  BY DEF SchemaOf
<1>2. before[path].is \in {"scalar", "list"}
  BY <1>1 DEF Leaf
<1>3. ASSUME NEW m, <<path, m>> \in was
      PROVE  <<path, m>> \in now
  <2>1. <<path, m>> \notin now => entryRemoved(<<path, m>>, b.structure) \in classifySchema(before, after)
    BY <1>3 DEF classifySchema
  <2>2. entryRemoved(<<path, m>>, b.structure).impact = "breaking"
    BY DEF entryRemoved, breaks, surfaceChange
  <2> QED BY <2>1, <2>2 DEF Unbroken
<1>4. CASE before[path].is = "scalar"
  <2>1. <<path, NoMember>> \in was \cap now
    BY <1>3, <1>4, EntriesOf
  <2>2. a.structure[<<path, NoMember>>] = b.structure[<<path, NoMember>>]
    <3>1. a.structure[<<path, NoMember>>] # b.structure[<<path, NoMember>>] =>
            breaks("schema-changed") \in classifySchema(before, after)
      BY <2>1 DEF classifySchema
    <3> QED BY <3>1 DEF Unbroken, breaks, surfaceChange
  <2> HIDE DEF a, b
  <2>3. before[path] = after[path] /\ path \in DOMAIN after
    BY <2>1, <2>2, LeafOf DEF a, b
  <2> QED BY <2>3
<1>5. CASE before[path].is = "list"
  <2>1. \A m \in before[path].holds : m # NoMember /\ <<path, m>> \in now
    BY <1>1, <1>3, <1>5, EntriesOf DEF Leaf
  <2>2. \A m \in before[path].holds : path \in DOMAIN after /\ m \in after[path].holds
    BY <2>1, LeafOf
  <2> QED BY <2>2
<1> QED BY <1>2, <1>4, <1>5

\* What a schema requires it required before.
LEMMA RequiredKept ==
  ASSUME NEW before, NEW after, SchemaOf(before), SchemaOf(after),
         Unbroken(classifySchema(before, after))
  PROVE  at(after, <<"required">>, {}) \subseteq at(before, <<"required">>, {})
<1> DEFINE path == <<"required">>
           a == flattenSchema(before)
           b == flattenSchema(after)
           was == DOMAIN a.structure
           now == DOMAIN b.structure
<1>1. SUFFICES ASSUME path \in DOMAIN after, after[path].holds # {}
               PROVE  path \in DOMAIN before /\ after[path].holds \subseteq before[path].holds
  BY DEF at
<1>2. after[path] \in Leaf
  BY <1>1 DEF SchemaOf
<1>3. after[path].is \in {"scalar", "list"}
  BY <1>1, <1>2 DEF Leaf
<1>4. ~documents(path)
  BY DEF documents, DOC_KEYS
<1>5. ASSUME NEW m, <<path, m>> \in now
      PROVE  <<path, m>> \in was
  <2>1. <<path, m>> \notin was => entryAdded(<<path, m>>, a.structure) \in classifySchema(before, after)
    BY <1>5 DEF classifySchema
  <2>2. propertyRoots(path) = {}
    BY DEF propertyRoots
  <2>3. ~unknownRoot(path, a.structure)
    BY <2>2 DEF unknownRoot
  <2>4. entryAdded(<<path, m>>, a.structure).impact = "breaking"
    BY <2>3 DEF entryAdded, breaks, surfaceChange
  <2> QED BY <2>1, <2>4 DEF Unbroken
<1>6. CASE after[path].is = "scalar"
  <2>1. <<path, NoMember>> \in was \cap now
    BY <1>1, <1>4, <1>5, <1>6, EntriesOf
  <2>2. a.structure[<<path, NoMember>>] = b.structure[<<path, NoMember>>]
    <3>1. a.structure[<<path, NoMember>>] # b.structure[<<path, NoMember>>] =>
            breaks("schema-changed") \in classifySchema(before, after)
      BY <2>1 DEF classifySchema
    <3> QED BY <3>1 DEF Unbroken, breaks, surfaceChange
  <2> HIDE DEF a, b, path
  <2>3. before[path] = after[path] /\ path \in DOMAIN before
    BY <2>1, <2>2, LeafOf DEF a, b
  <2> QED BY <2>3
<1>7. CASE after[path].is = "list"
  <2> HIDE DEF path
  <2>1. \A m \in after[path].holds : m # NoMember /\ <<path, m>> \in was
    BY <1>1, <1>2, <1>4, <1>5, <1>7, EntriesOf DEF Leaf
  <2>2. \A m \in after[path].holds : path \in DOMAIN before /\ m \in before[path].holds
    BY <2>1, LeafOf
  <2> QED BY <1>1, <2>2
<1> QED BY <1>3, <1>6, <1>7

\* A document of the properties a schema constrained stays valid.
LEMMA DocumentsKept ==
  ASSUME NEW before, NEW after, SchemaOf(before), SchemaOf(after),
         Unbroken(classifySchema(before, after)),
         NEW filled \in SUBSET constrained(before), NEW document \in [filled -> DocumentKinds],
         valid(document, before)
  PROVE  valid(document, after)
<1>1. at(after, <<"required">>, {}) \subseteq DOMAIN document
  BY RequiredKept DEF valid
<1>2. ASSUME NEW n \in filled
      PROVE  n \in named(after) /\ document[n] \in typesOf(after, n)
  <2> DEFINE path == <<"properties", n, "type">>
  <2>1. path \in DOMAIN before /\ n \in named(before)
    BY DEF constrained
  <2>2. document[n] \in before[path].holds
    BY <2>1 DEF valid, typesOf, at
  <2>3. ~documents(path)
    BY DEF documents, DOC_KEYS, NAME_MAP_KEYS
  <2>4. Last(path) # "required"
    BY DEF Last
  <2>5. path \in DOMAIN after /\ before[path].holds \subseteq after[path].holds
    BY <2>1, <2>2, <2>3, <2>4, LeafKept
  <2>6. n \in named(after)
    BY <2>5 DEF named
  <2> QED BY <2>2, <2>5, <2>6 DEF typesOf, at
<1> QED BY <1>1, <1>2 DEF valid

\* Every schema that was shipped is, and takes the documents it took.
LEMMA SchemasHarmless ==
  ASSUME NEW old, NEW new, Unbroken(classifySurface(old, new)),
         \A k \in DOMAIN old.schemas : SchemaOf(old.schemas[k]),
         \A k \in DOMAIN new.schemas : SchemaOf(new.schemas[k])
  PROVE  SchemasKept(old, new)
<1>1. ASSUME NEW k \in DOMAIN old.schemas
      PROVE  k \in DOMAIN new.schemas
  <2>1. k \notin DOMAIN new.schemas => breaks("removed") \in classifySurface(old, new)
    BY DEF classifySurface, wholes
  <2> QED BY <2>1 DEF Unbroken, breaks, surfaceChange
<1>2. ASSUME NEW k \in DOMAIN old.schemas
      PROVE  Unbroken(classifySchema(old.schemas[k], new.schemas[k]))
  BY <1>1 DEF classifySurface, Unbroken
<1> QED BY <1>1, <1>2, DocumentsKept DEF SchemasKept

\* Every command that was shipped is, with its flags and its exit code.
LEMMA CliHarmless ==
  ASSUME NEW old, NEW new, Unbroken(classifySurface(old, new))
  PROVE  CliKept(old, new)
<1>1. ASSUME NEW n \in DOMAIN old.cli
      PROVE  n \in DOMAIN new.cli
  <2>1. n \notin DOMAIN new.cli => breaks("removed") \in classifySurface(old, new)
    BY DEF classifySurface, wholes
  <2> QED BY <2>1 DEF Unbroken, breaks, surfaceChange
<1>2. ASSUME NEW n \in DOMAIN old.cli
      PROVE  Unbroken(classifyCli(old.cli[n], new.cli[n]))
  BY <1>1 DEF classifySurface, Unbroken
<1>3. ASSUME NEW n \in DOMAIN old.cli
      PROVE  old.cli[n].exitCode = new.cli[n].exitCode /\ old.cli[n].flags \subseteq new.cli[n].flags
  <2> DEFINE was == old.cli[n]
             now == new.cli[n]
  <2>1. was.exitCode # now.exitCode => breaks("cli-exit-code-changed") \in classifyCli(was, now)
    BY DEF classifyCli
  <2>2. \A f \in was.flags \ now.flags : breaks("cli-flag-removed") \in classifyCli(was, now)
    BY DEF classifyCli
  <2> QED BY <1>2, <2>1, <2>2, BreaksBreak DEF Unbroken
<1> QED BY <1>1, <1>3 DEF CliKept

\* An action that was shipped is, and takes the inputs it took.
LEMMA ActionHarmless ==
  ASSUME NEW old, NEW new, Unbroken(classifySurface(old, new)),
         \A n \in DOMAIN old.action.inputs : old.action.inputs[n] \in Input,
         \A n \in DOMAIN new.action.inputs : new.action.inputs[n] \in Input
  PROVE  ActionKept(old, new)
<1> SUFFICES ASSUME old.hasAction PROVE ActionKept(old, new)
  BY DEF ActionKept
<1> DEFINE was == old.action.inputs
           now == new.action.inputs
<1>1. new.hasAction
  <2>1. ~new.hasAction => breaks("removed") \in classifySurface(old, new)
    BY DEF classifySurface, wholes, actionOf
  <2> QED BY <2>1 DEF Unbroken, breaks, surfaceChange
<1>2. Unbroken(classifyAction(old.action, new.action))
  BY <1>1 DEF classifySurface, Unbroken
<1> DEFINE changes == classifyAction(old.action, new.action)
<1>3. old.action.outputs \subseteq new.action.outputs
  <2>1. \A n \in old.action.outputs \ new.action.outputs : breaks("action-output-removed") \in changes
    BY DEF classifyAction
  <2> QED BY <1>2, <2>1, BreaksBreak DEF Unbroken
<1>4. ASSUME NEW n \in DOMAIN was
      PROVE  n \in DOMAIN now
  <2>1. n \notin DOMAIN now => breaks("action-input-removed") \in changes
    BY DEF classifyAction
  <2> QED BY <1>2, <2>1, BreaksBreak DEF Unbroken
<1>5. ASSUME NEW n \in DOMAIN was
      PROVE  (now[n].required => was[n].required) /\ now[n].default = was[n].default
  <2>1. n \in DOMAIN was \cap DOMAIN now
    BY <1>4
  <2>2. ~was[n].required /\ now[n].required => breaks("action-input-required") \in changes
    BY <2>1 DEF classifyAction
  <2>3. was[n].default # now[n].default => breaks("action-input-default-changed") \in changes
    BY <2>1 DEF classifyAction
  <2> HIDE DEF changes
  <2> QED BY <1>2, <2>2, <2>3, BreaksBreak DEF Unbroken, changes
<1>6. ASSUME NEW n \in DOMAIN now, n \notin DOMAIN was
      PROVE  ~now[n].required
  <2>1. (IF now[n].required THEN breaks("action-input-added") ELSE extends("action-input-added"))
          \in classifyAction(old.action, new.action)
    BY <1>6 DEF classifyAction
  <2> QED BY <1>2, <2>1 DEF Unbroken, breaks, surfaceChange
<1> QED BY <1>1, <1>3, <1>4, <1>5, <1>6 DEF ActionKept

-----------------------------------------------------------------------------
(* The classifier.                                                         *)

\* A step between two surfaces of any package, with any number of commands,
\* schemas of any depth and any action, that is not rated breaking leaves every
\* call and every document as good as it was.
THEOREM CompatibleKeepsSurfaceCorrect == SurfaceSpec => CompatibleKeepsSurface
<1> DEFINE Kept ==
      rateSurface(surface, surface') # "breaking" =>
        CliKept(surface, surface') /\ SchemasKept(surface, surface') /\ ActionKept(surface, surface')
<1>1. [SurfaceChanges]_surface => [Kept]_surface
  <2> SUFFICES ASSUME SurfaceChanges, rateSurface(surface, surface') # "breaking"
               PROVE  /\ CliKept(surface, surface')
                      /\ SchemasKept(surface, surface')
                      /\ ActionKept(surface, surface')
    OBVIOUS
  <2>1. Unbroken(classifySurface(surface, surface'))
    BY DEF rateSurface, Unbroken
  <2>2. /\ \A k \in DOMAIN surface.schemas : SchemaOf(surface.schemas[k])
        /\ \A k \in DOMAIN surface'.schemas : SchemaOf(surface'.schemas[k])
        /\ \A n \in DOMAIN surface.action.inputs : surface.action.inputs[n] \in Input
        /\ \A n \in DOMAIN surface'.action.inputs : surface'.action.inputs[n] \in Input
    BY SurfacesAssumption DEF SurfaceChanges, SchemaOf
  <2> QED BY <2>1, <2>2, CliHarmless, SchemasHarmless, ActionHarmless
<1> QED BY <1>1, PTL DEF SurfaceSpec, CompatibleKeepsSurface

=============================================================================
