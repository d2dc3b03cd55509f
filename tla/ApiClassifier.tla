---------------------------- MODULE ApiClassifier ----------------------------
(***************************************************************************)
(* How ApiContract rates the step from the declarations of one entry point *)
(* to those of another: the declarations above a release tag              *)
(* (model-normalizer.ts), the differences between two sets of them         *)
(* (compatibility-classifier.ts), the assignability of one type to another *)
(* (type-assignability.ts) and the version literals that were forgotten    *)
(* (schema-version-consistency.ts).                                        *)
(*                                                                         *)
(* A declared type is the text it is written as, and stands for the set of *)
(* the values it admits; the compiler accepts an assignment when one set   *)
(* includes the other.  A text that names a type parameter or a type of    *)
(* another package cannot be rebuilt outside its declaration.              *)
(***************************************************************************)
EXTENDS Integers, Sequences

CONSTANTS
  Texts,         \* the ways types are written
  Denotes,       \* the values each admits
  Rebuildable,   \* the texts a probe can be made of
  Literals,      \* the texts that are a number or a string
  MaxArguments,  \* callers pass at most this many arguments
  Histories      \* the packages whose versions are compared, each a set of
                 \* the declarations its versions may have

Values == UNION {Denotes[t] : t \in Texts}

EntryPoint == "entry point"
ReleaseTagLevel == {"internal", "alpha", "beta", "public"}
RELEASE_TAG_RANK == [internal |-> 0, alpha |-> 1, beta |-> 2, public |-> 3]

Parameter == [name : STRING, optional : BOOLEAN, text : Texts]

\* A declaration.  text: the type of a property or a variable, what a function
\* returns, the value of an enum's member or the definition of an alias, by kind.
Member == [kind : STRING, parent : STRING, name : STRING, releaseTag : ReleaseTagLevel,
           exported : BOOLEAN, deprecated : BOOLEAN, typeParameters : Seq(STRING),
           heritage : Seq(STRING), parameters : Seq(Parameter), text : Texts,
           optional : BOOLEAN, readonly : BOOLEAN, overload : Nat]

Overloadable == {"Function", "MethodSignature"}
HasText == Overloadable \cup {"PropertySignature", "Variable", "TypeAlias", "EnumMember"}

groupKey(m) == <<m.parent, m.name, m.kind>>

ASSUME TypesAssumption ==
  /\ DOMAIN Denotes = Texts
  /\ Rebuildable \subseteq Texts /\ Literals \subseteq Texts
  /\ MaxArguments \in Nat

\* A package maps references to declarations; a reference names the kind, the
\* parent and, for a function, which of its overloads it is.  No two overloads of
\* a package take the same.
ASSUME HistoriesAssumption ==
  \A history \in Histories : \A p \in history :
    /\ \A r \in DOMAIN p : p[r] \in Member /\ p[r].parent \in DOMAIN p \cup {EntryPoint}
    /\ \A r, s \in DOMAIN p :
         r # s /\ p[r].kind \in Overloadable /\ groupKey(p[r]) = groupKey(p[s])
           => p[r].parameters # p[s].parameters
    /\ \A q \in history : \A r \in DOMAIN p \cap DOMAIN q :
         groupKey(p[r]) = groupKey(q[r]) /\ p[r].overload = q[r].overload

\* What the package exports, as it is at a commit.
VARIABLE api

-----------------------------------------------------------------------------
(* What is compared (model-normalizer.ts).                                 *)

meetsThreshold(level, threshold) == RELEASE_TAG_RANK[level] >= RELEASE_TAG_RANK[threshold]

\* A declaration that is not admitted takes those inside it with it.
normalizeApiPackage(package, threshold) ==
  LET admitted[r \in DOMAIN package] ==
        /\ meetsThreshold(package[r].releaseTag, threshold)
        /\ package[r].exported
        /\ package[r].parent = EntryPoint \/ admitted[package[r].parent]
  IN [r \in {x \in DOMAIN package : admitted[x]} |-> package[r]]

-----------------------------------------------------------------------------
(* Assignability (type-assignability.ts, check.ts).                        *)

Directions == {"contravariant", "covariant", "invariant"}

probeAssignability(from, to) ==
  IF Denotes[from] \subseteq Denotes[to] THEN "compatible" ELSE "breaking"

\* The old type fits the new one, the new one the old, or both.
checkAssignability(old, new, direction) ==
  LET probes == (IF direction # "covariant" THEN {<<old, new>>} ELSE {})
                  \cup (IF direction # "contravariant" THEN {<<new, old>>} ELSE {})
  IN IF {old, new} \subseteq Rebuildable
     THEN IF \A p \in probes : probeAssignability(p[1], p[2]) = "compatible"
          THEN "compatible" ELSE "breaking"
     ELSE "unknown"

-----------------------------------------------------------------------------
(* Differences (compatibility-classifier.ts).                              *)

Compatibility == {"compatible", "breaking", "unknown"}
change(kind, compatibility) == [kind |-> kind, compatibility |-> compatibility]
relaxed(kind, yes) == change(kind, IF yes THEN "compatible" ELSE "breaking")

\* A type whose text changed, and only that, is asked of the compiler.
retyped(kind, old, new, direction) ==
  IF old = new THEN {} ELSE {change(kind, checkAssignability(old, new, direction))}

\* Fault: what a function accepts is compared like what it returns.
compareParameters_Covariant(was, now) ==
  LET both == {i \in 1 .. Len(now) : i <= Len(was)}
  IN {relaxed("parameter-added", now[i].optional) : i \in {j \in 1 .. Len(now) : j > Len(was)}}
     \cup {relaxed("parameter-optionality-changed", now[i].optional) :
             i \in {j \in both : was[j].optional # now[j].optional}}
     \cup (UNION {retyped("parameter-type-changed", was[i].text, now[i].text, "covariant") :
                    i \in both})
     \cup {change("parameter-removed", "breaking") : i \in {j \in 1 .. Len(was) : j > Len(now)}}

compareParameters(was, now) ==
  LET both == {i \in 1 .. Len(now) : i <= Len(was)}
  IN {relaxed("parameter-added", now[i].optional) : i \in {j \in 1 .. Len(now) : j > Len(was)}}
     \cup {relaxed("parameter-optionality-changed", now[i].optional) :
             i \in {j \in both : was[j].optional # now[j].optional}}
     \cup (UNION {retyped("parameter-type-changed", was[i].text, now[i].text, "contravariant") :
                    i \in both})
     \cup {change("parameter-removed", "breaking") : i \in {j \in 1 .. Len(was) : j > Len(now)}}

compareMetadata(was, now) ==
  (IF was.releaseTag = now.releaseTag THEN {}
   ELSE {relaxed("release-tag-changed",
                 RELEASE_TAG_RANK[now.releaseTag] >= RELEASE_TAG_RANK[was.releaseTag])})
  \cup (IF was.deprecated = now.deprecated THEN {}
        ELSE {change("deprecation-changed", "compatible")})
  \cup (IF was.typeParameters = now.typeParameters THEN {}
        ELSE {change("generic-parameter-changed", "unknown")})
  \cup (IF was.heritage = now.heritage THEN {} ELSE {change("heritage-changed", "unknown")})

compareEnumAndAlias(was, now) ==
  CASE now.kind = "EnumMember" /\ was.text # now.text -> {change("enum-member-changed", "breaking")}
    [] now.kind = "TypeAlias" -> retyped("type-alias-changed", was.text, now.text, "invariant")
    [] OTHER -> {}

\* What may be written must fit both ways.
compareProperty(was, now) ==
  IF now.kind # "PropertySignature" THEN {}
  ELSE (IF was.optional = now.optional THEN {}
        ELSE {relaxed("property-optionality-changed", now.optional)})
       \cup (IF was.readonly = now.readonly THEN {}
             ELSE {relaxed("property-readonly-changed", now.readonly)})
       \cup retyped("property-type-changed", was.text, now.text,
                    IF now.readonly THEN "covariant" ELSE "invariant")

compareVariable(was, now) ==
  IF now.kind # "Variable" THEN {}
  ELSE retyped("property-type-changed", was.text, now.text,
               IF now.readonly THEN "covariant" ELSE "invariant")

compareSignature(was, now) ==
  IF now.kind \notin Overloadable THEN {}
  ELSE compareParameters(was.parameters, now.parameters)
       \cup retyped("return-type-changed", was.text, now.text, "covariant")

compareMatchedMember(was, now) ==
  compareMetadata(was, now) \cup compareEnumAndAlias(was, now) \cup compareProperty(was, now)
    \cup compareVariable(was, now) \cup compareSignature(was, now)

-----------------------------------------------------------------------------
(* Overloads: a set of them is compared by what each takes, never by its   *)
(* place among them.                                                       *)

groupOverloads(members, key) ==
  {r \in DOMAIN members : members[r].kind \in Overloadable /\ groupKey(members[r]) = key}

\* Of two that take the same, the later one counts.
bySignature(members, group) ==
  {r \in group : \A s \in group :
     members[s].parameters = members[r].parameters => members[s].overload <= members[r].overload}

compareOverloadSets(old, new, was, now) ==
  LET olds == bySignature(old, was)
      news == bySignature(new, now)
      matched(m, group, members) == {s \in group : members[s].parameters = m.parameters}
  IN {change("overload-removed", "breaking") : r \in {x \in olds : matched(old[x], news, new) = {}}}
     \cup (UNION {UNION {compareMatchedMember(old[r], new[s]) : s \in matched(old[r], news, new)} :
                    r \in olds})
     \cup {change("overload-added", "compatible") : s \in {x \in news : matched(new[x], olds, old) = {}}}

\* A whole set that came or went is one change; one on each side is compared
\* place by place.
classifyOverloadSet(old, new, key) ==
  LET was == groupOverloads(old, key)
      now == groupOverloads(new, key)
  IN CASE was = {} -> {change("export-added", "compatible")}
       [] now = {} -> {change("export-removed", "breaking")}
       [] OTHER ->
            IF (\A r, s \in was : r = s) /\ (\A r, s \in now : r = s)
            THEN UNION {compareMatchedMember(old[r], new[s]) : r \in was, s \in now}
            ELSE compareOverloadSets(old, new, was, now)

OverloadKeys(members) ==
  {groupKey(members[r]) : r \in {x \in DOMAIN members : members[x].kind \in Overloadable}}

\* What came.  A required property breaks whoever implements the interface it
\* came to, unless that is new as well.
added(old, m) ==
  CASE m.kind = "EnumMember" -> change("enum-member-added", "compatible")
    [] m.kind = "PropertySignature" ->
         relaxed("property-added", m.optional \/ m.parent \notin DOMAIN old)
    [] OTHER -> change("export-added", "compatible")

classifyContractChanges(old, new) ==
  LET others(members) == {r \in DOMAIN members : members[r].kind \notin Overloadable}
  IN (UNION {classifyOverloadSet(old, new, key) : key \in OverloadKeys(old) \cup OverloadKeys(new)})
     \cup {added(old, new[r]) : r \in others(new) \ others(old)}
     \cup (UNION {compareMatchedMember(old[r], new[r]) : r \in others(new) \cap others(old)})
     \cup {change("removed", "breaking") : r \in others(old) \ others(new)}

IMPACT_RANK == [unchanged |-> 0, compatible |-> 1, unknown |-> 2, breaking |-> 3]

worst(changes) ==
  LET ratings == {"unchanged"} \cup {c.compatibility : c \in changes}
  IN CHOOSE c \in ratings : \A d \in ratings : IMPACT_RANK[c] >= IMPACT_RANK[d]

-----------------------------------------------------------------------------
(* Interfaces that carry their schema's version as a literal               *)
(* (schema-version-consistency.ts): it stayed while the rest changed.      *)

childrenOf(members, i) == {r \in DOMAIN members : members[r].parent = i}
versionLiterals(members, i) ==
  {r \in childrenOf(members, i) : /\ members[r].kind = "PropertySignature"
                                  /\ members[r].name = "version" /\ members[r].text \in Literals}

detectSchemaVersionDrift(old, new) ==
  {i \in DOMAIN old \cap DOMAIN new :
     /\ new[i].kind = "Interface"
     /\ \E v \in versionLiterals(old, i) \cap versionLiterals(new, i) :
          /\ old[v].text = new[v].text
          /\ \E r \in (childrenOf(old, i) \cup childrenOf(new, i)) \ {v} :
               r \in DOMAIN old \cap DOMAIN new => old[r] # new[r]}

-----------------------------------------------------------------------------
(* The verdict of one entry point (check.ts, runSingleTargetCheck).        *)

AddedKinds == {"parameter-added", "property-added", "enum-member-added", "overload-added",
               "export-added"}
widensSurface(changes) ==
  \E c \in changes : c.kind \in AddedKinds \cup {"release-tag-changed"}

classifyTarget(baseline, current, threshold) ==
  LET old == normalizeApiPackage(baseline, threshold)
      new == normalizeApiPackage(current, threshold)
      changes == classifyContractChanges(old, new)
      widening == worst(changes) = "compatible" /\ widensSurface(changes)
  IN IF detectSchemaVersionDrift(old, new) # {} THEN "stale"
     ELSE IF widening THEN "widening" ELSE worst(changes)

-----------------------------------------------------------------------------
(* A package changes, and the check compares it with what it was.          *)

ApiInit == api \in UNION Histories
ApiChanges == \E history \in Histories : api \in history /\ api' \in history
ApiSpec == ApiInit /\ [][ApiChanges]_api

-----------------------------------------------------------------------------
(* What the users of a package rely on.                                    *)

Calls == UNION {[1 .. n -> Values] : n \in 0 .. MaxArguments}
accepts(m, call) ==
  /\ Len(call) <= Len(m.parameters)
  /\ \A i \in 1 .. Len(m.parameters) :
       IF i <= Len(call) THEN call[i] \in Denotes[m.parameters[i].text]
       ELSE m.parameters[i].optional

\* A call that an overload took is taken by one that returns no more than it did.
CallsKept(old, new) ==
  \A r \in DOMAIN old : old[r].kind \in Overloadable =>
    \A call \in Calls : accepts(old[r], call) =>
      \E s \in DOMAIN new : /\ groupKey(new[s]) = groupKey(old[r])
                            /\ accepts(new[s], call)
                            /\ Denotes[new[s].text] \subseteq Denotes[old[r].text]

\* What had a name has it, reads as no more than before and takes what it took.
NamesKept(old, new) ==
  \A r \in DOMAIN old : old[r].kind \notin Overloadable =>
    /\ r \in DOMAIN new
    /\ old[r].kind \in HasText /\ old[r].optional = new[r].optional =>
         Denotes[new[r].text] \subseteq Denotes[old[r].text]
    /\ old[r].kind \in HasText /\ ~new[r].readonly =>
         Denotes[old[r].text] \subseteq Denotes[new[r].text]

properties(members, i) ==
  {r \in childrenOf(members, i) : members[r].kind = "PropertySignature"}

\* An object that maps properties to values fits an interface; the values of
\* those in aside are left out.
fits(object, members, i, aside) ==
  \A r \in properties(members, i) :
    IF r \in DOMAIN object THEN r \notin aside => object[r] \in Denotes[members[r].text]
    ELSE members[r].optional

\* What was built for an interface fits it still; what may be read only is not
\* the builder's to fill.
ObjectsKept(old, new) ==
  \A i \in DOMAIN old : old[i].kind = "Interface" =>
    \A filled \in SUBSET properties(old, i) : \A object \in [filled -> Values] :
      LET aside == {r \in filled \cap DOMAIN new : new[r].readonly}
      IN fits(object, old, i, aside) => i \in DOMAIN new /\ fits(object, new, i, aside)

UsersKept(old, new) == CallsKept(old, new) /\ NamesKept(old, new) /\ ObjectsKept(old, new)

\* A step rated unchanged or compatible, with or without additions, breaks no
\* caller, no reader and no builder: compatibility-classifier.ts rates every
\* kind of change by itself, from texts, and the rating of the whole is their
\* worst.  Outside of it, as rated by the code: a property that became optional
\* or readonly, a method that was added to an interface, and which of several
\* overloads is tried first.
CompatibleKeepsUsers ==
  [][\A threshold \in {"public", "beta"} :
       classifyTarget(api, api', threshold) \in {"unchanged", "compatible", "widening"} =>
         UsersKept(normalizeApiPackage(api, threshold), normalizeApiPackage(api', threshold))]_api

=============================================================================
