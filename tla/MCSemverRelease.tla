-------------------------- MODULE MCSemverRelease --------------------------
(***************************************************************************)
(* Instances of SemverRelease for TLC: two entry points and a surface,     *)
(* with what the two classifiers say in the place of Impact; and of the    *)
(* classifiers themselves, asked about the changes of one package.         *)
(***************************************************************************)
EXTENDS SemverRelease, ApiClassifier, SurfaceClassifier

-----------------------------------------------------------------------------
(* Declarations.                                                           *)

MCTexts == {"one", "two", "any", "imported"}
MCDenotes == [t \in MCTexts |-> CASE t = "one" -> {1} [] t = "two" -> {2} [] OTHER -> {1, 2}]

MCMember(kind, parent, name) ==
  [kind |-> kind, parent |-> parent, name |-> name, releaseTag |-> "public",
   exported |-> TRUE, deprecated |-> FALSE, typeParameters |-> <<>>, heritage |-> <<>>,
   parameters |-> <<>>, text |-> "any", optional |-> FALSE, readonly |-> FALSE, overload |-> 0]

\* A function with one overload or two, and a method of an interface.
MCLists(texts) ==
  LET of(name) == [name : {name}, optional : BOOLEAN, text : texts]
  IN {<<>>} \cup {<<x>> : x \in of("x")}
            \cup {xy \in of("x") \X of("y") : xy[1].optional => xy[2].optional}
MCShort == {ps \in MCLists({"one", "any"}) : Len(ps) < 2}

MCOverload(i, parameters, text) ==
  [MCMember("Function", EntryPoint, "f") EXCEPT
     !.parameters = parameters, !.text = text, !.overload = i]

MCFunctions ==
  {<<>>}
  \cup {[r \in {"f(1)"} |-> MCOverload(1, ps, t)] :
          ps \in MCLists({"one", "any", "imported"}), t \in {"one", "any"}}
  \cup {[r \in {"f(1)", "f(2)"} |-> IF r = "f(1)" THEN MCOverload(1, o[1], o[2])
                                                  ELSE MCOverload(2, o[3], o[4])] :
          o \in {x \in MCShort \X {"one", "any"} \X MCShort \X {"one", "any"} : x[1] # x[3]}}

\* An interface and three properties, each of them there or not.
MCProperty(name, tags, options, locks, texts) ==
  {[MCMember("PropertySignature", "I", name) EXCEPT
      !.releaseTag = t, !.optional = o, !.readonly = l, !.text = x] :
     t \in tags, o \in options, l \in locks, x \in texts}
MCMaybe(members) == {<<>>} \cup {<<m>> : m \in members}

MCInterfaces ==
  {<<>>} \cup
  {[r \in {"I"} \cup {n \in {"a", "b", "version"} : x[n] # <<>>} |->
      IF r = "I" THEN [MCMember("Interface", EntryPoint, "I") EXCEPT !.releaseTag = x.tag]
                 ELSE x[r][1]] :
     x \in [tag : {"public", "beta", "internal"},
            a : MCMaybe(MCProperty("a", {"public"}, BOOLEAN, BOOLEAN, {"one", "any", "imported"})),
            b : MCMaybe(MCProperty("b", {"public", "beta"}, BOOLEAN, {FALSE}, {"one"})),
            version : MCMaybe(MCProperty("version", {"public"}, {FALSE}, {FALSE}, {"one"}))]}

\* An enum, an alias, a variable and a method.
MCOthers ==
  {[r \in {"E"} \cup DOMAIN x |-> IF r = "E" THEN MCMember("Enum", EntryPoint, "E") ELSE x[r]] :
     x \in UNION {[{"E.A"} -> {[MCMember("EnumMember", "E", "A") EXCEPT !.text = t] : t \in MCTexts}],
                  [{"T"} -> {[MCMember("TypeAlias", EntryPoint, "T") EXCEPT
                                !.text = t, !.deprecated = d, !.typeParameters = g] :
                               t \in MCTexts, d \in BOOLEAN, g \in {<<>>, <<"T">>}}],
                  [{"v"} -> {[MCMember("Variable", EntryPoint, "v") EXCEPT
                                !.text = t, !.readonly = l, !.exported = e] :
                               t \in MCTexts, l \in BOOLEAN, e \in BOOLEAN}],
                  [{"E.m"} -> {[MCMember("MethodSignature", "E", "m") EXCEPT
                                  !.parameters = ps, !.heritage = h, !.overload = 1] :
                                 ps \in MCShort, h \in {<<>>, <<"Base">>}}]}}

MCHistories == {MCFunctions, MCInterfaces, MCOthers}

-----------------------------------------------------------------------------
(* Surfaces.                                                               *)

MCKinds == {"string", "number"}
MCNoAction == [inputs |-> <<>>, outputs |-> {}]
MCSurface(cli, schemas, hasAction, action) ==
  [cli |-> cli, schemas |-> schemas, hasAction |-> hasAction, action |-> action]

MCCommand == [exitCode |-> 0, flags |-> {"--fix"}, help |-> "text"]
MCCommands ==
  {MCSurface(cli, <<>>, FALSE, MCNoAction) :
     cli \in UNION {[names -> [exitCode : {0, 1}, flags : SUBSET {"--fix", "--all"}, help : {"text", "new text"}]] :
                      names \in {{}, {"ipc"}}}}

\* Schemas of two properties, one of them named like a documentation keyword.
MCScalar(v) == [is |-> "scalar", holds |-> {v}]
MCList(s) == [is |-> "list", holds |-> s]
MCTypes == {<<>>, <<"type", MCScalar("string")>>, <<"type", MCScalar("number")>>,
            <<"type", MCList({"string", "number"})>>, <<"description", MCScalar("text")>>}
MCEntries(name, x) ==
  CASE x = "absent" -> <<>>
    [] x = <<>> -> [p \in {<<"properties", name>>} |-> [is |-> "object", holds |-> {}]]
    [] OTHER -> [p \in {<<"properties", name, x[1]>>} |-> x[2]]

MCSchemas ==
  LET of(a, t, required, shut, text) ==
        LET props == MCEntries("a", a)
            titles == MCEntries("title", t)
            paths == DOMAIN props \cup DOMAIN titles \cup {<<"required">>, <<"title">>}
                       \cup (IF shut THEN {<<"additionalProperties">>} ELSE {})
        IN [p \in paths |-> CASE p \in DOMAIN props -> props[p]
                              [] p \in DOMAIN titles -> titles[p]
                              [] p = <<"required">> -> MCList(required)
                              [] p = <<"title">> -> MCScalar(text)
                              [] OTHER -> MCScalar("false")]
  IN {MCSurface(<<>>, [k \in {"./schema.json"} |-> of(a, t, r, s, text)], FALSE, MCNoAction) :
        a \in MCTypes, t \in MCTypes, r \in SUBSET {"a", "title"}, s \in BOOLEAN,
        text \in {"text"}}

MCInputs == UNION {[names -> [required : BOOLEAN, default : {"none", "text"}]] :
                     names \in SUBSET {"token", "path"}}
MCActions ==
  {MCSurface(<<>>, <<>>, FALSE, MCNoAction)}
  \cup {MCSurface(<<>>, <<>>, TRUE, [inputs |-> i, outputs |-> o]) :
          i \in MCInputs, o \in SUBSET {"result"}}

MCSurfaceHistories == {MCCommands, MCSchemas, MCActions}

-----------------------------------------------------------------------------
(* Releases.                                                               *)

MCTargets == <<"extra", "main">>
MCShapes == {"absent", "wide", "odd", "cli"}

\* "odd" has a property of a type that cannot be rebuilt, and lacks one of the
\* names "wide" exports.
MCDeclares(text) ==
  [r \in {"I", "version"} |->
     IF r = "I" THEN MCMember("Interface", EntryPoint, "I")
                ELSE [MCMember("PropertySignature", "I", "version") EXCEPT !.text = text]]
MCPackage ==
  [absent |-> <<>>,
   wide   |-> MCDeclares("one") @@ ("v" :> MCMember("Variable", EntryPoint, "v")),
   odd    |-> MCDeclares("imported")]

MCWithCli(shape) ==
  MCSurface(IF shape = "cli" THEN [n \in {"ipc"} |-> MCCommand] ELSE <<>>, <<>>, FALSE, MCNoAction)

MCRated(from, to) ==
  IF "cli" \in {from, to}
  THEN rateSurface(MCWithCli(from), MCWithCli(to))
  ELSE classifyTarget(MCPackage[from], MCPackage[to], "beta")

MCImpact ==
  [step \in MCShapes \X MCShapes |->
     LET from == step[1]  to == step[2]
     IN CASE from = to                         -> "unchanged"
          [] from = "absent" \/ to = "cli"     -> "widening"
          [] from = "odd" /\ to = "wide"       -> "unknown"
          [] OTHER                             -> "breaking"]

\* The table is what the classifiers say.
ASSUME MCImpactAssumption ==
  \A step \in MCShapes \X MCShapes : MCImpact[step] = MCRated(step[1], step[2])

\* Below "breaking", the users of either kind are kept, as the classifiers'
\* properties have it; "compatible" and "unchanged" add nothing either.
MCKept(from, to) ==
  IF "cli" \in {from, to}
  THEN CliKept(MCWithCli(from), MCWithCli(to))
  ELSE UsersKept(normalizeApiPackage(MCPackage[from], "beta"),
                 normalizeApiPackage(MCPackage[to], "beta"))
MCKeeps ==
  LET all == MCShapes \X MCShapes
      kept == {step \in all : MCKept(step[1], step[2])}
      same == {step \in kept : step[1] = step[2]}
  IN [unchanged |-> same, compatible |-> same, widening |-> kept, breaking |-> all]

MCPartShapes == [p \in Parts |-> CASE p = "main"  -> {"wide", "odd"}
                                   [] p = "extra" -> {"absent", "wide"}
                                   [] p = Surface -> {"absent", "cli"}]

MCVersion(major, minor, patch) == [major |-> major, minor |-> minor, patch |-> patch]
MCVersions == {MCVersion(0, 1, 1), MCVersion(1, 0, 0), MCVersion(1, 1, 0)}

-----------------------------------------------------------------------------
(* A release process, or one classifier.                                   *)

VARIABLE asked  \* "release", or the classifier that is asked

MCNothing == MCSurface(<<>>, <<>>, FALSE, MCNoAction)
MCFresh == /\ main.baseline = [p \in Parts |-> NoBaseline]
           /\ main.exposes = [p \in Parts |-> IF p = "main" THEN "wide" ELSE Absent]

MCInit ==
  /\ Init
  /\ \/ asked = "release" /\ api = <<>> /\ surface = MCNothing
     \/ asked = "api"     /\ MCFresh /\ ApiInit /\ surface = MCNothing
     \/ asked = "surface" /\ MCFresh /\ api = <<>> /\ SurfaceInit

MCNext ==
  \/ asked = "release" /\ Next           /\ UNCHANGED <<api, surface, asked>>
  \/ asked = "api"     /\ ApiChanges     /\ UNCHANGED <<vars, surface, asked>>
  \/ asked = "surface" /\ SurfaceChanges /\ UNCHANGED <<vars, api, asked>>

MCSpec == MCInit /\ [][MCNext]_<<vars, api, surface, asked>>

=============================================================================
