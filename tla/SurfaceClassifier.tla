-------------------------- MODULE SurfaceClassifier --------------------------
(***************************************************************************)
(* How SurfaceContract rates the step from what a package exposed besides  *)
(* its types to what it exposes now: its CLIs, the JSON Schemas it serves  *)
(* and the inputs and outputs of its action (scripts/surface-contract).    *)
(*                                                                         *)
(* A JSON Schema is its leaves: what stands at the end of each path of     *)
(* keys, a scalar, a list of scalars or an object without keys.            *)
(***************************************************************************)
EXTENDS Integers, Sequences, SequencesExt

CONSTANTS
  DocumentKinds,    \* the types of JSON values
  SurfaceHistories  \* the packages whose versions are compared, each a set of
                    \* the surfaces its versions may have

NoMember == "no member"

Leaf == {leaf \in [is : {"scalar", "list", "object"}, holds : SUBSET (STRING \ {NoMember})] :
           leaf.is = "object" => leaf.holds = {}}
CliSurface == [exitCode : Int, flags : SUBSET STRING, help : STRING]
Input == [required : BOOLEAN, default : STRING]

\* A leaf holds a scalar, any number in a list and none in an object; a
\* package without an action has the one without inputs and outputs.
ASSUME SurfacesAssumption ==
  \A history \in SurfaceHistories : \A s \in history :
    /\ \A name \in DOMAIN s.cli : s.cli[name] \in CliSurface
    /\ \A key \in DOMAIN s.schemas : \A path \in DOMAIN s.schemas[key] :
         path \in Seq(STRING) /\ s.schemas[key][path] \in Leaf
    /\ s.hasAction \in BOOLEAN
    /\ \A name \in DOMAIN s.action.inputs : s.action.inputs[name] \in Input

\* What the package exposes, as it is at a commit.
VARIABLE surface

-----------------------------------------------------------------------------
(* Schemas, leaf by leaf.                                                  *)

DOC_KEYS == {"description", "title", "$comment", "examples", "default"}
NAME_MAP_KEYS == {"properties", "patternProperties", "$defs", "definitions", "dependentSchemas"}

\* Fault: a property that has the name of a documentation keyword is taken for one.
documents_Anywhere(path) == \E i \in 1 .. Len(path) : path[i] \in DOC_KEYS

\* A documentation keyword, unless the schema's author chose it as a name.
documents(path) ==
  \E i \in 1 .. Len(path) :
    path[i] \in DOC_KEYS /\ (i > 1 => path[i - 1] \notin NAME_MAP_KEYS)

\* One entry for a scalar, one for each member of a list and one for an empty
\* list; an object without keys leaves none.
flattenSchema(schema) ==
  LET structural == {p \in DOMAIN schema : ~documents(p)}
      of(is) == {p \in structural : schema[p].is = is}
      entries == {<<p, NoMember>> : p \in {q \in of("list") : schema[q].holds = {}} \cup of("scalar")}
                   \cup (UNION {{p} \X schema[p].holds : p \in of("list")})
  IN [structure |-> [e \in entries |-> IF e[2] = NoMember THEN schema[e[1]] ELSE e[2]],
      docs |-> [p \in DOMAIN schema \ structural |-> schema[p]]]

surfaceChange(kind, impact, widens) == [kind |-> kind, impact |-> impact, widens |-> widens]
breaks(kind) == surfaceChange(kind, "breaking", FALSE)
extends(kind) == surfaceChange(kind, "compatible", TRUE)
keeps(kind) == surfaceChange(kind, "compatible", FALSE)

\* The properties a path goes through.
propertyRoots(path) ==
  {SubSeq(path, 1, i) : i \in {j \in 2 .. Len(path) : path[j - 1] = "properties"}}
startsWith(structure, root) == \E e \in DOMAIN structure : IsPrefix(root, e[1])
unknownRoot(path, structure) == \E root \in propertyRoots(path) : ~startsWith(structure, root)

entryAdded(e, was) ==
  CASE e[2] # NoMember ->
         breaks(IF Last(e[1]) = "required" THEN "schema-required-added" ELSE "schema-set-member-added")
    [] e[2] = NoMember /\ unknownRoot(e[1], was) -> extends("schema-property-added")
    [] OTHER -> breaks("schema-constraint-added")

entryRemoved(e, now) ==
  CASE e[2] # NoMember ->
         IF Last(e[1]) = "required" THEN keeps("schema-required-removed")
                                    ELSE breaks("schema-set-member-removed")
    [] e[2] = NoMember /\ unknownRoot(e[1], now) -> breaks("schema-property-removed")
    [] OTHER -> breaks("schema-constraint-removed")

classifySchema(before, after) ==
  LET a == flattenSchema(before)
      b == flattenSchema(after)
      was == DOMAIN a.structure
      now == DOMAIN b.structure
  IN {breaks("schema-changed") : e \in {x \in was \cap now : a.structure[x] # b.structure[x]}}
     \cup {entryAdded(e, a.structure) : e \in now \ was}
     \cup {entryRemoved(e, b.structure) : e \in was \ now}
     \cup (IF a.docs = b.docs THEN {} ELSE {keeps("schema-docs-changed")})

-----------------------------------------------------------------------------
(* Commands and the action.                                                *)

classifyCli(before, after) ==
  (IF before.exitCode = after.exitCode THEN {} ELSE {breaks("cli-exit-code-changed")})
  \cup {breaks("cli-flag-removed") : f \in before.flags \ after.flags}
  \cup {extends("cli-flag-added") : f \in after.flags \ before.flags}
  \cup (IF before.help # after.help /\ before.flags = after.flags
        THEN {keeps("cli-help-changed")} ELSE {})

classifyAction(before, after) ==
  LET was == before.inputs
      now == after.inputs
      both == DOMAIN was \cap DOMAIN now
      new == DOMAIN now \ DOMAIN was
  IN {breaks("action-input-removed") : n \in DOMAIN was \ DOMAIN now}
     \cup {breaks("action-input-required") : n \in {x \in both : ~was[x].required /\ now[x].required}}
     \cup {keeps("action-input-optional") : n \in {x \in both : was[x].required /\ ~now[x].required}}
     \cup {breaks("action-input-default-changed") : n \in {x \in both : was[x].default # now[x].default}}
     \cup {IF now[n].required THEN breaks("action-input-added") ELSE extends("action-input-added") :
             n \in new}
     \cup {breaks("action-output-removed") : n \in before.outputs \ after.outputs}
     \cup {extends("action-output-added") : n \in after.outputs \ before.outputs}

\* What is there on one side only came or went as a whole.
wholes(was, now) == {extends("added") : x \in now \ was} \cup {breaks("removed") : x \in was \ now}
actionOf(s) == IF s.hasAction THEN {"action"} ELSE {}

classifySurface(baseline, current) ==
  wholes(DOMAIN baseline.cli, DOMAIN current.cli)
  \cup (UNION {classifyCli(baseline.cli[n], current.cli[n]) :
                 n \in DOMAIN baseline.cli \cap DOMAIN current.cli})
  \cup wholes(DOMAIN baseline.schemas, DOMAIN current.schemas)
  \cup (UNION {classifySchema(baseline.schemas[k], current.schemas[k]) :
                 k \in DOMAIN baseline.schemas \cap DOMAIN current.schemas})
  \cup wholes(actionOf(baseline), actionOf(current))
  \cup (IF baseline.hasAction /\ current.hasAction
        THEN classifyAction(baseline.action, current.action) ELSE {})

\* The verdict (run.ts, runSurfaceCheck).
rateSurface(baseline, current) ==
  LET changes == classifySurface(baseline, current)
  IN CASE changes = {} -> "unchanged"
       [] \E c \in changes : c.impact = "breaking" -> "breaking"
       [] OTHER -> IF \E c \in changes : c.widens THEN "widening" ELSE "compatible"

-----------------------------------------------------------------------------
(* A package changes, and the check compares it with what it was.          *)

SurfaceInit == surface \in UNION SurfaceHistories
SurfaceChanges == \E history \in SurfaceHistories : surface \in history /\ surface' \in history
SurfaceSpec == SurfaceInit /\ [][SurfaceChanges]_surface

-----------------------------------------------------------------------------
(* What the users of a surface rely on.                                    *)

CliKept(old, new) ==
  \A n \in DOMAIN old.cli :
    /\ n \in DOMAIN new.cli
    /\ old.cli[n].exitCode = new.cli[n].exitCode
    /\ old.cli[n].flags \subseteq new.cli[n].flags

at(schema, path, otherwise) == IF path \in DOMAIN schema THEN schema[path].holds ELSE otherwise
named(schema) == {p[2] : p \in {q \in DOMAIN schema : Len(q) >= 2 /\ q[1] = "properties"}}
typesOf(schema, n) == at(schema, <<"properties", n, "type">>, DocumentKinds)
closed(schema) == at(schema, <<"additionalProperties">>, {}) = {"false"}

\* A document, a function from names to types of values, is valid.
valid(document, schema) ==
  /\ at(schema, <<"required">>, {}) \subseteq DOMAIN document
  /\ \A n \in DOMAIN document : IF n \in named(schema) THEN document[n] \in typesOf(schema, n)
                                                       ELSE ~closed(schema)

\* The properties a schema says something about.
constrained(schema) == {n \in named(schema) : <<"properties", n, "type">> \in DOMAIN schema}

SchemasKept(old, new) ==
  \A k \in DOMAIN old.schemas :
    /\ k \in DOMAIN new.schemas
    /\ \A filled \in SUBSET constrained(old.schemas[k]) :
         \A document \in [filled -> DocumentKinds] :
           valid(document, old.schemas[k]) => valid(document, new.schemas[k])

\* Inputs the action takes, and what one that was not given is.
ActionKept(old, new) ==
  old.hasAction =>
    LET was == old.action.inputs
        now == new.action.inputs
        required(inputs) == {n \in DOMAIN inputs : inputs[n].required}
    IN /\ new.hasAction /\ old.action.outputs \subseteq new.action.outputs
       /\ \A given \in SUBSET DOMAIN was : required(was) \subseteq given =>
            /\ given \subseteq DOMAIN now /\ required(now) \subseteq given
            /\ \A n \in DOMAIN was \ given : now[n].default = was[n].default

\* A step without a breaking change leaves every call of a command and of the
\* action and every document as good as it was: classify.ts compares schemas
\* leaf by leaf, as texts, and may not miss or misread one.  The documents are
\* those with the properties the schema constrained: one that it did not name,
\* or named and let be anything, the code lets a later version constrain.
CompatibleKeepsSurface ==
  [][rateSurface(surface, surface') # "breaking" =>
       /\ CliKept(surface, surface')
       /\ SchemasKept(surface, surface')
       /\ ActionKept(surface, surface')]_surface

=============================================================================
