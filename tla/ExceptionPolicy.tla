--------------------------- MODULE ExceptionPolicy ---------------------------
(***************************************************************************)
(* The rules of the exception registries, as functions of a record, a      *)
(* finding and a day: which record a registry may hold, what a check asks  *)
(* of one before it excuses a finding, and what reconciling a registry     *)
(* with a run's findings makes of it.                                      *)
(*                                                                         *)
(* A finding is an id and a category (a severity, or where the code is).   *)
(* The texts of a record are abstracted to which of them are written.      *)
(***************************************************************************)
EXTENDS Integers, FiniteSets

CONSTANTS
  Ids,      \* the ids findings of one registry have
  LastDay   \* the days are 1 .. LastDay

-----------------------------------------------------------------------------
(* Records.                                                                *)

\* The six texts only a version 2 record has are one field, "structured".
TextFields == {"justification", "alternatives", "remediation", "structured"}
Methods == {"mechanical-reverification", "independent-human-review", "policy-rule"}
\* An accepted risk stands for a tooling limitation too, and a remediation that is
\* scheduled for a compensating control and for a vendor's constraint.
Types == {"validated-false-positive", "accepted-risk", "scheduled-remediation",
          "required-for-package-to-exist", "dev-only-not-shipped"}

\* about: the id that follows from the record's own identity fields, which is
\* another one in a record that was copied, or not one at all in a malformed
\* one; expires: a day, 0 for none.
Record == [id : Ids, about : Ids, version : {1, 2}, texts : SUBSET TextFields,
           method : Methods \cup {""}, exceptionType : Types \cup {""},
           expires : 0 .. LastDay]

\* A file: absent or empty is a readable one without records.
File == [readable : BOOLEAN, records : SUBSET Record]
Unreadable == [readable |-> FALSE, records |-> {}]
FileOf(records) == [readable |-> TRUE, records |-> records]

ASSUME ExceptionAssumption ==
  /\ IsFiniteSet(Ids) /\ Ids # {}
  /\ LastDay \in Nat \ {0}

isExpired(r, today) == r.expires # 0 /\ r.expires < today
isLegacyRecord(r) == r.version = 1

-----------------------------------------------------------------------------
(* The registries.                                                         *)

\* These rewrite their registry on every run,
Reconciling == {"SecuritySocket", "SecurityDeps", "CodeScanning", "DistNoUrls", "CodeRabbit"}
\* these only read it,
Reading == {"Suppressions", "ManagedFiles"}
\* and these have none but environment.json.
Degrading == {"DocsLinks", "Accessibility", "Commits", "BranchProtection", "PackedConsumer"}
\* This one has no registry at all.
Deciding == {"SecurityDevDeps"}
RegistryChecks == Reconciling \cup Reading \cup Degrading \cup Deciding

\* Whether a record of the check has a method and a type at all.
HasSecurityFields(check) == check \in Reconciling

SOCKET_EXCEPTION_TYPES == Types \ {"scheduled-remediation", "dev-only-not-shipped"}
CODE_SCANNING_EXCEPTION_TYPES == {"dev-only-not-shipped"}
CODERABBIT_EXCEPTION_TYPES == Types \ {"validated-false-positive"}

\* A claim that a finding is false rests on a re-run.
validateSecurityExceptionFields(r, types) ==
  /\ r.exceptionType \in types \cup {""}
  /\ (r.exceptionType = "validated-false-positive" /\ r.method # "")
       => r.method = "mechanical-reverification"

\* A registry's own fields: the identity the id follows from, and those that the
\* registries which are only read do not have.
Identified(r) == r.about = r.id
Plain(r) == Identified(r) /\ r.texts \subseteq {"justification", "structured"}
                          /\ r.method = "" /\ r.exceptionType = ""

SOCKET_EXCEPTION_SCHEMA(r) == Identified(r) /\ validateSecurityExceptionFields(r, SOCKET_EXCEPTION_TYPES)
SECURITY_DEPS_EXCEPTION_SCHEMA(r) == Identified(r) /\ validateSecurityExceptionFields(r, Types)
CODE_SCANNING_SCHEMA(r) == Identified(r) /\ validateSecurityExceptionFields(r, CODE_SCANNING_EXCEPTION_TYPES)
DIST_URL_SCHEMA(r) == Identified(r) /\ validateSecurityExceptionFields(r, Types)
\* There is no tool to re-run for what a review says.
CODERABBIT_EXCEPTION_SCHEMA(r) ==
  /\ Identified(r) /\ validateSecurityExceptionFields(r, CODERABBIT_EXCEPTION_TYPES)
  /\ r.method # "mechanical-reverification"
SUPPRESSION_EXCEPTION_SCHEMA(r) == Plain(r)
MANAGED_FILE_SCHEMA(r) == Plain(r)
ENVIRONMENT_EXCEPTION_SCHEMA(r) == Plain(r)

validateRecord(check, r) ==
  /\ CASE check = "SecuritySocket" -> SOCKET_EXCEPTION_SCHEMA(r)
       [] check = "SecurityDeps"   -> SECURITY_DEPS_EXCEPTION_SCHEMA(r)
       [] check = "CodeScanning"   -> CODE_SCANNING_SCHEMA(r)
       [] check = "DistNoUrls"     -> DIST_URL_SCHEMA(r)
       [] check = "CodeRabbit"     -> CODERABBIT_EXCEPTION_SCHEMA(r)
       [] check = "Suppressions"   -> SUPPRESSION_EXCEPTION_SCHEMA(r)
       [] check = "ManagedFiles"   -> MANAGED_FILE_SCHEMA(r)
       [] OTHER                    -> ENVIRONMENT_EXCEPTION_SCHEMA(r)
  /\ r.version = 1 => "structured" \notin r.texts /\ r.expires = 0

\* One bad record, or an id held twice, fails the whole registry.
validateExceptionRegistry(check, file) ==
  /\ file.readable
  /\ \A r \in file.records : validateRecord(check, r)
  /\ \A r, s \in file.records : r.id = s.id => r = s

-----------------------------------------------------------------------------
(* What excuses a finding.                                                 *)

\* forbids: the categories no record excuses; requires: the fields one must have.
AllFields == {"justification", "alternatives", "remediation", "method", "exceptionType", "structured"}
SOCKET_POLICY == [forbids |-> {"critical", "high"}, requires |-> AllFields]
SECURITY_DEPS_POLICY == [forbids |-> {"critical"}, requires |-> AllFields]
CODE_SCANNING_POLICY == [forbids |-> {"shipped"}, requires |-> AllFields]
DIST_URL_POLICY == [forbids |-> {}, requires |-> AllFields]
CODERABBIT_POLICY == [forbids |-> {}, requires |-> AllFields \ {"alternatives"}]

policyOf(check) ==
  CASE check = "SecuritySocket" -> SOCKET_POLICY
    [] check = "SecurityDeps"   -> SECURITY_DEPS_POLICY
    [] check = "CodeScanning"   -> CODE_SCANNING_POLICY
    [] check = "DistNoUrls"     -> DIST_URL_POLICY
    [] check = "CodeRabbit"     -> CODERABBIT_POLICY

\* A legacy record answers for the structured texts it never had.
recordFieldValue(r, field) ==
  CASE field = "method" -> r.method # ""
    [] field = "exceptionType" -> r.exceptionType # ""
    [] field = "structured" -> isLegacyRecord(r) \/ field \in r.texts
    [] OTHER -> field \in r.texts

\* Fault: a finding that is not the worst needs nothing but a justification.
evaluateFindingVerdict_Lenient(check, category, r) ==
  IF category \in policyOf(check).forbids THEN "forbidden"
  ELSE IF category # "low" /\ \E f \in policyOf(check).requires : ~recordFieldValue(r, f) THEN "insufficient"
  ELSE "permitted"

\* External in part: the policy's mode for a category and the fields it lacks.
\* The record is there: every finding has one once the registry is reconciled.
evaluateFindingVerdict(check, category, r) ==
  IF category \in policyOf(check).forbids THEN "forbidden"
  ELSE IF \E f \in policyOf(check).requires : ~recordFieldValue(r, f) THEN "insufficient"
  ELSE "permitted"

\* Fault: the date a record carries is not looked at.
incompleteFields_NoExpiry(r, today) == {"justification", "structured"} \ r.texts

\* What the registries that are only read ask: no legacy record will do, nor
\* one that has expired.
incompleteFields(r, today) ==
  ({"justification", "structured"} \ r.texts)
    \cup (IF isExpired(r, today) THEN {"expires"} ELSE {})

\* The ids of those reasons a check could not run for that nothing accepts.
unaccepted(codes, records, today) ==
  {c \in codes : ~\E r \in records : r.id = c /\ incompleteFields(r, today) = {}}

-----------------------------------------------------------------------------
(* Reconciling.                                                            *)

\* A blank record; CodeScanning writes out its standing reason instead.
createStub(check, id) ==
  IF check = "CodeScanning"
    THEN [id |-> id, about |-> id, version |-> 2, texts |-> TextFields,
          method |-> "policy-rule", exceptionType |-> "dev-only-not-shipped", expires |-> 0]
    ELSE [id |-> id, about |-> id, version |-> 2, texts |-> {},
          method |-> "", exceptionType |-> "", expires |-> 0]

\* External: the records of this run's findings, those of none, and a stub for
\* every finding that has none.
activeRecords(check, records, found) ==
  {r \in records : r.id \in DOMAIN found}
    \cup {createStub(check, id) : id \in DOMAIN found \ {r.id : r \in records}}
staleRecords(records, found) == {r \in records : r.id \notin DOMAIN found}

\* Fault: what is stale is dropped from the file.
reconciled_Prunes(check, records, found) == activeRecords(check, records, found)

\* What is written back.
reconciled(check, records, found) ==
  activeRecords(check, records, found) \cup staleRecords(records, found)

-----------------------------------------------------------------------------
(* The inventory: what a report says is in force, without any schema.      *)

describeRecord(r, today) ==
  [legacy     |-> isLegacyRecord(r),
   expired    |-> isExpired(r, today),
   incomplete |-> \/ "justification" \notin r.texts
                  \/ ~isLegacyRecord(r) /\ "structured" \notin r.texts]

summarizeRegistry(file, today) ==
  LET Counted(what) == Cardinality({r \in file.records : describeRecord(r, today)[what]})
  IN [total      |-> Cardinality(file.records),
      legacy     |-> Counted("legacy"),
      expired    |-> Counted("expired"),
      incomplete |-> Counted("incomplete")]

=============================================================================
