--------------------------- MODULE SuppressionScan ---------------------------
(***************************************************************************)
(* What the Suppressions check's script finds in one source file: the      *)
(* directives that silence a tool, whether each names what it silences     *)
(* and gives its reason, and the id a record of it carries.                *)
(*                                                                         *)
(* A file is a sequence of lines.  The words of a comment are counted in   *)
(* units of MIN_REASON_LENGTH characters.                                  *)
(***************************************************************************)
EXTENDS Integers, Sequences

CONSTANTS
  SuppressionIds,  \* the ids records of suppressions have
  AnchorOf         \* what form a directive has and what it covers -> its id

\* closing: it ends what another began; blanket: it names no rule, or is one of
\* the two that never say what they excuse; next: it covers the line after it.
Forms ==
  [closing : {FALSE}, blanket : {FALSE}, next : {TRUE}]
    \cup [closing : {FALSE}, blanket : BOOLEAN, next : {FALSE}]
    \cup [closing : {TRUE}, blanket : {FALSE}, next : {FALSE}]

MIN_REASON_LENGTH == 1
MIN_BLOCK_REASON_LENGTH == 2

\* text: the line's code, "" for none.  reason: the words on the directive or in
\* the comment; a directive may have fewer words than make up a unit.
Directive(form, text, reason) == [kind |-> "directive", form |-> form, text |-> text, reason |-> reason]
Code(text) == [kind |-> "code", text |-> text]
Comment(words) == [kind |-> "comment", reason |-> words, text |-> ""]
Blank == [kind |-> "blank", text |-> ""]

Reasons == {"", "few words", "a reason"}

Line ==
  [kind : {"directive"}, form : Forms, text : SuppressionIds \cup {""}, reason : Reasons]
    \cup [kind : {"code"}, text : SuppressionIds]
    \cup [kind : {"comment"}, reason : Nat, text : {""}]
    \cup {Blank}

ASSUME ScanAssumption ==
  \A form \in Forms, text \in SuppressionIds \cup {""} : AnchorOf[form, text] \in SuppressionIds

\* The words of the comment lines directly above, up to the first line that is no
\* comment or is a directive itself.
blockReasonAbove(file, i) ==
  LET words[n \in 0 .. i - 1] ==
        IF n = 0 \/ file[n].kind # "comment" THEN 0 ELSE words[n - 1] + file[n].reason
  IN words[i - 1]

\* In Markdown, where comments are directives, only its own words count.
documented(markdown, file, i) ==
  \/ file[i].reason = "a reason"
  \/ /\ file[i].reason = "" /\ ~file[i].form.closing /\ ~markdown
     /\ blockReasonAbove(file, i) >= MIN_BLOCK_REASON_LENGTH

\* The code a directive covers: that of the next line which has some, if it is of
\* the "next" forms, and that of its own line otherwise.
covered(file, i) ==
  LET code == {j \in i + 1 .. Len(file) : file[j].text # ""}
  IN IF ~file[i].form.next THEN file[i].text
     ELSE IF code = {} THEN ""
     ELSE file[CHOOSE j \in code : \A k \in code : j <= k].text

toSuppression(markdown, file, i) ==
  [id         |-> AnchorOf[file[i].form, covered(file, i)],
   blanket    |-> file[i].form.blanket,
   documented |-> documented(markdown, file, i),
   closing    |-> file[i].form.closing]

scan(markdown, file) ==
  {toSuppression(markdown, file, i) : i \in {j \in DOMAIN file : file[j].kind = "directive"}}

\* Whether a suppression needs a record.
whyUnacceptable(s) == ~s.closing /\ (s.blanket \/ ~s.documented)

unexplained(suppressions) == {s.id : s \in {t \in suppressions : whyUnacceptable(t)}}

-----------------------------------------------------------------------------
(* The same by the rule the check states: a suppression says why, where it *)
(* is written, in its own words or in the comment that leads up to it.     *)

\* A run of comment lines that ends right above line i.
LeadsUpTo(file, j, i) == j < i /\ \A k \in j .. i - 1 : file[k].kind = "comment"

Explained(markdown, file, i) ==
  \/ file[i].reason = "a reason"
  \/ /\ file[i].reason = "" /\ ~markdown
     /\ \/ \E j \in 1 .. i - 1 : LeadsUpTo(file, j, i) /\ file[j].reason >= 2
        \/ \E j, k \in 1 .. i - 1 : /\ j # k /\ LeadsUpTo(file, j, i) /\ LeadsUpTo(file, k, i)
                                    /\ file[j].reason >= 1 /\ file[k].reason >= 1

\* The ids of the suppressions that need a record.
Silent(markdown, file) ==
  {AnchorOf[file[i].form, covered(file, i)] :
     i \in {j \in DOMAIN file : /\ file[j].kind = "directive" /\ ~file[j].form.closing
                                /\ file[j].form.blanket \/ ~Explained(markdown, file, j)}}

=============================================================================
