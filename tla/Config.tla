------------------------------- MODULE Config -------------------------------
(***************************************************************************)
(* config.Load (pkg/config): a field of the configuration comes from the   *)
(* file unless an environment variable overrides it, whose name is made    *)
(* from the field's by the regular expression `camel`, match after match.  *)
(* A name is a sequence of characters of which only the class matters:     *)
(* upper case, or anything else.  The struct has string and Boolean fields.*)
(***************************************************************************)
EXTENDS Naturals, Sequences

CONSTANT MaxLength   \* of a field's name

VARIABLES
    field,    \* the name, exported and so beginning with an upper case letter
    kind,     \* "string" or "bool"
    file,     \* the value in the file
    text,     \* of the environment variable, "" when it is not set
    pos,      \* characters matched so far
    words,    \* the parts found so far, each by its first and last position
    value     \* the value the process runs with

(* What the theorems assume: a name has a letter.                          *)
Constants == MaxLength \in Nat \ {0}

vars == <<field, kind, file, text, pos, words, value>>

Upper == "A"
Other == "a"

FieldName ==
    {f \in UNION {[1 .. n -> {Upper, Other}] : n \in 1 .. MaxLength} : f[1] = Upper}

(* Texts by what they mean: strconv.ParseBool takes some for true, some    *)
(* for false, and for any other its result is false and an error.          *)
Text == {"", "true", "false", "other"}

Value(k) == IF k = "bool" THEN {"true", "false"} ELSE Text

Init ==
    /\ field \in FieldName
    /\ kind \in {"string", "bool"}
    /\ file \in Value(kind)
    /\ text \in Text
    /\ pos = 0 /\ words = <<>> /\ value = file

-----------------------------------------------------------------------------
Length == Len(field)

(* Upper case letters from the position on.                                *)
Run == CHOOSE n \in 0 .. Length - pos :
          /\ \A k \in 1 .. n : field[pos + k] = Upper
          /\ pos + n < Length => field[pos + n + 1] = Other

(* Where the other characters after the first k end.                       *)
EndOfWord(k) ==
    CHOOSE e \in pos + k .. Length :
        /\ \A j \in pos + k + 1 .. e : field[j] = Other
        /\ e < Length => field[e + 1] = Upper

(* A group of a match, which may be empty.                                 *)
Part(first, last) == IF first <= last THEN << <<first, last>> >> ELSE <<>>

(* Faulty: the last letter of the run is in both groups.                   *)
MatchTwice ==
    /\ pos < Length
    /\ pos' = EndOfWord(Run)
    /\ words' = words \o Part(pos + 1, pos + Run) \o Part(pos + Run, pos')
    /\ UNCHANGED <<field, kind, file, text, value>>

(* One match.  The first group is empty at the start of a plain word, all  *)
(* of the run but its last letter before one, the whole run at the end.    *)
Match ==
    /\ pos < Length
    /\ IF pos + Run = Length
       THEN pos' = Length /\ words' = words \o Part(pos + 1, pos + Run)
       ELSE /\ pos' = EndOfWord(Run)
            /\ words' = words \o Part(pos + 1, pos + Run - 1) \o Part(pos + Run, pos')
    /\ UNCHANGED <<field, kind, file, text, value>>

(* The variable is set under the words of the field's name as a person     *)
(* would write them: a word begins with an upper case letter that follows  *)
(* another character or precedes one.                                      *)
BeginsWord(j) ==
    /\ field[j] = Upper
    /\ j = 1 \/ field[j - 1] = Other \/ (j < Length /\ field[j + 1] = Other)

Beginnings == {j \in 1 .. Length : BeginsWord(j)}

(* The words found so far lie side by side, from the first letter on.       *)
SideBySide ==
    /\ words # <<>> => words[1][1] = 1
    /\ \A n \in 1 .. Len(words) : words[n][1] <= words[n][2]
    /\ \A n \in 1 .. Len(words) - 1 : words[n + 1][1] = words[n][2] + 1

(* They are the words of the name, each once and in their order.           *)
AsWritten ==
    /\ words # <<>> /\ SideBySide /\ words[Len(words)][2] = Length
    /\ {words[n][1] : n \in 1 .. Len(words)} = Beginnings

(* os.Getenv of the name, which the environment has under the right one.   *)
Getenv == IF AsWritten THEN text ELSE ""

(* handleEnvironmentVars.                                                  *)
Override ==
    /\ pos = Length /\ pos' = Length + 1
    /\ value' = IF Getenv = "" THEN file
                ELSE IF kind = "string" \/ Getenv = "true" THEN Getenv ELSE "false"
    /\ UNCHANGED <<field, kind, file, text, words>>

Next == Match \/ Override

Spec == Init /\ [][Next]_vars

-----------------------------------------------------------------------------
Loaded == pos > Length

(* Every variable has its type.                                            *)
TypeOK ==
    /\ field \in FieldName
    /\ pos \in 0 .. Length + 1
    /\ words \in Seq((1 .. Length) \X (1 .. Length))
    /\ kind \in {"string", "bool"} /\ file \in Value(kind) /\ text \in Text
    /\ value \in Value(kind)

(* "used environment variables (e.g ZookeeperUrl --> ZOOKEEPER_URL)": each *)
(* field is overridden under the name its words suggest, also when some of *)
(* them are abbreviations, and only by a variable that is set.             *)
EnvironmentWins ==
    (Loaded /\ (kind = "string" \/ text # "other")) =>
        value = IF text = "" THEN file ELSE text

=============================================================================
