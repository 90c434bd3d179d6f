----------------------------- MODULE MCProcess -----------------------------
(***************************************************************************)
(* The process for TLC: the loading of its configuration (Config), its     *)
(* startup and shutdown (Lifecycle) or its answers while it serves (Api).  *)
(* An initial state has one of them begin and the others at their end.     *)
(***************************************************************************)
EXTENDS Lifecycle

CONSTANTS MaxLength,                  \* of Config
          Id, MaxBatch, MaxFaults     \* of Api

VARIABLES
    field, kind, file, text, pos, words, value,              \* Config
    docs, ctr, granted, unused, posted, told, answer,        \* Api
    asked, faults

configVars == <<field, kind, file, text, pos, words, value>>
apiVars == <<docs, ctr, granted, unused, posted, told, answer, asked, faults>>

Configuration == INSTANCE Config

Answers == INSTANCE Api WITH requests <- asked

ASSUME ProcessAssumption == Configuration!Constants /\ Answers!Constants

Loaded ==
    /\ field = <<"A">> /\ kind = "string" /\ file = "true" /\ text = ""
    /\ words = << <<1, 1>> >> /\ value = file
    /\ pos = 2

Gone ==
    /\ mode = "rancher2" /\ ensure = FALSE
    /\ main = "gone" /\ exit = "complete"
    /\ notify = TRUE /\ pending = TRUE /\ cancelled = TRUE
    /\ wg = {} /\ server = "closed" /\ dbOpen = FALSE
    /\ handler = [h \in Handler |-> "none"]
    /\ cut = 0 /\ requests = 0 /\ signals = 1

Silent ==
    /\ docs = {} /\ ctr = {} /\ granted = {}
    /\ unused = {} /\ posted = {} /\ told = FALSE
    /\ answer = [op |-> "none", ids |-> <<>>, code |-> 0]
    /\ asked = MaxRequests /\ faults = MaxFaults

MCInit ==
    \/ Configuration!Init /\ Gone /\ Silent
    \/ Loaded /\ Init /\ Silent
    \/ Loaded /\ Gone /\ Answers!Init

MCNext ==
    \/ Configuration!Next /\ UNCHANGED <<vars, apiVars>>
    \/ Next /\ UNCHANGED <<configVars, apiVars>>
    \/ Answers!Next /\ UNCHANGED <<configVars, vars>>

MCSpec == MCInit /\ [][MCNext]_<<configVars, vars, apiVars>> /\ Fairness

-----------------------------------------------------------------------------
(* Properties, beside those of Lifecycle.                                  *)

(* A field of the configuration is overridden by the environment variable  *)
(* that its words suggest, if that is set.                                 *)
EnvironmentWins == Configuration!TypeOK /\ Configuration!EnvironmentWins

(* 4xx: nothing has changed.  204: each entry of the batch is an instance  *)
(* that is gone.  A client that repeats its POST until it is answered gets *)
(* one instance more for each fault.                                       *)
AnswersHold ==
    /\ []Answers!TypeOK
    /\ Answers!RefusedUnchanged
    /\ Answers!DeleteExact
    /\ []Answers!CopiesBounded

=============================================================================
