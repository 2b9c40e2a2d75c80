------------------------------- MODULE LlmUsage -------------------------------
(***************************************************************************)
(* The records of token use the LLM capability keeps in memory (kunkka-    *)
(* core, llm/usage.rs), and the calls to services that it records and does *)
(* not record (capability/llm.rs, and the streamed chat of runtime.rs).    *)
(*                                                                         *)
(* Token counts come from the service and are u32; TokenLimit stands for   *)
(* 2^32.  record adds two of them in u32, which wraps in a release build   *)
(* and panics in a debug build: the process ends, and the records with it. *)
(* The sums of summary are u64 and do not overflow.  A record's time and   *)
(* model decide nothing and are left out; provider is left out because     *)
(* by_provider is by_role with another key.  chats and others are          *)
(* observations of what the services charged; no guard reads chats, and    *)
(* others is read by its bound only.                                       *)
(***************************************************************************)
EXTENDS Naturals, FiniteSets, Sequences, SequencesExt, FiniteSetsExt

CONSTANTS
    UsageRole,     \* role names, as in the request
    TokenLimit,    \* 2^32
    MaxRecords,    \* bound: records at one time
    MaxOthers      \* bound: calls that leave no record, at one time

\* No core answers infinitely many requests.
ASSUME UsageAssumption ==
    TokenLimit \in Nat \ {0} /\ {MaxRecords, MaxOthers} \subseteq Nat /\ IsFiniteSet(UsageRole)

VARIABLES
    records,       \* UsageTracker::records
    chats,         \* calls and tokens charged for chats that end in handle_chat with
                   \* a choice and usage, since the records were empty
    others         \* those charged for every other call since then

usageVars == <<records, chats, others>>

Token == 0..(TokenLimit - 1)
UsageRecord == [role: UsageRole, prompt: Token, completion: Token, total: Token]
Charge == [calls: Nat, tokens: Nat]
NoCharge == [calls |-> 0, tokens |-> 0]
Charged(sum, tokens) == [calls |-> sum.calls + 1, tokens |-> sum.tokens + tokens]

UsageTypeOK == records \in Seq(UsageRecord) /\ chats \in Charge /\ others \in Charge

Emptied == records' = <<>> /\ chats' = NoCharge /\ others' = NoCharge

UsageInit == records = <<>> /\ chats = NoCharge /\ others = NoCharge

Record(role, prompt, completion) ==
    records' = Append(records, [role |-> role, prompt |-> prompt, completion |-> completion,
                                total |-> (prompt + completion) % TokenLimit])

Overflows(prompt, completion) == prompt + completion >= TokenLimit

\* The end of handle_chat, for an answer with a choice and usage.
ChatAnswered(role, prompt, completion) ==
    /\ Len(records) < MaxRecords
    /\ \/ /\ Record(role, prompt, completion)
          /\ chats' = Charged(chats, prompt + completion)
          /\ UNCHANGED others
       \/ /\ Overflows(prompt, completion)    \* a debug build
          /\ Emptied

\* A streamed chat, embeddings, images, and a chat whose answer has no choice
\* or does not carry usage: the service charges for it, and nothing is recorded.
OtherCall(tokens) ==
    /\ others.calls < MaxOthers
    /\ others' = Charged(others, tokens)
    /\ UNCHANGED <<records, chats>>

Clear == Emptied

\* The records live in memory only.
UsageLost == Emptied

NoUse ==
    [requests |-> 0, prompt |-> 0, completion |-> 0,
     by_role |-> [role \in UsageRole |-> [requests |-> 0, total_tokens |-> 0]]]

\* One turn of summary's loop over the records.
CountIn(sum, r) ==
    [sum EXCEPT !.requests = @ + 1,
                !.prompt = @ + r.prompt,
                !.completion = @ + r.completion,
                !.by_role[r.role] = [requests |-> @.requests + 1,
                                     total_tokens |-> @.total_tokens + r.total]]

AddTotal(sum, r) == sum + r.total
Totals(chosen) == FoldLeft(AddTotal, 0, chosen)

\* A variant for the checks: the records' own totals are added up.
SummaryOfTotalsVariant ==
    LET sum == FoldLeft(CountIn, NoUse, records)
    IN  [total_requests |-> sum.requests,
         total_prompt_tokens |-> sum.prompt, total_completion_tokens |-> sum.completion,
         total_tokens |-> Totals(records), by_role |-> sum.by_role]

\* A role without records is in the model's breakdown with zeros.  The request
\* usage_summary answers the four totals; the breakdown is computed and nothing
\* answers it yet (capability/llm.rs:748-756).
Summary ==
    LET sum == FoldLeft(CountIn, NoUse, records)
    IN  [total_requests |-> sum.requests,
         total_prompt_tokens |-> sum.prompt, total_completion_tokens |-> sum.completion,
         total_tokens |-> sum.prompt + sum.completion, by_role |-> sum.by_role]

Recent(limit) ==
    LET start == IF Len(records) > limit THEN Len(records) - limit ELSE 0
    IN  SubSeq(records, start + 1, Len(records))

UsageNext ==
    \/ \E role \in UsageRole, prompt, completion \in Token :
          ChatAnswered(role, prompt, completion)
    \/ \E tokens \in Token : OtherCall(tokens)
    \/ Clear
    \/ UsageLost

UsageSpec == UsageInit /\ [][UsageNext]_usageVars

(* What usage_summary answers is what the services charged for the chats   *)
(* that were recorded, each once, and for no other call: its total does    *)
(* not wrap, though a record's own may.  The breakdown by role accounts    *)
(* for every record and for all but the 2^32 of each that wrapped, and the *)
(* latest records, which usage_records answers, never add up to more than  *)
(* was charged for them (usage.rs:81-133).                                 *)
UsageIsExact ==
    LET wrapped == {i \in DOMAIN records : Overflows(records[i].prompt, records[i].completion)}
    IN  /\ UsageTypeOK
        /\ Summary.total_requests = chats.calls
        /\ Summary.total_tokens = chats.tokens
        /\ MapThenSumSet(LAMBDA role : Summary.by_role[role].requests, UsageRole)
             = Summary.total_requests
        /\ MapThenSumSet(LAMBDA role : Summary.by_role[role].total_tokens, UsageRole)
             + TokenLimit * Cardinality(wrapped) = Summary.total_tokens
        /\ \A limit \in 0..MaxRecords + 1 : Totals(Recent(limit)) <= chats.tokens

(* docs/SDK/capability-llm.md:315: the use of every call is recorded.      *)
EveryCallIsRecorded ==
    /\ Summary.total_requests = chats.calls + others.calls
    /\ Summary.total_tokens = chats.tokens + others.tokens
=============================================================================
