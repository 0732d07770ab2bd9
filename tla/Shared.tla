------------------------------- MODULE Shared -------------------------------
(***************************************************************************)
(* What all Generate calls of one process share: the package log of        *)
(* warnings (go/dlog.go), the cache of compiled templates (go/template.go) *)
(* and the cache of tokenized model paths (go/getx.go).                    *)
(***************************************************************************)
EXTENDS Naturals, Sequences, FiniteSets, SequencesExt

CONSTANTS
    DLogMax,       \* dLogMax: 1000 in the code
    MaxTemplates,  \* templateCacheMax: 100 in the code
    MaxTokens,     \* getxTokenCacheMax: 1000 in the code
    Unsupported    \* replace keys with a look-around

VARIABLES
    templates,  \* compiled templates, by key
    tokens,     \* token lists, by model path
    dlog,       \* the package log, oldest first
    history,    \* history: every entry ever recorded
    cleared     \* history: how many there were when a caller cleared the log

sharedVars == <<templates, tokens, dlog, history, cleared>>

ASSUME SharedAssumption ==
    /\ DLogMax \in Nat \ {0}
    /\ MaxTemplates \in Nat \ {0}
    /\ MaxTokens \in Nat \ {0}

\* Strings are sequences of characters here, since the keys of the cache
\* are put together from them.
Nul == "\\0"

\* Fault: the pattern of the ref is left out of the key.
KeyOf_NoRef(spec) ==
    spec.open \o <<Nul>>
    \o FlattenSeq([k \in 1..Cardinality(spec.keys) |->
          (IF k = 1 THEN <<>> ELSE <<Nul>>) \o SetToSeq(spec.keys)[k]])

\* The delimiters, the ref and the replace keys in one order, with NULs.
KeyOf(spec) ==
    spec.open \o <<Nul>> \o spec.ref \o <<Nul>>
    \o FlattenSeq([k \in 1..Cardinality(spec.keys) |->
          (IF k = 1 THEN <<>> ELSE <<Nul>>) \o SetToSeq(spec.keys)[k]])

\* The expression assembled from the spec; a key it cannot hold makes it an
\* error, and an empty key lets it match the empty string.
Compile(spec) ==
    [open |-> spec.open, ref |-> spec.ref, branches |-> spec.keys,
     ok |-> spec.keys \cap (Unsupported \cup {<<>>}) = {}]

\* Fault: emptied one entry late.
Room_Late(cache, max) == IF Cardinality(DOMAIN cache) > max THEN <<>> ELSE cache

\* A full cache is emptied before it takes an entry.
Room(cache, max) == IF Cardinality(DOMAIN cache) >= max THEN <<>> ELSE cache

Stored(cache, key, entry) == [k \in DOMAIN cache \cup {key} |-> IF k = key THEN entry ELSE cache[k]]

\* Look up and build under one lock.
Cached(spec) ==
    IF KeyOf(spec) \in DOMAIN templates THEN templates
    ELSE Stored(Room(templates, MaxTemplates), KeyOf(spec), Compile(spec))

\* What tokenizing a path gives.
Tokenize(path) == <<"tokens", path>>

\* Fault: one entry too many is kept.
Kept_OneMore(log) ==
    IF Len(log) > DLogMax THEN SubSeq(log, Len(log) - DLogMax + 1, Len(log)) ELSE log

\* What of the log is kept when an entry is about to be added.
Kept(log) ==
    IF Len(log) >= DLogMax THEN SubSeq(log, Len(log) - DLogMax + 2, Len(log)) ELSE log

Record(entry) ==
    /\ dlog' = Append(Kept(dlog), entry)
    /\ history' = Append(history, entry)
    /\ UNCHANGED cleared

\* DLogSnapshot(true): a caller takes the log and empties it.
ClearLog ==
    /\ dlog # <<>>
    /\ dlog' = <<>>
    /\ cleared' = Len(history)
    /\ UNCHANGED <<templates, tokens, history>>

SharedInit ==
    /\ templates = <<>> /\ tokens = <<>>
    /\ dlog = <<>> /\ history = <<>> /\ cleared = 0

-----------------------------------------------------------------------------

Smaller(a, b) == IF a < b THEN a ELSE b

\* The log holds the newest entries since it was last cleared, in order and
\* whoever recorded them, up to its limit (record, go/dlog.go:62).
BufferHoldsTheLast ==
    dlog = SubSeq(history, Len(history) + 1 - Smaller(DLogMax, Len(history) - cleared), Len(history))
=============================================================================
