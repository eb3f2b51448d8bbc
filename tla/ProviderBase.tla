--------------------------- MODULE ProviderBase ---------------------------
(***************************************************************************)
(* What the secret providers (pkg/provider) have in common: the remote     *)
(* secrets they read, the answers of their APIs, the results they return   *)
(* to the controllers, and the helpers of pkg/utils and pkg/find.          *)
(*                                                                         *)
(* A payload is told apart only by what the code does to it: "text" is no  *)
(* JSON object, "flat" a JSON object whose field "a" is a string, "deep" a *)
(* JSON object whose field "a" is an object, "empty" has no bytes, "bare"  *)
(* is a secret with labels and no version yet (for Azure, a disabled one). *)
(* Every edit of a remote secret gives it a new version number. tagged is  *)
(* the one mark the code looks for: the managed-by label (or tag, type or  *)
(* origin) of a pushed secret, the environment scope of a GitLab variable. *)
(* place tells the two places where GitLab (project, group) and 1Password  *)
(* (first and second vault) look; the other providers have "own" only.     *)
(***************************************************************************)
EXTENDS Naturals, FiniteSets, Sequences

CONSTANTS Keys,         \* names of remote secrets
          Matching,     \* the names a find's regular expression, path or
                        \* tags select
          Clashing      \* the names that the conversion strategy Default
                        \* maps to one name

ASSUME NamesAssumption == Matching \subseteq Keys /\ Clashing \subseteq Keys

Item(sh, v, t, p) == [shape |-> sh, v |-> v, tagged |-> t, place |-> p]

Absent == Item("absent", 0, FALSE, "own")

Shapes == {"text", "flat", "deep", "empty", "bare"}

(* A request: GetSecret, GetSecretMap, GetAllSecrets, PushSecret or        *)
(* DeleteSecret; prop is the property of the reference ("" when not set),  *)
(* meta the metadataPolicy Fetch.                                          *)
Refs == [key : Keys, prop : {"", "a", "z"}, meta : BOOLEAN]

---------------------------------------------------------------------------
(* The answer of a remote API to one call: "fail" is an error reply,       *)
(* "lost" no reply at all, "garbled" a successful reply whose body is not  *)
(* what the client expects.                                                *)
Answer(st, it) == [st |-> st, item |-> it]

Faults == {Answer("fail", Absent), Answer("lost", Absent), Answer("garbled", Absent)}
Bad(ans) == ans.st \in {"fail", "lost"}
AnswerFor(it) == IF it = Absent THEN Answer("notfound", Absent) ELSE Answer("ok", it)

(* A value handed to the controller: a part of a remote secret.            *)
Part(it, p) == [item |-> it, part |-> p]
Raw(it) == Part(it, "raw")

(* The result of a client's method: the values by name, or an error;       *)
(* NoSecretErr is the one error type the controllers tell apart.           *)
Under(name, x) == [n \in {name} |-> x]
Merge(d1, d2) ==        \* what both have is taken from d1
    [n \in DOMAIN d1 \cup DOMAIN d2 |-> IF n \in DOMAIN d1 THEN d1[n] ELSE d2[n]]
Ok(d)     == [out |-> "ok", data |-> d]
Single(x) == Ok(Under("value", x))
NoData    == Ok(<<>>)
NilData   == Single(Part(Absent, "nil"))        \* a nil value, no error
Error     == [out |-> "error", data |-> <<>>]
Panic     == [out |-> "panic", data |-> <<>>]
NoSecretErr == [out |-> "nosecret", data |-> <<>>]
NotImplemented == Error

(* A method that needs another call goes on.                               *)
GoOn == [out |-> "go", data |-> <<>>]

IsJSON(it) == it.shape \in {"flat", "deep"}

(* gjson.Get on a payload.                                                 *)
Gjson(it, prop) ==
    IF IsJSON(it) /\ prop = "a" THEN Single(Part(it, "a")) ELSE Error

(* The fields of a value that is a JSON object. json.Unmarshal into        *)
(* map[string]string refuses a field that is not a string; into            *)
(* map[string]json.RawMessage it keeps the raw JSON of such a field.       *)
IsObject(x) == \/ x.part = "raw" /\ IsJSON(x.item)
               \/ x.part = "a" /\ x.item.shape = "deep"
               \/ x.part = "tags"
Fields(x) == CASE x.part = "raw" -> Under("a", Part(x.item, "a"))
               [] x.part = "a"   -> Under("x", Part(x.item, "x"))
               [] OTHER -> IF x.item.tagged THEN Under("a", Part(x.item, "tag")) ELSE <<>>
RawMap(res) ==
    IF res.out # "ok" THEN res
    ELSE LET x == res.data["value"]
         IN  IF IsObject(x) THEN Ok(Fields(x)) ELSE Error
StringMap(res) ==
    IF res.out = "ok" /\ res.data["value"] = Raw(res.data["value"].item)
                      /\ res.data["value"].item.shape = "deep"
    THEN Error
    ELSE RawMap(res)

(* find.New and MatchName over the names of a listing.                     *)
MatchName(names) == names \cap Matching

(* The values of a listing that a find returns.                            *)
Pick(names, snapshot) == Ok([k \in names |-> Raw(snapshot[k])])

(* utils.ConvertKeys, convert: two names of the result that become one     *)
(* under the strategy Default are an error.                                *)
ConvertKeys(strategy, res) ==
    IF strategy = "Default" /\ Cardinality(DOMAIN res.data \cap Clashing) > 1 THEN Error ELSE res

Present(snapshot) == {k \in Keys : snapshot[k] # Absent}
At(p, snapshot) == {k \in Present(snapshot) : snapshot[k].place = p}
===========================================================================
