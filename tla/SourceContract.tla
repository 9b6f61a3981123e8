------------------------------ MODULE SourceContract ------------------------------
(***************************************************************************)
(* How the source-only contracts of packages/packets review a request.     *)
(* Each of them takes an untrusted document, normalises field by field,    *)
(* fills what is missing from its default evidence, collects errors, and   *)
(* hands out evidence only when there are none.  This module says what     *)
(* their normalisers have in common; a module per contract says what its   *)
(* fields are and which rules relate them.                                 *)
(*                                                                         *)
(* A text is abstracted to what the normalisers tell apart.  "plain" and   *)
(* "another" fit the pattern of their place.  So do "secret", which holds  *)
(* a secret-like value, "unsafe", which names an authority that the file's *)
(* own pattern refuses, and, where the pattern admits blanks, "command",   *)
(* which spells a raw command.  "odd" fits no pattern.  "default" marks    *)
(* text of the contract's own default evidence, which is never checked.    *)
(* Members of an enumeration and contract identifiers stand for themselves.*)
(* That uniqueStrings sorts some lists of texts and drops repetitions from *)
(* them is left out.                                                       *)
(***************************************************************************)
EXTENDS Integers, Sequences, FiniteSets, TLC

Refs == {"plain", "another", "secret", "unsafe"}
Strings == Refs \cup {"command"}
Texts == Strings \cup {"odd"}

-----------------------------------------------------------------------------
(***************************************************************************)
(* Documents.                                                              *)
(***************************************************************************)
T(text) == [kind |-> "text", text |-> text]
N(number) == [kind |-> "number", number |-> number]
O(parts) == [kind |-> "object", parts |-> parts]
L(items) == [kind |-> "list", items |-> items]
Absent == [kind |-> "absent"]     \* missing, or of another type
Null == [kind |-> "null"]

TextsOfLeaf(v) ==
    CASE v.kind = "text" -> {v.text}
      [] v.kind = "list" -> {v.items[i].text : i \in {j \in DOMAIN v.items :
                                                        v.items[j].kind = "text"}}
      [] OTHER -> {}

TextsOfObject(v) ==
    IF v.kind = "object" THEN UNION {TextsOfLeaf(v.parts[p]) : p \in DOMAIN v.parts}
    ELSE TextsOfLeaf(v)

TextsOf(v) ==
    IF v.kind = "list" THEN UNION {TextsOfObject(v.items[i]) : i \in DOMAIN v.items}
    ELSE TextsOfObject(v)

-----------------------------------------------------------------------------
(***************************************************************************)
(* What a normaliser asks of the value it is given.                        *)
(***************************************************************************)
Text(texts) == [shape |-> "text", texts |-> texts]
Level == [shape |-> "number", scale |-> 0 .. 8]
AnyNumber == [shape |-> "number", scale |-> Int]
\* A list of texts: every one has to fit, or those that do not are left out
\* and one has to remain.
EveryOf(texts, least) == [shape |-> "every", texts |-> texts, least |-> least]
SomeOf(texts) == [shape |-> "some", texts |-> texts, least |-> 1]
\* An object: its parts, whether other keys are refused, and the texts that are
\* refused wherever they stand in it.
Object(parts, refused) ==
    [shape |-> "object", parts |-> parts, refused |-> refused, closed |-> TRUE]
Open(object) == [object EXCEPT !.closed = FALSE]
\* A list of such objects, or of bare texts; `sample` is one that a requester
\* would send.  Of an item the evidence keeps the object, or one text made of
\* the parts that are told.
List(of, least, sample) ==
    [shape |-> "list", of |-> of, least |-> least, sample |-> sample, bare |-> {}, told |-> {}]
OrBare(list, texts) == [list EXCEPT !.bare = texts]
Told(list, parts) == [list EXCEPT !.told = parts]

\* A part that is replaced by the contract's own when it does not fit.
Lenient(of, fallback) == [shape |-> "lenient", of |-> of, fallback |-> fallback]

True == Text({"true"})

FitsPlain(d, v) ==
    CASE d.shape = "text" -> v.kind = "text" /\ v.text \in d.texts
      [] d.shape = "number" -> v.kind = "number" /\ v.number \in d.scale
      [] d.shape = "every" ->
            /\ v.kind = "list"
            /\ Len(v.items) >= d.least
            /\ \A i \in DOMAIN v.items : v.items[i].kind = "text" /\ v.items[i].text \in d.texts
      [] d.shape = "some" ->
            /\ v.kind = "list"
            /\ \E i \in DOMAIN v.items : v.items[i].kind = "text" /\ v.items[i].text \in d.texts

FitsLeaf(d, v) == d.shape = "lenient" \/ FitsPlain(d, v)

Part(v, p) == IF p \in DOMAIN v.parts THEN v.parts[p] ELSE Absent

FitsObject(d, v) ==
    /\ v.kind = "object"
    /\ d.closed => DOMAIN v.parts \subseteq DOMAIN d.parts
    /\ TextsOfObject(v) \cap d.refused = {}
    /\ \A p \in DOMAIN d.parts : FitsLeaf(d.parts[p], Part(v, p))

Bare(d, item) == item.kind = "text" /\ item.text \in d.bare

Fits(d, v) ==
    CASE d.shape = "object" -> FitsObject(d, v)
      [] d.shape = "list" ->
            /\ v.kind = "list"
            /\ Len(v.items) >= d.least
            /\ \A i \in DOMAIN v.items : Bare(d, v.items[i]) \/ FitsObject(d.of, v.items[i])
      [] OTHER -> FitsLeaf(d, v)

\* What a fitting value becomes in the evidence.
NormalLeaf(d, v) ==
    CASE d.shape = "some" ->
            L(SelectSeq(v.items, LAMBDA t : t.kind = "text" /\ t.text \in d.texts))
      [] d.shape = "lenient" -> IF FitsPlain(d.of, v) THEN v ELSE d.fallback
      [] OTHER -> v

NormalObject(d, v) == O([p \in DOMAIN d.parts |-> NormalLeaf(d.parts[p], Part(v, p))])

\* A text that holds other texts holds what is refused in any of them.
Joined(texts) ==
    CASE "secret" \in texts -> "secret"
      [] "unsafe" \in texts -> "unsafe"
      [] "command" \in texts -> "command"
      [] OTHER -> CHOOSE t \in texts : TRUE

NormalItem(d, item) ==
    CASE Bare(d, item) -> item
      [] d.told # {} -> T(Joined({item.parts[p].text : p \in d.told}))
      [] OTHER -> NormalObject(d.of, item)

Normal(d, v) ==
    CASE d.shape = "object" -> NormalObject(d, v)
      [] d.shape = "list" ->
            L([i \in DOMAIN v.items |-> NormalItem(d, v.items[i])])
      [] OTHER -> NormalLeaf(d, v)

-----------------------------------------------------------------------------
(***************************************************************************)
(* A contract is its fields, its default evidence (`stated` where it is    *)
(* more than a fitting value of each field), and the flags that no         *)
(* request may raise.  `restated` says what a request may say of the flags *)
(* and of side_effects: most contracts let it repeat what they state       *)
(* anyway, some refuse even that.  A request that passes its fields still  *)
(* has to satisfy the contract's rules on the effective values.            *)
(***************************************************************************)
LiveFlags ==
    {"live_adapter_invocation_allowed", "live_broker_dispatch_allowed", "live_execution_allowed"}

NothingStated == [none \in {} |-> Absent]

mayRestate == [flags |-> {T("false")}, side_effects |-> {L(<<>>)}]


FieldsPass(contract, request) ==
    /\ request.kind = "object"
    /\ DOMAIN request.parts \subseteq
          DOMAIN contract.fields \cup contract.flags \cup {"version", "side_effects"}
    /\ \A key \in DOMAIN request.parts :
          CASE key = "version" -> request.parts[key] = T("current")
            [] key = "side_effects" -> request.parts[key] \in contract.restated.side_effects
            [] key \in contract.flags -> request.parts[key] \in contract.restated.flags
            [] OTHER -> Fits(contract.fields[key], request.parts[key])

Effective(contract, request) ==
    [f \in DOMAIN contract.fields |->
        IF f \in DOMAIN request.parts THEN Normal(contract.fields[f], request.parts[f])
        ELSE contract.default[f]]

Answer(ok, evidence) ==
    IF ok THEN [ok |-> TRUE, evidence |-> evidence] ELSE [ok |-> FALSE]

\* The rules are put to the values that the request leaves in force.
Reviewed(contract, request, Rules(_)) ==
    LET e == Effective(contract, request)
    IN  Answer(FieldsPass(contract, request) /\ Rules(e), e)

\* Lists of the evidence, and what their items say.
Count(e, f) == Len(e[f].items)
NoEmptyList(e) == \A f \in DOMAIN e : e[f].kind = "list" => Count(e, f) > 0
Named(e, f, part) == {e[f].items[i].parts[part].text : i \in DOMAIN e[f].items}

-----------------------------------------------------------------------------
(***************************************************************************)
(* Values that a requester may send for a field: fitting ones, and each    *)
(* way in which one part may be off.                                       *)
(***************************************************************************)
Pick(texts) == IF "plain" \in texts THEN "plain" ELSE CHOOSE t \in texts : TRUE

PlainLeaf(d) ==
    CASE d.shape = "text" -> T(Pick(d.texts))
      [] d.shape = "number" -> N(4)
      [] d.shape = "lenient" -> d.fallback
      [] OTHER -> L(<<T(Pick(d.texts))>>)

PlainObject(d) == O([p \in DOMAIN d.parts |-> PlainLeaf(d.parts[p])])

\* The same shape in the words of the contract's own default evidence.
DefaultLeaf(d) ==
    CASE "texts" \in DOMAIN d /\ "plain" \in d.texts ->
            IF d.shape = "text" THEN T("default") ELSE L(<<T("default")>>)
      [] OTHER -> PlainLeaf(d)

DefaultObject(d, v) ==
    O([p \in DOMAIN d.parts |->
        IF v.parts[p] = PlainLeaf(d.parts[p]) THEN DefaultLeaf(d.parts[p]) ELSE v.parts[p]])

Default(d) ==
    CASE d.shape = "object" -> DefaultObject(d, PlainObject(d))
      [] d.shape = "list" ->
            L([i \in DOMAIN d.sample |->
                IF d.told # {} THEN T("default") ELSE DefaultObject(d.of, d.sample[i])])
      [] OTHER -> DefaultLeaf(d)

DefaultsOf(fields) == [f \in DOMAIN fields |-> Default(fields[f])]

Contract(fields, stated, flags) ==
    [fields |-> fields, default |-> stated @@ DefaultsOf(fields), flags |-> flags,
     restated |-> mayRestate]

\* Items that differ only in one part, which takes the given values in turn.
Each(d, part, values) ==
    [i \in DOMAIN values |-> O([PlainObject(d).parts EXCEPT ![part] = T(values[i])])]

PlainVariants(d) ==
    {Absent} \cup
    CASE d.shape = "text" -> {T(t) : t \in d.texts \cup Texts}
      [] d.shape = "number" -> {N(n) : n \in {-1, 0, 3, 4, 5, 8, 9}}
      [] OTHER -> {L(<<>>)} \cup {L(<<T(t)>>) : t \in Texts}
                   \cup {L(<<PlainLeaf(d).items[1], T(t)>>) : t \in Texts}

LeafVariants(d) == PlainVariants(IF d.shape = "lenient" THEN d.of ELSE d)

ChangedObjects(d, object) ==
    {Absent}
    \cup UNION {{O([object.parts EXCEPT ![p] = v]) : v \in LeafVariants(d.parts[p])} :
                    p \in DOMAIN d.parts}
    \cup {O(object.parts @@ ("other" :> T(t))) : t \in {"plain", "secret", "unsafe"}}

ObjectVariants(d) == ChangedObjects(d, PlainObject(d))

Variants(d) ==
    CASE d.shape = "object" -> ObjectVariants(d)
      [] d.shape = "list" ->
            {Absent, L(<<>>), L(d.sample)}
            \cup {L(SubSeq(d.sample, 1, i - 1) \o SubSeq(d.sample, i + 1, Len(d.sample))) :
                      i \in DOMAIN d.sample}
            \cup {L(Append(d.sample, v)) : v \in ChangedObjects(d.of, d.sample[1])}
            \cup {L([d.sample EXCEPT ![1] = v]) : v \in ChangedObjects(d.of, d.sample[1])}
            \cup {L(<<T(t)>>) : t \in d.bare}
      [] OTHER -> LeafVariants(d)

=================================================================================
