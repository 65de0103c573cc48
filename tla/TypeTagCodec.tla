---------------------------- MODULE TypeTagCodec ----------------------------
(***************************************************************************)
(* The type-tag codec of bcs/serializer.go: TypeTagParseFromStr with its  *)
(* two regular expressions and ParseStructTypeArgs, the printer           *)
(* TagToString, and the canonical form and object id of a struct tag.     *)
(* A caller parses a string, prints the tag back, parses again, and       *)
(* derives object ids.                                                     *)
(*                                                                         *)
(* A string is a sequence of tokens: the characters ":", "<", ">", ","    *)
(* and " " that the regular expressions and the splitter look at, and     *)
(* words (an identifier, a hex address, a primitive name, "vector") that  *)
(* contain none of them and so are never cut.  A tag is a record: a       *)
(* primitive [kind |-> name], [kind |-> "vector", elem], or [kind |->     *)
(* "struct", address, module, name, params] (BcsTypeTag and StructTag of  *)
(* bcs/types.go).  The SHA3 of the object id is ideal.                    *)
(***************************************************************************)
EXTENDS GenericSplit

CONSTANTS
    Inputs,          \* the strings callers parse
    Tags,            \* the tags callers build as BcsTypeTag values
    AddressNormal,   \* each address word to its zero-padded 32-byte form
    NoTag,           \* nothing parsed yet
    Panic            \* the call panicked

ASSUME CodecAssumption ==
    /\ Inputs \subseteq Seq(STRING)
    /\ AddressNormal \in [DOMAIN AddressNormal -> STRING]

VARIABLES
    str,        \* the string the caller holds
    normalize,  \* the normalizeAddress argument this caller passes
    tag,        \* what the last TypeTagParseFromStr returned
    rendered,    \* the tag whose TagToString is str, or NoTag
    objectId    \* what the last StructTagToObjectID returned, or NoTag

vars == <<str, normalize, tag, rendered, objectId>>

ColonColon == <<":", ":">>

PrimitiveNames ==
    {"address", "bool", "u8", "u16", "u32", "u64", "u128", "u256", "signer"}

(* strings.Join of token strings.                                          *)
JoinWith(parts, sep) ==
    FlattenSeq([j \in DOMAIN parts |->
                    IF j = 1 THEN parts[j] ELSE sep \o parts[j]])

(* NormalizeRoochAddress and CanonicalRoochAddress (address package, not  *)
(* in this repository): a known address word becomes its full form.       *)
NormalizeRoochAddress(a) ==
    IF Len(a) = 1 /\ a[1] \in DOMAIN AddressNormal
    THEN <<AddressNormal[a[1]]>> ELSE a

-----------------------------------------------------------------------------
(* vectorRegex ^vector<(.+)>$                                              *)
VectorMatch(s) ==
    Len(s) >= 4 /\ s[1] = "vector" /\ s[2] = "<" /\ s[Len(s)] = ">"

(* Mutant: group 5 non-greedy, (<(.+?)>)?, stops at the first ">".       *)
StructMatchLazy(s) ==
    LET colon(from) == {k \in DOMAIN s : k >= from /\ s[k] = ":"}
        p == Min(colon(1))
        q == Min(colon(p + 2))
        t == q + 2
        lt == {k \in DOMAIN s : k >= t /\ s[k] = "<"}
        r == IF lt = {} THEN Len(s) + 1 ELSE Min(lt)
        gt == {k \in DOMAIN s : k >= r + 2 /\ s[k] = ">"}
    IN  IF /\ colon(1) # {} /\ p > 1 /\ p < Len(s) /\ s[p + 1] = ":"
           /\ colon(p + 2) # {} /\ q > p + 2 /\ q < Len(s) /\ s[q + 1] = ":"
           /\ t <= Len(s) /\ s[t] # "<"
        THEN [ok |-> TRUE, address |-> SubSeq(s, 1, p - 1),
              module |-> SubSeq(s, p + 2, q - 1), name |-> SubSeq(s, t, r - 1),
              args |-> IF gt = {} THEN <<>> ELSE SubSeq(s, r + 1, Min(gt) - 1)]
        ELSE [ok |-> FALSE]

(* structRegex ^([^:]+)::([^:]+)::([^<]+)(<(.+)>)? under Go's leftmost-   *)
(* first matching: groups 1 and 2 run to the next colon, group 3 to the   *)
(* first "<", and the optional group 4 takes everything up to the LAST    *)
(* ">" when there is one at least two tokens on; no end anchor, so what   *)
(* follows is ignored.                                                     *)
StructMatch(s) ==
    LET colon(from) == {k \in DOMAIN s : k >= from /\ s[k] = ":"}
        p == Min(colon(1))
        q == Min(colon(p + 2))
        t == q + 2
        lt == {k \in DOMAIN s : k >= t /\ s[k] = "<"}
        r == IF lt = {} THEN Len(s) + 1 ELSE Min(lt)
        gt == {k \in DOMAIN s : k >= r + 2 /\ s[k] = ">"}
    IN  IF /\ colon(1) # {} /\ p > 1 /\ p < Len(s) /\ s[p + 1] = ":"
           /\ colon(p + 2) # {} /\ q > p + 2 /\ q < Len(s) /\ s[q + 1] = ":"
           /\ t <= Len(s) /\ s[t] # "<"
        THEN [ok |-> TRUE, address |-> SubSeq(s, 1, p - 1),
              module |-> SubSeq(s, p + 2, q - 1), name |-> SubSeq(s, t, r - 1),
              args |-> IF gt = {} THEN <<>> ELSE SubSeq(s, r + 1, Max(gt) - 1)]
        ELSE [ok |-> FALSE]

RECURSIVE TypeTagParseFromStr(_, _), ParseStructTypeArgs(_, _)

TypeTagParseFromStr(s, norm) ==
    IF Len(s) = 1 /\ s[1] \in PrimitiveNames THEN [kind |-> s[1]]
    ELSE IF VectorMatch(s)
    THEN LET e == TypeTagParseFromStr(SubSeq(s, 3, Len(s) - 1), norm)
         IN  IF e = Panic THEN Panic ELSE [kind |-> "vector", elem |-> e]
    ELSE LET m == StructMatch(s)
             ps == IF m.ok /\ m.args # <<>>
                   THEN ParseStructTypeArgs(m.args, norm) ELSE <<>>
         IN  IF ~m.ok \/ ps = Panic THEN Panic
             ELSE [kind |-> "struct",
                   address |-> IF norm THEN NormalizeRoochAddress(m.address)
                               ELSE m.address,
                   module |-> m.module, name |-> m.name, params |-> ps]

ParseStructTypeArgs(s, norm) ==
    LET tokens == SplitGenericParameters(s)
        parsed == [j \in DOMAIN tokens |-> TypeTagParseFromStr(tokens[j], norm)]
    IN  IF \E j \in DOMAIN parsed : parsed[j] = Panic THEN Panic ELSE parsed

(* TagToString: struct parameters are joined with ", ".                   *)
RECURSIVE TagToString(_)
TagToString(t) ==
    CASE t.kind = "vector" -> <<"vector", "<">> \o TagToString(t.elem) \o <<">">>
      [] t.kind = "struct" ->
            t.address \o ColonColon \o t.module \o ColonColon \o t.name
            \o (IF t.params = <<>> THEN <<>>
                ELSE <<"<">>
                     \o JoinWith([j \in DOMAIN t.params |-> TagToString(t.params[j])],
                                 <<",", " ">>)
                     \o <<">">>)
      [] OTHER -> <<t.kind>>

(* TypeTagToString accepts a string, a map holding "Vector" or a map      *)
(* holding "Struct"; a BcsTypeTag, which is what StructTag.TypeParams     *)
(* holds, passes none of its type assertions and reaches the panic.       *)
TypeTagToString(t) == Panic

StructTagToCanonicalString(t) ==
    LET head == NormalizeRoochAddress(t.address) \o ColonColon \o t.module
                \o ColonColon \o t.name
        params == [j \in DOMAIN t.params |-> TypeTagToString(t.params[j])]
    IN  IF \E j \in DOMAIN params : params[j] = Panic THEN Panic
        ELSE head \o (IF params = <<>> THEN <<>>
                      ELSE <<"<">> \o JoinWith(params, <<",">>) \o <<">">>)

StructTagToObjectID(t) ==
    LET c == StructTagToCanonicalString(t)
    IN  IF c = Panic THEN Panic ELSE [sha3 |-> c]

-----------------------------------------------------------------------------
(* A caller starts from a string to parse or from a tag it built.        *)
Init ==
    /\ \/ str \in Inputs /\ tag = NoTag
       \/ str = <<>> /\ tag \in Tags
    /\ normalize \in BOOLEAN
    /\ rendered = NoTag
    /\ objectId = NoTag

Parse ==
    /\ tag' = TypeTagParseFromStr(str, normalize)
    /\ objectId' = NoTag
    /\ UNCHANGED <<str, normalize, rendered>>

Parsed == tag \notin {NoTag, Panic}

Stringify ==
    /\ Parsed
    /\ str' = TagToString(tag)
    /\ rendered' = tag
    /\ tag' = NoTag
    /\ objectId' = NoTag
    /\ UNCHANGED normalize

ObjectID ==
    /\ Parsed /\ tag.kind = "struct"
    /\ objectId' = StructTagToObjectID(tag)
    /\ UNCHANGED <<str, normalize, tag, rendered>>

Next == Parse \/ Stringify \/ ObjectID

(* The current tag is what TypeTagParseFromStr returned for str (a tag *)
(* built by the caller starts with the empty string).                    *)
ParsedFromStr == Parsed /\ str # <<>>

Spec == Init /\ [][Next]_vars

-----------------------------------------------------------------------------
(* The canonical string of spec.md 4.2: normalised address, parameters    *)
(* joined by "," with no space.                                            *)
RECURSIVE CanonicalString(_)
CanonicalString(t) ==
    CASE t.kind = "vector" ->
            <<"vector", "<">> \o CanonicalString(t.elem) \o <<">">>
      [] t.kind = "struct" ->
            NormalizeRoochAddress(t.address) \o ColonColon \o t.module
            \o ColonColon \o t.name
            \o (IF t.params = <<>> THEN <<>>
                ELSE <<"<">>
                     \o JoinWith([j \in DOMAIN t.params |->
                                    CanonicalString(t.params[j])], <<",">>)
                     \o <<">">>)
      [] OTHER -> <<t.kind>>

(* A tag with every struct address normalised, as the parser returns it   *)
(* when normalizeAddress is set.                                           *)
RECURSIVE NormalizedTag(_)
NormalizedTag(t) ==
    CASE t.kind = "vector" -> [t EXCEPT !.elem = NormalizedTag(t.elem)]
      [] t.kind = "struct" ->
            [t EXCEPT !.address = NormalizeRoochAddress(t.address),
                      !.params = [j \in DOMAIN t.params |->
                                    NormalizedTag(t.params[j])]]
      [] OTHER -> t

(* Printing a tag with TagToString and parsing the result gives back the  *)
(* same tag (with its addresses normalised if the caller asks for it):    *)
(* the ", " separator, the greedy last-">" match of structRegex and the   *)
(* depth-aware split have to agree for every nesting of vectors and       *)
(* structs.                                                                *)
ParseInvertsTagToString ==
    rendered # NoTag /\ tag # NoTag =>
        tag = IF normalize THEN NormalizedTag(rendered) ELSE rendered

(* StructTagToObjectID of a struct tag is the SHA3 of the tag's          *)
(* canonical string (spec.md 4.2), for tags with type parameters too:     *)
(* spec.md 8 fixes the object id of 0x3::coin_store::CoinStore with one   *)
(* struct parameter.  StructTagToCanonicalString (serializer.go:23-35)    *)
(* hands each parameter to TypeTagToString.                                *)
ObjectIdOfCanonical ==
    objectId # NoTag => objectId = [sha3 |-> CanonicalString(tag)]

=============================================================================
