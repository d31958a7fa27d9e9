--------------------------- MODULE MCMarshalJson ---------------------------
(***************************************************************************)
(* Small instances of MarshalJson for TLC: every schema type of iot.go,    *)
(* and Generic, with the kinds and tags that gensupport knows and iot.go   *)
(* does not use.  At most two fields of a struct are set or listed, one of *)
(* a Device.                                                               *)
(***************************************************************************)
EXTENDS MarshalJson, Schemas

Generic ==
    {<<StringMap("Labels"), Number("Size"),
       [name |-> "Any", tag |-> "omitempty", kind |-> "interface"],
       [name |-> "Internal", tag |-> "none", kind |-> "scalar"]>>,
     <<[name |-> "Limits", tag |-> "omitempty", kind |-> "anyMap"], Slice("Parts")>>,
     <<[name |-> "Ports", tag |-> "omitempty", kind |-> "otherMap"], Pointer("Next")>>}

(* What a test of one field tells apart.                                   *)
Choices(g) ==
    [value : ValuesOf(g), force : BOOLEAN, null : BOOLEAN,
     keys : IF g.kind \in Maps THEN SUBSET Keys ELSE {{}}]

(* The call with every field empty and both lists empty.                   *)
Blank(s) ==
    [schema |-> s,
     value |-> [n \in DOMAIN s |->
                   [is |-> IF s[n].kind = "scalar" THEN "empty" ELSE "nil", keys |-> {}]],
     force |-> {}, null |-> {}, nullKeys |-> {}]

(* Field j of x as in a.                                                   *)
With(x, j, a) ==
    LET n == x.schema[j].name
    IN  [x EXCEPT !.value[j] = a.value,
                  !.force = @ \cup (IF a.force THEN {n} ELSE {}),
                  !.null = @ \cup (IF a.null THEN {n} ELSE {}),
                  !.nullKeys = @ \cup ({n} \X a.keys)]

Settable(s) == {j \in DOMAIN s : s[j].tag # "ignored"}

OneSet(s) == UNION {{With(Blank(s), j, a) : a \in Choices(s[j])} : j \in Settable(s)}

CallsOf(s) ==
    OneSet(s)
    \cup UNION {{With(x, j, a) : x \in OneSet(s), a \in Choices(s[j])} : j \in Settable(s)}

(* Lists that name no field, or null keys of a field that is no map.       *)
StrayCalls(s) ==
    {[Blank(s) EXCEPT !.force = {"Typo"}], [Blank(s) EXCEPT !.null = {"Typo"}],
     [Blank(s) EXCEPT !.nullKeys = {s[1].name, "Typo"} \X Keys]}

AllInputs ==
    OneSet(Device)
    \cup UNION {CallsOf(s) : s \in (Schemas \ {Device}) \cup Generic}
    \cup UNION {StrayCalls(s) : s \in Schemas \cup Generic}
=============================================================================
