------------------------------ MODULE MCIngest ------------------------------
(***************************************************************************)
(* IngestSuite on an instance small enough for TLC: one field of text and    *)
(* one of numbers, every condition over a few values alone and pairs of      *)
(* well-formed ones; up to three rows in pages of two.                       *)
(***************************************************************************)
EXTENDS IngestSuite, TLC

Words == {"", "home", "[home]", "^h", "(", "true"}
Selections == ("^h" :> {"home"}) @@ ("home" :> {"home", "[home]"}) @@ ("6" :> {"6", "6.0"})
Numbers == ("6" :> 6) @@ ("6.0" :> 6) @@ ("11" :> 11) @@ ("1e16" :> 99) @@ ("10000000000000000" :> 99)
Decimals == "1e16" :> "10000000000000000"
Typed == ("ssid" :> "text") @@ ("channel" :> "number")

J(ty, tx) == [type |-> ty, text |-> tx]
Given == {J("string", t) : t \in {"home", "^h", "(", "6"}}
             \cup {J("number", t) : t \in {"6", "6.0", "11", "1e16"}} \cup {J("bool", "true"), J("null", "")}
Held == Given \cup {J("array", "[home]")}

C(f, o, a, s) == [field |-> f, op |-> o, shape |-> IF a THEN "array" ELSE "scalar", items |-> s]
Fields == {"ssid", "channel", "nosuch"}
Single == {C(f, o, FALSE, <<v>>) : f \in Fields, o \in {"eq", "neq", "in", "matches", "gte", "lte"}, v \in Given}
              \cup {C(f, o, TRUE, s) : f \in Fields, o \in {"in", "eq", "gte"},
                                       s \in {<<>>} \cup {<<v, w>> : v, w \in Given}}
Sound == {C("ssid", o, FALSE, <<J("string", "home")>>) : o \in {"eq", "neq", "matches"}}
             \cup {C("channel", o, FALSE, <<J("number", "6")>>) : o \in {"eq", "neq", "gte", "lte"}}
             \cup {C("ssid", "in", TRUE, <<>>), C("ssid", "in", TRUE, <<J("string", "6"), J("string", "home")>>),
                   C("channel", "in", TRUE, <<J("number", "6.0"), J("number", "11")>>)}

R(m, s) == [mode |-> m, conditions |-> s]
RulesStated == {R(m, <<>>) : m \in {"all", "any"}} \cup {R("all", <<c>>) : c \in Single}
                   \cup {R(m, <<c, d>>) : m \in {"all", "any"}, c, d \in Sound}
PayloadsHeld == UNION {[F -> Held] : F \in SUBSET {"ssid", "channel"}}

\* Rows have an owner or a place when they are inserted.
EmissionRows == {[key |-> k, owned |-> o, located |-> ~o] : k \in {1, 2, NoValue}, o \in BOOLEAN}

\* Ingests are interchangeable, and so are devices, as long as the rules that can be
\* stated are.
Symmetry == Permutations(Ingests) \cup Permutations(Devices)
=============================================================================
