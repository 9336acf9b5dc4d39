------------------------------ MODULE MCWire ------------------------------
(* Wire with every pair of a client and a server, servers that lack a       *)
(* method and servers with a later version of Message.                      *)
EXTENDS Wire

\* fields that are unset, empty, a letter, and a letter behind a zero byte
MCMessages == {[text |-> t, date |-> d] : t \in {<<>>, <<<<7>>>>}, d \in {<<>>, <<<<8>>>>}}
              \cup {[text |-> <<<<>>>>, date |-> <<<<7, 0, 7>>>>]}

Both == {ADD, GET}
Plain == [lang |-> "java", server |-> "java", scheme |-> "standard", strict |-> FALSE,
          http |-> FALSE, methods |-> Both, extra |-> T_STOP]

Pairs == {[Plain EXCEPT !.lang = l, !.server = v, !.strict = t] :
             l \in {"cocoa", "glib", "java", "async"}, v \in {"java", "cocoa"}, t \in BOOLEAN}

Sensible == {k \in Pairs : k.strict => k.lang = "cocoa"}

Tuples == {[Plain EXCEPT !.lang = l, !.scheme = "tuple"] : l \in {"java", "async"}}

Http == {[k EXCEPT !.http = TRUE] : k \in {k \in Sensible : k.lang = "cocoa"}}

Later == {[k EXCEPT !.extra = t] : k \in Sensible \cup Http,
             t \in {T_I16, T_I32, T_DOUBLE, T_LIST, T_MAP}}

Older == {[k EXCEPT !.methods = {x}] : k \in Sensible \cup Http, x \in Both}

MCLinks == Sensible \cup Tuples \cup Http \cup Later \cup Older

=============================================================================
