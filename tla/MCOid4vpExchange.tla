-------------------------- MODULE MCOid4vpExchange --------------------------
\* Finite instances of Oid4vpExchange: two requests, two runs, two editors.
EXTENDS Oid4vpExchange

CONSTANTS r1, r2, w1, w2, e1, e2, p1, p2

TwoRequests == {r1, r2}
TwoRuns == {w1, w2}
TwoEditors == {e1, e2}
TwoPayloads == {p1, p2}

\* Versions that are there, that are next, and that are out of order as text.
NamedVersions == {8, 10}

NoneOrOneVersion == {{}, {[id |-> 0, version |-> 8, payload |-> p1]}}

Editing == [pages |-> {}, runs |-> {}, saving |-> FALSE, contacts |-> {"none"},
            version |-> None, modes |-> Mode, incidents |-> 2]

(* Editors alone, in every mode; a request opened twice, in a wallet that  *)
(* saves its machines; two requests that are made at once, and one run,    *)
(* while something goes wrong; and a relying party for version 8.          *)
AllScenes == {Editing,
              [Editing EXCEPT !.pages = {r1}, !.runs = TwoRuns, !.saving = TRUE, !.modes = {},
                              !.contacts = {"none", "name"}, !.incidents = 1],
              [Editing EXCEPT !.pages = TwoRequests, !.runs = {w1},
                              !.modes = {"AutoIncrement"}, !.incidents = 1],
              [Editing EXCEPT !.pages = {r1}, !.runs = {w1}, !.version = 8,
                              !.modes = {"AutoIncrement"}, !.incidents = 1]}
=============================================================================
