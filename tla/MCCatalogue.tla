---------------------------- MODULE MCCatalogue ----------------------------
(***************************************************************************)
(* An instance of Catalogue for TLC: the texts repositories answer with.   *)
(***************************************************************************)
EXTENDS Catalogue

CONSTANTS a, b,               \* applications
          c, d                \* categories

Entry(app, cat) == [app |-> app, category |-> cat, lacks |-> {}, idMatches |-> TRUE,
                    isHttp |-> TRUE, sha256 |-> "hex64"]
Index(entries) == [text |-> "json", schema |-> "1.0", hasApps |-> TRUE, entries |-> entries]

\* The entry of a that is sound, and one entry for each reason to skip it.
Unsound == {[Entry(b, d) EXCEPT !.lacks = {"author"}],
            [Entry(b, d) EXCEPT !.idMatches = FALSE],
            [Entry(b, d) EXCEPT !.isHttp = FALSE],
            [Entry(b, d) EXCEPT !.sha256 = "text"]}

MCIndexes == {Index({Entry(a, c)} \cup Unsound),
              Index({[Entry(a, d) EXCEPT !.sha256 = "notText"], Entry(b, c)}),
              Index({}),
              [Index({}) EXCEPT !.text = "malformed"],
              [Index({Entry(a, c)}) EXCEPT !.schema = "notText"],
              [Index({}) EXCEPT !.hasApps = FALSE]}
=============================================================================
