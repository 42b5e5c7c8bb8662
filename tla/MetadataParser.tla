--------------------------- MODULE MetadataParser ---------------------------
(***************************************************************************)
(* MetadataParser (src/repository): the text of a repository's index and   *)
(* the applications the client takes from it.  Of a text the model keeps   *)
(* what the parser asks of it, of an application its id and category.      *)
(***************************************************************************)
CONSTANTS Apps,               \* application ids
          Categories          \* categories an entry may name

Required == {"id", "name", "version", "download_url", "author"}

\* An element of "apps".  A required field that is absent, empty or not a
\* string is one the entry lacks (jstr); an element that is no object lacks
\* them all.
Entries == [app : Apps, category : Categories,
            lacks : SUBSET Required,
            idMatches : BOOLEAN,           \* id_re
            isHttp : BOOLEAN,              \* download_url starts with "http"
            sha256 : {"absent", "hex64", "text", "notText"}]

\* The text: schema is what stands under "schema_version", hasApps whether
\* there is an array "apps".
IndexTexts == [text : {"empty", "malformed", "json"},
               schema : {"absent", "1.0", "otherText", "notText"},
               hasApps : BOOLEAN,
               entries : SUBSET Entries]

Offers == [id : Apps, category : Categories]

\* parse_app reads a hash that is not a string as no hash at all.
ParsedHash(e) == IF e.sha256 = "notText" THEN "absent" ELSE e.sha256

\* validate
IsValid(e) == /\ e.lacks = {}
              /\ e.idMatches
              /\ e.isHttp
              /\ ParsedHash(e) \in {"absent", "hex64"}

\* parse_app
ParseApp(e) == [id |-> e.app, category |-> e.category]

\* parse_index.  A schema_version that is not a string throws: the accessor
\* stands outside the try blocks.
Verdict(t) == CASE t.text # "json"                        -> "fails"
                [] t.text = "json" /\ t.schema = "notText" -> "throws"
                [] OTHER -> IF t.hasApps THEN "parsed" ELSE "fails"

\* Entries that are not valid are skipped.
ParsedOffers(t) == {ParseApp(e) : e \in {f \in t.entries : IsValid(f)}}
=============================================================================
