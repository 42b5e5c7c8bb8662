------------------------------- MODULE Config -------------------------------
(***************************************************************************)
(* Config (src/config): the settings in memory and config.json.  Of the    *)
(* settings the model keeps one scalar, verify_hashes, and the list of     *)
(* repositories; a repository has an id, an address and an enabled flag.   *)
(*                                                                         *)
(* config.json is written by save, or by hand before the client starts: a  *)
(* text written by hand may have a value of the wrong type.                *)
(***************************************************************************)
EXTENDS Storage, Sequences

CONSTANTS Urls,               \* addresses a repository may have
          NotUtf8,            \* those whose text is not UTF-8
          MaxIds              \* ids the screen may give (a bound)

ASSUME SomeUrlsAreNotUtf8 == NotUtf8 \subseteq Urls
ASSUME MaxIdsIsNat == MaxIds \in Nat

VARIABLES config,             \* m_data
          configFile          \* config.json

configVars == <<config, configFile>>

\* The screen gives the ids from 1 to MaxIds; the two next to them a person may
\* have written.
Sources == [id : 0..(MaxIds + 1), url : Urls, enabled : BOOLEAN]
SettingsData == [verify : BOOLEAN, repositories : Seq(Sources)]
Defaults == [verify |-> TRUE, repositories |-> <<>>]

\* "cut" is any text that does not parse.  breaksAt is where from_json meets a
\* value of the wrong type.
Files == [text : {"missing", "cut", "json"},
          settings : SettingsData,
          breaksAt : {"nowhere", "scalars", "ui", "repositories"}]

NoText(text) == [text |-> text, settings |-> Defaults, breaksAt |-> "nowhere"]
Json(settings) == [text |-> "json", settings |-> settings, breaksAt |-> "nowhere"]

\* What a person may have left: nothing, or up to two repositories, the second
\* with the id of the first, another one or one the screen will give.
Handwritten ==
    LET sources == [id : {0, 1, MaxIds + 1}, url : Urls \ NotUtf8, enabled : {TRUE}]
        lists == UNION {[1..n -> sources] : n \in 0..2}
    IN  {NoText("missing")}
          \cup [text : {"json"},
                settings : [verify : {FALSE},
                            repositories : {list \in lists : list # <<>> => list[1].id = 0}],
                breaksAt : {"nowhere", "scalars", "ui", "repositories"}]

ConfigInit == config = Defaults /\ configFile \in Handwritten

ConfigTypeOK == config \in SettingsData /\ configFile \in Files

-----------------------------------------------------------------------------

\* Faulty variant: verify_hashes is written and never read.
FromJsonWithoutVerify(f) == [f.settings EXCEPT !.verify = Defaults.verify]

\* from_json assigns field by field and keeps what it assigned when a value
\* throws; of the repositories those before the one that throws.
FromJson(f) ==
    CASE f.breaksAt = "nowhere"      -> f.settings
      [] f.breaksAt = "scalars"      -> Defaults
      [] f.breaksAt = "ui"           -> [Defaults EXCEPT !.verify = f.settings.verify]
      [] f.breaksAt = "repositories" ->
           [f.settings EXCEPT !.repositories = IF @ = <<>> THEN @
                                                      ELSE SubSeq(@, 1, Len(@) - 1)]

\* load, by a process that starts on the defaults: a file that is missing,
\* cannot be opened or does not parse leaves them.
Load ==
    \E fails \in BOOLEAN :
       /\ Mutation(fails)
       /\ config' = IF fails \/ configFile.text # "json" THEN Defaults ELSE FromJson(configFile)
       /\ UNCHANGED configFile

\* save opens config.json, which empties it, ...
SaveOpens == configFile' = NoText("cut")
SaveCannotOpen == Mutation(TRUE) /\ UNCHANGED configFile

IsUtf8(settings) == \A i \in DOMAIN settings.repositories :
                       settings.repositories[i].url \notin NotUtf8

\* ... and makes the text, which throws where it would not be UTF-8, and writes
\* it, without a look at the stream.
SaveWrites ==
    \E fails \in BOOLEAN :
       /\ Mutation(fails)
       /\ configFile' = IF fails \/ ~IsUtf8(config) THEN NoText("cut") ELSE Json(config)
       /\ UNCHANGED config

Distinct(sources) == \A i, j \in DOMAIN sources : sources[i].id = sources[j].id => i = j

\* Faulty variant: the repository is added by the button and by add_repository.
AddedTwice(sources, s) == Append(Append(sources, s), s)

\* add_repository
Added(sources, s) == Append(sources, s)

\* The sources of a list that are wanted, in their order.
Among(sources, wanted) ==
    LET kept[n \in 0..Len(sources)] ==
          IF n = 0 THEN <<>>
          ELSE IF sources[n] \in wanted THEN Append(kept[n - 1], sources[n])
          ELSE kept[n - 1]
    IN  kept[Len(sources)]

\* remove_repository
Removed(sources, id) == Among(sources, {s \in Sources : s.id # id})

\* RepositoryManager::configure registers those that are enabled.
Enabled(sources) == Among(sources, {s \in Sources : s.enabled})
=============================================================================
