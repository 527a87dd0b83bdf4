------------------------------ MODULE LLMProfiles ------------------------------
(***************************************************************************)
(* Which language model a request gets (services/llm/factory.py): the      *)
(* profiles made of the settings and of LLM_PROFILES_JSON, the one that is *)
(* listed as default, and the provider that is built for a request.        *)
(*                                                                         *)
(* Names are lower case, as everything that reads a provider's name makes  *)
(* them.  Of a profile only the columns are kept that decide what is built *)
(* or listed; a key is where it comes from: "own" (api_key), "set" or      *)
(* "unset" (a variable named by api_key_env), or "none".  JSON that is no  *)
(* list of profiles raises before any of this.                             *)
(***************************************************************************)
EXTENDS Integers, FiniteSets, SequencesExt

Families == [openai |-> "openai", openai_compatible |-> "openai", deepseek |-> "openai",
             qwen |-> "openai", anthropic |-> "anthropic", gemini |-> "gemini"]

Hosted == DOMAIN Families

Entry(provider, key, isDefault) == [provider |-> provider, key |-> key, isDefault |-> isDefault]

FromSettings(settings) ==
    IF settings.provider = "mock"
    THEN [mock |-> Entry("mock", "none", TRUE)]
    ELSE [mock |-> Entry("mock", "none", FALSE),
          default |-> Entry(settings.provider, "none", TRUE)]

Unmarked(profiles) == [id \in DOMAIN profiles |-> [profiles[id] EXCEPT !.isDefault = FALSE]]
Set(profiles, id, entry) ==
    [i \in DOMAIN profiles \cup {id} |-> IF i = id THEN entry ELSE profiles[i]]

\* Mutant: a new default leaves the mark of the old one.
Load_KeepsMarks(settings, json) ==
    LET add(profiles, item) == Set(profiles, item.id, item.entry)
    IN  FoldLeft(add, FromSettings(settings), json)

\* An item of the list replaces the profile that has its id.
Add(profiles, item) ==
    Set(IF item.entry.isDefault THEN Unmarked(profiles) ELSE profiles, item.id, item.entry)

Load(settings, json) ==
    LET after[n \in 0..Len(json)] ==
            IF n = 0 THEN FromSettings(settings) ELSE Add(after[n - 1], json[n])
    IN  after[Len(json)]

Marked(profiles) == {id \in DOMAIN profiles : profiles[id].isDefault}

\* The first one, where none is marked: it is always the mock.
DefaultId(profiles) ==
    IF Marked(profiles) = {} THEN "mock" ELSE CHOOSE id \in Marked(profiles) : TRUE

\* settings.keys: the families that have a key of their own, and "llm" for llm_api_key.
ResolvesKey(provider, settings) ==
    provider \in Hosted /\ {Families[provider], "llm"} \cap settings.keys # {}

HasKey(entry, settings) ==
    \/ entry.key \in {"own", "set"}
    \/ entry.key = "none" /\ ResolvesKey(entry.provider, settings)

ListedAsConfigured(entry, settings) == entry.provider = "mock" \/ HasKey(entry, settings)

\* A provider that is unknown, or hosted and without a key, raises a ValueError.
Built(provider, hasKey) == provider = "mock" \/ (provider \in Hosted /\ hasKey)

\* What a request gets that names a profile, and one that names none.
ForProfile(entry, settings) ==
    IF Built(entry.provider, HasKey(entry, settings)) THEN entry.provider ELSE "error"

ForNone(settings) ==
    IF Built(settings.provider, ResolvesKey(settings.provider, settings))
    THEN settings.provider ELSE "error"

---------------------------------------------------------------------------
\* Two readings of the settings agree: at most one profile is marked, the one listed as
\* default exists; a profile listed as configured can be used and no other hosted one;
\* and a request without a profile gets what the default profile would give, as long as
\* the list marks no default and leaves "mock" and "default" alone.  (Otherwise the list
\* shows its own default, and such a request still gets the one of the settings.)
Agree(settings, json) ==
    LET profiles == Load(settings, json)
        own == {"mock", "default"}
    IN  /\ Cardinality(Marked(profiles)) <= 1
        /\ DefaultId(profiles) \in DOMAIN profiles
        /\ \A id \in DOMAIN profiles :
              profiles[id].provider \in Hosted \cup {"mock"} =>
                 (ListedAsConfigured(profiles[id], settings)
                    <=> ForProfile(profiles[id], settings) # "error")
        /\ (\A n \in DOMAIN json : json[n].id \notin own /\ ~json[n].entry.isDefault) =>
              ForNone(settings) = ForProfile(profiles[DefaultId(profiles)], settings)
=============================================================================
