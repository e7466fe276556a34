----------------------------- MODULE EditFilter -----------------------------
(***************************************************************************)
(* Which events of the Wikipedia stream the ingestor passes on             *)
(* (src/internal/ingestor/client.go, ShouldProcess, after the JSON has been*)
(* parsed and src/internal/models/edit.go, Validate, accepted it).         *)
(*                                                                         *)
(* An event is a record of what the filters tell apart:                    *)
(*   title      the page's title                                           *)
(*   valid      the JSON parses and Validate accepts it                    *)
(*   bot        the bot flag                                               *)
(*   wikipedia  ServerURL contains "wikipedia.org"                         *)
(*   language   the wiki's language code                                   *)
(*   namespace  the namespace number                                       *)
(*   prefixed   the title starts with a non-main namespace prefix          *)
(*   type       the event's type                                           *)
(***************************************************************************)
EXTENDS Naturals

CONSTANTS ExcludeBots,        \* config: ingestor.exclude_bots
          AllowedLanguages,   \* config: empty means every language
          AllowedNamespaces   \* config: empty means every namespace

\* A configured list lets a value through when it is empty or contains it.
Allows(list, value) == list = {} \/ value \in list

ShouldProcess(event) ==
    /\ ~ (ExcludeBots /\ event.bot)
    /\ event.wikipedia
    /\ Allows(AllowedLanguages, event.language)
    /\ Allows(AllowedNamespaces, event.namespace)
    /\ ~ event.prefixed
    /\ event.type \in {"edit", "new"}

\* processEvent hands the event to the producer.
Wanted(event) == event.valid /\ ShouldProcess(event)

=============================================================================
