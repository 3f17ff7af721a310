------------------------------ MODULE Prompts ------------------------------
(***************************************************************************)
(* The queue prompt on Discord                                             *)
(* (src/plugins/discord/services/queue-prompts.service): the message in    *)
(* the players' channel that says how many players are in the queue.       *)
(*                                                                         *)
(* Discord executes what the bot sends in the order it was sent; nobody    *)
(* else edits its messages, and the channel is never empty.  Of the embed  *)
(* only the number of players is kept.                                     *)
(***************************************************************************)
EXTENDS Naturals, Sequences

CONSTANTS
  MaxPlayers,     \* players in a full queue
  Threshold,      \* half of the players of a full queue
  PromptIds,      \* bound: messages sent, by their ids, which grow
  Refreshes,      \* bound: calls of refreshPrompt() at a time
  MaxEdits        \* bound: edits not executed when another one is sent

ASSUME PromptsAssumption ==
  /\ {MaxPlayers, Threshold, MaxEdits} \subseteq Nat \ {0}
  /\ PromptIds \subseteq Nat \ {0}

VARIABLES
  players,      \* queueService.playerCount
  threshold,    \* players that a new prompt takes, 0 before the first refresh
  debouncing,   \* the slots have changed less than three seconds ago
  refreshes,    \* refreshPrompt(), by call
  promptId,     \* queue_prompt_message_id in the cache, 0: none
  sent,         \* how many prompts were sent
  prompts,      \* the prompts in the channel: what each one says
  edits,        \* edits on their way
  newest,       \* id of the newest message of the channel if that is a prompt, or 0
  visibility,   \* ensurePromptIsVisible()
  astray        \* someone else has deleted the prompt, or its id was deleted from the
                \* cache by a check that had not seen it

promptsVars == <<players, threshold, debouncing, refreshes, promptId, sent, prompts,
                 edits, newest, visibility, astray>>

-----------------------------------------------------------------------------
Counts == 0..MaxPlayers

NoRefresh == [step |-> "idle", count |-> 0, id |-> 0]

NoCheck == [step |-> "idle", newest |-> 0, id |-> 0]

PromptsTypeOK ==
  /\ players \in Counts
  /\ threshold \in {0, Threshold}
  /\ {debouncing, astray} \subseteq BOOLEAN
  /\ refreshes \in [Refreshes -> [step : {"idle", "waiting", "find", "send", "store"},
                                  count : Counts, id : PromptIds \cup {0}]]
  /\ {promptId, newest} \subseteq PromptIds \cup {0}
  /\ DOMAIN prompts \subseteq PromptIds
  /\ \A id \in DOMAIN prompts : prompts[id] \in Counts
  /\ edits \in Seq([id : PromptIds, count : Counts])
  /\ visibility \in [step : {"idle", "newest", "find", "delete"},
                     newest : PromptIds \cup {0}, id : PromptIds \cup {0}]

PromptsInit ==
  /\ players = 0
  /\ threshold = 0
  /\ debouncing = FALSE
  /\ refreshes = [r \in Refreshes |-> NoRefresh]
  /\ promptId = 0
  /\ sent = 0
  /\ prompts = <<>>
  /\ edits = <<>>
  /\ newest = 0
  /\ visibility = NoCheck
  /\ astray = FALSE

\* playerThresholdMet()
ThresholdMet == players >= threshold

Refreshing == \E r \in Refreshes : refreshes[r].step # "idle"

InMutex(r) == refreshes[r].step \in {"find", "send", "store"}

-----------------------------------------------------------------------------
(* refreshPrompt() *)

\* Someone joins or leaves, which starts the three seconds anew.
SlotsChange ==
  /\ players' \in Counts \ {players}
  /\ debouncing' = TRUE
  /\ UNCHANGED <<threshold, refreshes, promptId, sent, prompts, edits, newest,
                 visibility, astray>>

\* The slots have not changed for three seconds.
RefreshPrompt(r) ==
  /\ debouncing
  /\ refreshes[r].step = "idle"
  /\ debouncing' = FALSE
  /\ refreshes' = [refreshes EXCEPT ![r].step = "waiting"]
  /\ UNCHANGED <<players, threshold, promptId, sent, prompts, edits, newest, visibility,
                 astray>>

Preview(r) ==
  /\ refreshes' = [refreshes EXCEPT ![r].step = "find", ![r].count = players]
  /\ threshold' = Threshold
  /\ UNCHANGED <<players, debouncing, promptId, sent, prompts, edits, newest,
                 visibility, astray>>

\* Mutant: refreshPrompt() does not wait for the one before.
TakeNoMutex(r) == refreshes[r].step = "waiting" /\ Preview(r)

\* The mutex is free: the embed is made of what is in the queue now.
TakeMutex(r) ==
  /\ refreshes[r].step = "waiting"
  /\ \A other \in Refreshes : ~InMutex(other)
  /\ Preview(r)

\* getPromptMessage(): the message of the cached id is fetched, which fails if
\* someone has deleted it.  An edit is not waited for.
FindPrompt(r) ==
  LET refresh == refreshes[r]
      done == [refreshes EXCEPT ![r] = NoRefresh]
  IN /\ refresh.step = "find"
     /\ \/ /\ promptId \in DOMAIN prompts
           /\ Len(edits) < MaxEdits
           /\ edits' = Append(edits, [id |-> promptId, count |-> refresh.count])
           /\ refreshes' = done
        \/ /\ promptId \notin DOMAIN prompts
           /\ refreshes' = IF promptId = 0 /\ ThresholdMet
                           THEN [refreshes EXCEPT ![r].step = "send"] ELSE done
           /\ UNCHANGED edits
     /\ UNCHANGED <<players, threshold, debouncing, promptId, sent, prompts, newest,
                    visibility, astray>>

SendPrompt(r) ==
  LET id == sent + 1
  IN /\ refreshes[r].step = "send"
     /\ id \in PromptIds
     /\ sent' = id
     /\ prompts' = [i \in DOMAIN prompts \cup {id} |->
                      IF i = id THEN refreshes[r].count ELSE prompts[i]]
     /\ newest' = id
     /\ refreshes' = [refreshes EXCEPT ![r].step = "store", ![r].id = id]
     /\ UNCHANGED <<players, threshold, debouncing, promptId, edits, visibility,
                    astray>>

CachePromptId(r) ==
  /\ refreshes[r].step = "store"
  /\ promptId' = refreshes[r].id
  /\ refreshes' = [refreshes EXCEPT ![r] = NoRefresh]
  /\ UNCHANGED <<players, threshold, debouncing, sent, prompts, edits, newest,
                 visibility, astray>>

-----------------------------------------------------------------------------
(* The channel *)

EditPrompt ==
  /\ edits # <<>>
  /\ edits' = Tail(edits)
  /\ prompts' = [id \in DOMAIN prompts |->
                   IF id = Head(edits).id THEN Head(edits).count ELSE prompts[id]]
  /\ UNCHANGED <<players, threshold, debouncing, refreshes, promptId, sent, newest,
                 visibility, astray>>

\* Someone writes a message.
Chat ==
  /\ newest # 0
  /\ newest' = 0
  /\ UNCHANGED <<players, threshold, debouncing, refreshes, promptId, sent, prompts,
                 edits, visibility, astray>>

Without(id) == [i \in DOMAIN prompts \ {id} |-> prompts[i]]

\* Someone who may deletes the prompt.
RemovePrompt(id) ==
  /\ id \in DOMAIN prompts
  /\ visibility.step = "idle"
  /\ prompts' = Without(id)
  /\ newest' = IF newest = id THEN 0 ELSE newest
  /\ astray' = TRUE
  /\ UNCHANGED <<players, threshold, debouncing, refreshes, promptId, sent, edits,
                 visibility>>

-----------------------------------------------------------------------------
(* ensurePromptIsVisible(), every five minutes *)

FetchNewest ==
  /\ visibility.step = "idle"
  /\ visibility' = [NoCheck EXCEPT !.step = "newest", !.newest = newest]
  /\ UNCHANGED <<players, threshold, debouncing, refreshes, promptId, sent, prompts,
                 edits, newest, astray>>

\* The check fails on a cached id whose message is gone.
FetchPrompt ==
  /\ visibility.step = "newest"
  /\ visibility' = IF promptId = 0 \/ promptId \in DOMAIN prompts
                   THEN [visibility EXCEPT !.step = "find", !.id = promptId] ELSE NoCheck
  /\ UNCHANGED <<players, threshold, debouncing, refreshes, promptId, sent, prompts,
                 edits, newest, astray>>

\* There is no prompt, or it is not the newest message any more.
Hidden == visibility.id = 0 \/ visibility.newest # visibility.id

\* The prompt that is out of sight goes.
DeletePrompt ==
  /\ visibility.step = "find"
  /\ IF Hidden /\ ThresholdMet
     THEN /\ prompts' = Without(visibility.id)
          /\ promptId' = 0
          /\ astray' = (astray \/ promptId # visibility.id)
          /\ visibility' = [visibility EXCEPT !.step = "delete"]
     ELSE visibility' = NoCheck /\ UNCHANGED <<prompts, promptId, astray>>
  /\ UNCHANGED <<players, threshold, debouncing, refreshes, sent, edits, newest>>

RefreshAfterCheck(r) ==
  /\ visibility.step = "delete"
  /\ refreshes[r].step = "idle"
  /\ visibility' = NoCheck
  /\ refreshes' = [refreshes EXCEPT ![r].step = "waiting"]
  /\ UNCHANGED <<players, threshold, debouncing, promptId, sent, prompts, edits, newest,
                 astray>>

PromptsNext ==
  \/ SlotsChange
  \/ \E r \in Refreshes : \/ RefreshPrompt(r) \/ TakeMutex(r) \/ FindPrompt(r)
                          \/ SendPrompt(r) \/ CachePromptId(r) \/ RefreshAfterCheck(r)
  \/ EditPrompt \/ Chat \/ FetchNewest \/ FetchPrompt \/ DeletePrompt
  \/ \E id \in PromptIds : RemovePrompt(id)

PromptsSpec == PromptsInit /\ [][PromptsNext]_promptsVars

-----------------------------------------------------------------------------
\* When everything was sent and executed there is one prompt at most, which tells
\* how many players are in the queue, and there is one if the queue is full enough:
\* however often the queue changes while a prompt is being sent, and the prompt is
\* moved to the end of the channel.  Two cases are left out.  A prompt that someone else
\* deletes is never replaced: its cached id cannot be fetched.  And a check that has read
\* the cache before the first prompt's id was stored there deletes that id without the
\* prompt, which stays beside the next one (queue-prompts.service.ts:128-137).
PromptShowsQueue ==
  ~debouncing /\ ~Refreshing /\ edits = <<>> /\ visibility.step = "idle" /\ ~astray
    => /\ players >= Threshold => DOMAIN prompts # {}
       /\ \A id \in DOMAIN prompts : id = promptId /\ prompts[id] = players

=============================================================================
