----------------------------- MODULE MCMembers -----------------------------
(* Instances for TLC of what happens around the players: Presence, Accounts, Voice,
   Prompts, Streams and Notices.  They share no state: a behaviour is one of a single
   part, so that the states of the parts add up instead of being multiplied.  Two
   players have two sockets each; two people log in; two games have channels for two
   speakers; the full queue has two players, one of them enough for a prompt; a promoted
   streamer is polled by two polls at a time; two deeds overlap. *)
EXTENDS Presence, Accounts, Voice, Prompts, Streams, Notices

VARIABLE part   \* the part the behaviour is of

AllInit ==
  /\ part \in {"presence", "accounts", "voice", "prompts", "streams", "notices"}
  /\ Init /\ AccountsInit /\ VoiceInit /\ PromptsInit /\ StreamsInit
  /\ IF part = "notices" THEN NoticesInit ELSE aspect = "name" /\ NoticesInit

AllNext ==
  /\ UNCHANGED part
  /\ \/ /\ part = "presence"
        /\ Next
        /\ UNCHANGED <<accountsVars, voiceVars, promptsVars, streamsVars, noticesVars>>
     \/ /\ part = "accounts"
        /\ AccountsNext
        /\ UNCHANGED <<vars, voiceVars, promptsVars, streamsVars, noticesVars>>
     \/ /\ part = "voice"
        /\ VoiceNext
        /\ UNCHANGED <<vars, accountsVars, promptsVars, streamsVars, noticesVars>>
     \/ /\ part = "prompts"
        /\ PromptsNext
        /\ UNCHANGED <<vars, accountsVars, voiceVars, streamsVars, noticesVars>>
     \/ /\ part = "streams"
        /\ StreamsNext
        /\ UNCHANGED <<vars, accountsVars, voiceVars, promptsVars, noticesVars>>
     \/ /\ part = "notices"
        /\ NoticesNext
        /\ UNCHANGED <<vars, accountsVars, voiceVars, promptsVars, streamsVars>>

AllSpec ==
  AllInit /\ [][AllNext]_<<part, vars, accountsVars, voiceVars, promptsVars, streamsVars,
                           noticesVars>>

\* What is stored and sent is what the modules say it is.
TypesOK ==
  TypeOK /\ AccountsTypeOK /\ VoiceTypeOK /\ PromptsTypeOK /\ StreamsTypeOK
         /\ NoticesTypeOK

=============================================================================
