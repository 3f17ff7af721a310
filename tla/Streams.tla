------------------------------ MODULE Streams ------------------------------
(***************************************************************************)
(* The streams shown on the site (src/plugins/twitch): every minute those  *)
(* of the players who have linked a Twitch.tv profile, and the promoted    *)
(* ones; the streams of banned players are left out.                       *)
(*                                                                         *)
(* Each streamer is a player with one Twitch.tv account.  The streamers in *)
(* PromotedStreams are promoted whether or not they are players.           *)
(***************************************************************************)
EXTENDS Naturals

CONSTANTS
  Streamers,
  PromotedStreams,
  Polls,      \* bound: polls in flight
  MaxLinks    \* bound: profiles stored for a player, which nothing keeps unique

ASSUME StreamsAssumption ==
  /\ PromotedStreams \subseteq Streamers
  /\ MaxLinks \in Nat \ {0}

VARIABLES
  twitchProfiles,   \* how many profiles of a player are stored
  live,             \* who is streaming
  banned,           \* players with an active ban
  appAccessToken,   \* appAccessToken and its expiration
  polls,            \* pollUsersStreams(), by call
  streams,          \* what is shown, also to the clients
  hidden            \* players linked and banned all the while the shown poll ran

streamsVars == <<twitchProfiles, live, banned, appAccessToken, polls, streams,
                 hidden>>

-----------------------------------------------------------------------------
\* player: the stream is shown as a player's
TwitchStream == [streamer : Streamers, player : BOOLEAN]

\* users: whose streams are asked for; profiles, bans: streams whose profile, bans
\* are being read; out: players linked and banned since the poll began
Poll == [step : {"idle", "token", "fetch", "filter"}, users : SUBSET Streamers,
         profiles : SUBSET Streamers, bans : SUBSET Streamers,
         found : SUBSET TwitchStream, out : SUBSET Streamers]

NoPoll == [step |-> "idle", users |-> {}, profiles |-> {}, bans |-> {}, found |-> {},
           out |-> {}]

Linked == {s \in Streamers : twitchProfiles[s] > 0}

StreamsTypeOK ==
  /\ twitchProfiles \in [Streamers -> 0..MaxLinks]
  /\ {live, banned, hidden} \subseteq SUBSET Streamers
  /\ appAccessToken \in {"none", "valid", "expired"}
  /\ polls \in [Polls -> Poll]
  /\ streams \subseteq TwitchStream

StreamsInit ==
  /\ twitchProfiles = [s \in Streamers |-> 0]
  /\ live = {}
  /\ banned = {}
  /\ appAccessToken = "none"
  /\ polls = [i \in Polls |-> NoPoll]
  /\ streams = {}
  /\ hidden = {}

\* s is not linked, or not banned, at some time while the polls run.
ComesBack(s) == polls' = [i \in Polls |-> [polls[i] EXCEPT !.out = @ \ {s}]]

-----------------------------------------------------------------------------
(* What the players do *)

\* authenticationCallback(): the profile has been fetched from Twitch.tv.
SaveUserProfile(s) ==
  /\ twitchProfiles[s] < MaxLinks
  /\ twitchProfiles' = [twitchProfiles EXCEPT ![s] = @ + 1]
  /\ UNCHANGED <<live, banned, appAccessToken, polls, streams, hidden>>

\* One of the player's profiles is deleted.
DeleteUserProfile(s) ==
  /\ twitchProfiles[s] > 0
  /\ twitchProfiles' = [twitchProfiles EXCEPT ![s] = @ - 1]
  /\ IF twitchProfiles[s] = 1 THEN ComesBack(s) ELSE UNCHANGED polls
  /\ UNCHANGED <<live, banned, appAccessToken, streams, hidden>>

SwitchStream(s) ==
  /\ live' = IF s \in live THEN live \ {s} ELSE live \cup {s}
  /\ UNCHANGED <<twitchProfiles, banned, appAccessToken, polls, streams, hidden>>

Ban(s) ==
  /\ s \notin banned
  /\ banned' = banned \cup {s}
  /\ UNCHANGED <<twitchProfiles, live, appAccessToken, polls, streams, hidden>>

BanEnds(s) ==
  /\ s \in banned
  /\ banned' = banned \ {s}
  /\ ComesBack(s)
  /\ UNCHANGED <<twitchProfiles, live, appAccessToken, streams, hidden>>

-----------------------------------------------------------------------------
(* pollUsersStreams() *)

PollUsersStreams(i) ==
  /\ polls[i].step = "idle"
  /\ polls' = [polls EXCEPT ![i] = [NoPoll EXCEPT !.step = "token", !.users = Linked,
                                                  !.out = Linked \cap banned]]
  /\ UNCHANGED <<twitchProfiles, live, banned, appAccessToken, streams, hidden>>

\* A token that is missing or has expired is fetched, or the poll fails.
GetAppAccessToken(i) ==
  /\ polls[i].step = "token"
  /\ \/ /\ appAccessToken' = "valid"
        /\ polls' = [polls EXCEPT ![i].step = "fetch"]
     \/ /\ appAccessToken # "valid"
        /\ polls' = [polls EXCEPT ![i] = NoPoll]
        /\ UNCHANGED appAccessToken
  /\ UNCHANGED <<twitchProfiles, live, banned, streams, hidden>>

TokenRunsOut ==
  /\ appAccessToken = "valid"
  /\ appAccessToken' = "expired"
  /\ UNCHANGED <<twitchProfiles, live, banned, polls, streams, hidden>>

FetchStreams(i) ==
  /\ polls[i].step = "fetch"
  /\ polls' = [polls EXCEPT
       ![i] = IF appAccessToken = "valid"
              THEN [polls[i] EXCEPT
                      !.step = "filter",
                      !.profiles = live \cap (polls[i].users \cup PromotedStreams)]
              ELSE NoPoll]
  /\ UNCHANGED <<twitchProfiles, live, banned, appAccessToken, streams, hidden>>

\* The profile of a stream is looked up anew: whoever has none now is taken for a
\* promoted stream.
FindProfile(i, s) ==
  /\ s \in polls[i].profiles
  /\ polls' = [polls EXCEPT
       ![i].profiles = @ \ {s},
       ![i].bans = IF s \in Linked THEN @ \cup {s} ELSE @,
       ![i].found = IF s \in Linked THEN @
                    ELSE @ \cup {[streamer |-> s, player |-> FALSE]}]
  /\ UNCHANGED <<twitchProfiles, live, banned, appAccessToken, streams, hidden>>

\* Mutant: players who stream are shown if they were not banned when they linked.
ReadNoBans(i, s) ==
  /\ s \in polls[i].bans
  /\ polls' = [polls EXCEPT
       ![i].bans = @ \ {s},
       ![i].found = @ \cup {[streamer |-> s, player |-> TRUE]}]
  /\ UNCHANGED <<twitchProfiles, live, banned, appAccessToken, streams, hidden>>

ReadBans(i, s) ==
  /\ s \in polls[i].bans
  /\ polls' = [polls EXCEPT
       ![i].bans = @ \ {s},
       ![i].found = IF s \in banned THEN @
                    ELSE @ \cup {[streamer |-> s, player |-> TRUE]}]
  /\ UNCHANGED <<twitchProfiles, live, banned, appAccessToken, streams, hidden>>

\* All streams have been looked at: they are shown, and sent to the clients.
ShowStreams(i) ==
  /\ polls[i].step = "filter"
  /\ polls[i].profiles = {} /\ polls[i].bans = {}
  /\ streams' = polls[i].found
  /\ hidden' = polls[i].out
  /\ polls' = [polls EXCEPT ![i] = NoPoll]
  /\ UNCHANGED <<twitchProfiles, live, banned, appAccessToken>>

StreamsNext ==
  \/ \E s \in Streamers :
       \/ SaveUserProfile(s) \/ DeleteUserProfile(s)
       \/ SwitchStream(s) \/ Ban(s) \/ BanEnds(s)
       \/ \E i \in Polls : FindProfile(i, s) \/ ReadBans(i, s)
  \/ \E i \in Polls : \/ PollUsersStreams(i) \/ GetAppAccessToken(i) \/ FetchStreams(i)
                      \/ ShowStreams(i)
  \/ TokenRunsOut

StreamsSpec == StreamsInit /\ [][StreamsNext]_streamsVars

-----------------------------------------------------------------------------
\* A player who had a profile and a ban all the while the poll that is shown ran is
\* not shown, not even as a promoted stream, however the polls, the bans and the
\* profiles of the others change meanwhile (twitch.service.ts:137-190).
NoBannedStreams == \A stream \in streams : stream.streamer \notin hidden

=============================================================================
