--------------------------- MODULE MembersProofs ---------------------------
(***************************************************************************)
(* Theorems about Notices, Streams, Voice, Prompts and Accounts, for any   *)
(* number of overlapping deeds, polls, games, users, refreshes, requests   *)
(* and sessions, and of all the parts MCMembers puts together.             *)
(***************************************************************************)
EXTENDS MCMembers, PresenceProofs, TLAPS

-----------------------------------------------------------------------------
(* Notices *)

\* Deeds that have stored their value, and whose notice is still to come.
ToBeNoticed ==
  {d \in Deeds : \/ deeds[d].step = "event" /\ Announced(d)
                 \/ deeds[d].step = "notice"}

\* What is stored is among these.
Known ==
  {base} \cup noticed \cup silent \cup {deeds[d].value : d \in ToBeNoticed}

\* An old value that was read since the first of the deeds in flight began was stored
\* then, and is known for the same reasons as what is stored.  A ban is created, and a
\* substitute asked for, by a deed that compares nothing.
NoticesInv ==
  aspect # "roles" =>
    /\ stored \in Known
    /\ \A d \in Deeds : deeds[d].step = "write" /\ Compared => deeds[d].old \in Known

-----------------------------------------------------------------------------
LEMMA InitNoticesType == NoticesInit => NoticesTypeOK
BY DEF NoticesInit, NoticesTypeOK, NoDeed, Deed

LEMMA NextNoticesType == NoticesTypeOK /\ [NoticesNext]_noticesVars => NoticesTypeOK'
<1> SUFFICES ASSUME NoticesTypeOK, [NoticesNext]_noticesVars PROVE NoticesTypeOK'
  OBVIOUS
<1> USE DEF NoticesTypeOK
<1>1. ASSUME NEW d \in Deeds, NEW admin \in BOOLEAN, NEW value \in {1, 2},
             BeginDeed(d, admin, value)
      PROVE  NoticesTypeOK'
  BY <1>1 DEF BeginDeed, Deed
<1>2. ASSUME NEW d \in Deeds, ReadOld(d) PROVE NoticesTypeOK'
  BY <1>2 DEF ReadOld, Deed
<1>3. ASSUME NEW d \in Deeds, Store(d) PROVE NoticesTypeOK'
  BY <1>3 DEF Store, Update, Deed, NoDeed
<1>4. ASSUME NEW d \in Deeds, EmitEvent(d) PROVE NoticesTypeOK'
  BY <1>4 DEF EmitEvent, Deed, NoDeed
<1>5. ASSUME NEW d \in Deeds, SendNotice(d) PROVE NoticesTypeOK'
  BY <1>5 DEF SendNotice, Deed, NoDeed
<1>6. CASE StartAnew
  BY <1>6 DEF StartAnew
<1>7. CASE UNCHANGED noticesVars
  BY <1>7 DEF noticesVars
<1> QED BY <1>1, <1>2, <1>3, <1>4, <1>5, <1>6, <1>7 DEF NoticesNext

\* Everything has its type.
THEOREM NoticesTypeCorrect == NoticesSpec => []NoticesTypeOK
BY InitNoticesType, NextNoticesType, PTL DEF NoticesSpec

-----------------------------------------------------------------------------
LEMMA InitNoticesInv == NoticesInit => NoticesInv
BY DEF NoticesInit, NoticesInv, Known, NoDeed

\* What is known stays known, unless a deed begins when all others are over.
LEMMA NextNoticesInv ==
  NoticesTypeOK /\ NoticesInv /\ [NoticesNext]_noticesVars => NoticesInv'
<1> SUFFICES ASSUME NoticesTypeOK, NoticesInv, [NoticesNext]_noticesVars, aspect # "roles",
                    aspect' = aspect
             PROVE  NoticesInv'
  BY DEF NoticesNext, noticesVars, NoticesInv, BeginDeed, ReadOld, Store, Update,
         EmitEvent, SendNotice, StartAnew
<1> USE DEF NoticesTypeOK, Compared
<1>1. ASSUME NEW d \in Deeds, NEW admin \in BOOLEAN, NEW value \in {1, 2},
             BeginDeed(d, admin, value)
      PROVE  NoticesInv'
  <2>1. CASE Settled
    <3>1. /\ stored' = base'
          /\ \A e \in Deeds : deeds'[e].step = "write" => ~ Compared
      BY <1>1, <2>1 DEF BeginDeed, Settled, Deed
    <3> QED BY <3>1 DEF NoticesInv, Known
  <2>2. CASE ~ Settled
    <3>1. Known \subseteq Known'
      BY <1>1, <2>2 DEF BeginDeed, Known, ToBeNoticed, Announced
    <3>2. \A e \in Deeds : deeds'[e].step = "write" /\ Compared =>
                             deeds[e].step = "write" /\ deeds'[e].old = deeds[e].old
      BY <1>1 DEF BeginDeed, Deed
    <3> QED BY <1>1, <3>1, <3>2 DEF NoticesInv, BeginDeed
  <2> QED BY <2>1, <2>2
<1>2. ASSUME NEW d \in Deeds, ReadOld(d) PROVE NoticesInv'
  <2>1. Known \subseteq Known'
    BY <1>2 DEF ReadOld, Known, ToBeNoticed, Announced
  <2>2. \A e \in Deeds : e # d => deeds'[e] = deeds[e]
    BY <1>2 DEF ReadOld
  <2>3. deeds'[d].old = stored
    BY <1>2 DEF ReadOld, Deed
  <2> QED BY <1>2, <2>1, <2>2, <2>3 DEF NoticesInv, ReadOld
<1>3. ASSUME NEW d \in Deeds, Store(d) PROVE NoticesInv'
  <2>1. \A e \in Deeds : e # d => deeds'[e] = deeds[e]
    BY <1>3 DEF Store, Update
  <2>2. deeds'[d].step # "write"
    BY <1>3 DEF Store, Update, Deed, NoDeed
  <2>3. Known \subseteq Known'
    <3>1. ToBeNoticed \subseteq ToBeNoticed'
      BY <1>3, <2>1 DEF ToBeNoticed, Announced, Store, Update
    <3>2. d \notin ToBeNoticed
      BY <1>3 DEF ToBeNoticed, Store, Update
    <3> QED BY <1>3, <2>1, <3>1, <3>2 DEF Known, Store, Update
  <2>4. stored' \in Known'
    <3>1. CASE ~ deeds[d].admin
      BY <1>3, <3>1 DEF Store, Update, Known
    <3>2. CASE aspect = "place" /\ stored = deeds[d].value
      BY <1>3, <3>2, <2>3 DEF NoticesInv, Store, Update
    <3>3. CASE /\ deeds[d].admin
               /\ ~(aspect = "place" /\ stored = deeds[d].value)
      <4>1. deeds'[d] = [deeds[d] EXCEPT !.step = "event"]
        BY <1>3, <3>3 DEF Store, Update, Deed
      <4>2. CASE Compared /\ deeds[d].old = deeds[d].value
        BY <1>3, <4>2, <2>3 DEF NoticesInv, Store, Update
      <4>3. CASE ~(Compared /\ deeds[d].old = deeds[d].value)
        <5>1. d \in ToBeNoticed'
          BY <3>3, <4>1, <4>3 DEF ToBeNoticed, Announced, Deed
        <5> QED BY <1>3, <4>1, <5>1 DEF Known, Store, Update, Deed
      <4> QED BY <4>2, <4>3
    <3> QED BY <3>1, <3>2, <3>3
  <2> QED BY <2>1, <2>2, <2>3, <2>4 DEF NoticesInv
<1>4. ASSUME NEW d \in Deeds, EmitEvent(d) PROVE NoticesInv'
  <2>1. Known \subseteq Known'
    BY <1>4 DEF EmitEvent, Known, ToBeNoticed, Announced, Deed, NoDeed
  <2>2. \A e \in Deeds : deeds'[e].step = "write" => deeds'[e] = deeds[e]
    BY <1>4 DEF EmitEvent, Deed, NoDeed
  <2> QED BY <1>4, <2>1, <2>2 DEF NoticesInv, EmitEvent
<1>5. ASSUME NEW d \in Deeds, SendNotice(d) PROVE NoticesInv'
  <2>1. Known \subseteq Known'
    BY <1>5 DEF SendNotice, Known, ToBeNoticed, Announced, Deed, NoDeed
  <2>2. \A e \in Deeds : deeds'[e].step = "write" => deeds'[e] = deeds[e]
    BY <1>5 DEF SendNotice, Deed, NoDeed
  <2> QED BY <1>5, <2>1, <2>2 DEF NoticesInv, SendNotice
<1>6. CASE StartAnew
  BY <1>6 DEF StartAnew, NoticesInv, Known, Settled
<1>7. CASE UNCHANGED noticesVars
  BY <1>7 DEF noticesVars, NoticesInv, Known, ToBeNoticed, Announced
<1> QED BY <1>1, <1>2, <1>3, <1>4, <1>5, <1>6, <1>7 DEF NoticesNext

LEMMA NoticesInvImplies == NoticesInv => ChangesAreNoticed
BY DEF NoticesInv, ChangesAreNoticed, Known, ToBeNoticed, Settled

\* However many deeds overlap, none changes what is stored without a notice: none of
\* the comparisons with an old value that is not stored any more hides a change.
THEOREM ChangesNoticed == NoticesSpec => []ChangesAreNoticed
<1>1. NoticesSpec => []NoticesInv
  BY InitNoticesInv, NextNoticesInv, NoticesTypeCorrect, PTL DEF NoticesSpec
<1> QED BY <1>1, NoticesInvImplies, PTL

-----------------------------------------------------------------------------
(* Streams *)

USE StreamsAssumption DEF StreamsAssumption

\* Whoever was linked and banned ever since a poll began is so now, and the poll has
\* found no stream of his.
PollHidesOut(i) ==
  /\ polls[i].out \subseteq Linked \cap banned
  /\ \A stream \in polls[i].found : stream.streamer \notin polls[i].out

StreamsInv == (\A i \in Polls : PollHidesOut(i)) /\ NoBannedStreams

LEMMA InitStreamsType == StreamsInit => StreamsTypeOK
BY DEF StreamsInit, StreamsTypeOK, NoPoll, Poll

\* What the end of a ban or a profile takes from the polls.
LEMMA ComesBackDoes ==
  ASSUME StreamsTypeOK, NEW s \in Streamers, ComesBack(s)
  PROVE  /\ polls' \in [Polls -> Poll]
         /\ \A i \in Polls : /\ polls'[i].out = polls[i].out \ {s}
                             /\ polls'[i].found = polls[i].found
BY DEF StreamsTypeOK, ComesBack, Poll

\* What a stream that was looked at adds to its poll.
LEMMA FindProfileDoes ==
  ASSUME StreamsTypeOK, NEW i \in Polls, NEW s \in Streamers, FindProfile(i, s)
  PROVE  /\ polls' \in [Polls -> Poll]
         /\ \A j \in Polls : j # i => polls'[j] = polls[j]
         /\ polls'[i].out = polls[i].out
         /\ \A stream \in polls'[i].found :
              stream \in polls[i].found \/ stream.streamer \notin Linked
<1> DEFINE bs == IF s \in Linked THEN polls[i].bans \cup {s} ELSE polls[i].bans
           fs == IF s \in Linked THEN polls[i].found
                 ELSE polls[i].found \cup {[streamer |-> s, player |-> FALSE]}
           ps == polls[i].profiles \ {s}
           p  == [polls[i] EXCEPT !.profiles = ps, !.bans = bs, !.found = fs]
<1>1. polls' = [polls EXCEPT ![i] = p]
  BY DEF FindProfile, StreamsTypeOK, Poll
<1>2. /\ bs \subseteq Streamers /\ ps \subseteq Streamers /\ fs \subseteq TwitchStream
      /\ \A stream \in fs : stream \in polls[i].found \/ stream.streamer \notin Linked
  <2>1. polls[i].bans \subseteq Streamers /\ polls[i].profiles \subseteq Streamers
        /\ polls[i].found \subseteq TwitchStream
    BY DEF StreamsTypeOK, Poll
  <2> DEFINE stream == [streamer |-> s, player |-> FALSE]
  <2>2. stream \in TwitchStream /\ stream.streamer = s
    BY DEF TwitchStream
  <2>3. \/ fs = polls[i].found
        \/ fs = polls[i].found \cup {stream} /\ s \notin Linked
    OBVIOUS
  <2>4. bs \subseteq Streamers /\ ps \subseteq Streamers
    BY <2>1
  <2> HIDE DEF bs, fs, ps, stream
  <2> QED BY <2>1, <2>2, <2>3, <2>4
<1> HIDE DEF bs, fs, ps
<1>3. /\ p \in Poll /\ p.out = polls[i].out /\ p.found = fs
  BY <1>2 DEF StreamsTypeOK, Poll
<1> HIDE DEF p
<1> QED BY <1>1, <1>2, <1>3 DEF StreamsTypeOK

LEMMA ReadBansDoes ==
  ASSUME StreamsTypeOK, NEW i \in Polls, NEW s \in Streamers, ReadBans(i, s)
  PROVE  /\ polls' \in [Polls -> Poll]
         /\ \A j \in Polls : j # i => polls'[j] = polls[j]
         /\ polls'[i].out = polls[i].out
         /\ \A stream \in polls'[i].found :
              stream \in polls[i].found \/ stream.streamer \notin banned
<1> DEFINE bs == polls[i].bans \ {s}
           fs == IF s \in banned THEN polls[i].found
                 ELSE polls[i].found \cup {[streamer |-> s, player |-> TRUE]}
           p  == [polls[i] EXCEPT !.bans = bs, !.found = fs]
<1>1. polls' = [polls EXCEPT ![i] = p]
  BY DEF ReadBans, StreamsTypeOK, Poll
<1>2. /\ bs \subseteq Streamers /\ fs \subseteq TwitchStream
      /\ \A stream \in fs : stream \in polls[i].found \/ stream.streamer \notin banned
  <2>1. polls[i].bans \subseteq Streamers /\ polls[i].found \subseteq TwitchStream
    BY DEF StreamsTypeOK, Poll
  <2> DEFINE stream == [streamer |-> s, player |-> TRUE]
  <2>2. stream \in TwitchStream /\ stream.streamer = s
    BY DEF TwitchStream
  <2>3. \/ fs = polls[i].found
        \/ fs = polls[i].found \cup {stream} /\ s \notin banned
    OBVIOUS
  <2>4. bs \subseteq Streamers
    BY <2>1
  <2> HIDE DEF bs, fs, stream
  <2> QED BY <2>1, <2>2, <2>3, <2>4
<1> HIDE DEF bs, fs
<1>3. /\ p \in Poll /\ p.out = polls[i].out /\ p.found = fs
  BY <1>2 DEF StreamsTypeOK, Poll
<1> HIDE DEF p
<1> QED BY <1>1, <1>2, <1>3 DEF StreamsTypeOK

\* Every other step of a poll finds nothing and looks at no bans.
LEMMA PollStepDoes ==
  ASSUME StreamsTypeOK, NEW i \in Polls,
         \/ PollUsersStreams(i) \/ GetAppAccessToken(i) \/ FetchStreams(i)
         \/ ShowStreams(i)
  PROVE  /\ polls' \in [Polls -> Poll]
         /\ \A j \in Polls : j # i => polls'[j] = polls[j]
         /\ \/ polls'[i].out = polls[i].out /\ polls'[i].found = polls[i].found
            \/ polls'[i].out \subseteq Linked \cap banned /\ polls'[i].found = {}
<1>1. NoPoll \in Poll /\ NoPoll.out = {} /\ NoPoll.found = {}
  BY DEF NoPoll, Poll
<1>2. polls \in [Polls -> Poll]
  BY DEF StreamsTypeOK
<1>3. ASSUME polls' = [polls EXCEPT ![i] = NoPoll]
      PROVE  /\ polls' \in [Polls -> Poll]
             /\ \A j \in Polls : j # i => polls'[j] = polls[j]
             /\ polls'[i].out \subseteq Linked \cap banned /\ polls'[i].found = {}
  BY <1>1, <1>2, <1>3
<1>4. CASE PollUsersStreams(i)
  <2> DEFINE p == [NoPoll EXCEPT !.step = "token", !.users = Linked,
                                 !.out = Linked \cap banned]
  <2>1. p \in Poll /\ p.out = Linked \cap banned /\ p.found = {}
    BY DEF NoPoll, Poll, Linked
  <2>2. polls' = [polls EXCEPT ![i] = p]
    BY <1>4 DEF PollUsersStreams
  <2> HIDE DEF p
  <2> QED BY <1>2, <2>1, <2>2
<1>5. CASE GetAppAccessToken(i)
  <2>1. CASE polls' = [polls EXCEPT ![i].step = "fetch"]
    BY <1>2, <2>1 DEF Poll
  <2> QED BY <1>3, <1>5, <2>1 DEF GetAppAccessToken
<1>6. CASE FetchStreams(i)
  <2> DEFINE ps == live \cap (polls[i].users \cup PromotedStreams)
             p  == [polls[i] EXCEPT !.step = "filter", !.profiles = ps]
  <2>1. ps \subseteq Streamers
    BY <1>2 DEF StreamsTypeOK
  <2> HIDE DEF ps
  <2>2. p \in Poll /\ p.out = polls[i].out /\ p.found = polls[i].found
    BY <1>2, <2>1 DEF Poll
  <2>3. polls' = [polls EXCEPT ![i] = p] \/ polls' = [polls EXCEPT ![i] = NoPoll]
    BY <1>6 DEF FetchStreams, ps
  <2> HIDE DEF p
  <2> QED BY <1>2, <1>3, <2>2, <2>3
<1>7. CASE ShowStreams(i)
  BY <1>3, <1>7 DEF ShowStreams
<1> QED BY <1>4, <1>5, <1>6, <1>7

LEMMA NextStreams ==
  StreamsTypeOK /\ StreamsInv /\ [StreamsNext]_streamsVars
    => StreamsTypeOK' /\ StreamsInv'
<1> SUFFICES ASSUME StreamsTypeOK, StreamsInv, [StreamsNext]_streamsVars
             PROVE  StreamsTypeOK' /\ StreamsInv'
  OBVIOUS
<1>0. /\ twitchProfiles \in [Streamers -> 0..MaxLinks]
      /\ live \subseteq Streamers /\ banned \subseteq Streamers
      /\ hidden \subseteq Streamers
      /\ appAccessToken \in {"none", "valid", "expired"}
      /\ polls \in [Polls -> Poll] /\ streams \subseteq TwitchStream
  BY DEF StreamsTypeOK
\* A step that touches neither the polls nor what is shown, and takes nobody's profile or
\* ban from him.
<1>1. ASSUME UNCHANGED <<polls, streams, hidden>>, Linked \subseteq Linked',
             banned \subseteq banned'
      PROVE  StreamsInv'
  BY <1>1 DEF StreamsInv, PollHidesOut, NoBannedStreams
<1>2. ASSUME NEW s \in Streamers, SaveUserProfile(s) PROVE StreamsTypeOK' /\ StreamsInv'
  <2>1. twitchProfiles' \in [Streamers -> 0..MaxLinks]
    BY <1>0, <1>2 DEF SaveUserProfile
  <2>2. Linked \subseteq Linked'
    BY <1>0, <1>2 DEF SaveUserProfile, Linked
  <2> QED BY <1>1, <1>2, <2>1, <2>2 DEF SaveUserProfile, StreamsTypeOK
<1>3. ASSUME NEW s \in Streamers, DeleteUserProfile(s) PROVE StreamsTypeOK' /\ StreamsInv'
  <2>1. twitchProfiles' \in [Streamers -> 0..MaxLinks]
    BY <1>0, <1>3 DEF DeleteUserProfile
  <2>2. Linked \ {s} \subseteq Linked' /\ (twitchProfiles[s] # 1 => Linked \subseteq Linked')
    BY <1>0, <1>3 DEF DeleteUserProfile, Linked
  <2>3. CASE twitchProfiles[s] = 1
    <3>1. ComesBack(s)
      BY <1>3, <2>3 DEF DeleteUserProfile
    <3> QED BY <1>0, <1>3, <2>1, <2>2, <3>1, ComesBackDoes
            DEF DeleteUserProfile, StreamsTypeOK, StreamsInv, PollHidesOut, NoBannedStreams
  <2>4. CASE twitchProfiles[s] # 1
    BY <1>1, <1>3, <2>1, <2>2, <2>4 DEF DeleteUserProfile, StreamsTypeOK
  <2> QED BY <2>3, <2>4
<1>4. ASSUME NEW s \in Streamers, SwitchStream(s) PROVE StreamsTypeOK' /\ StreamsInv'
  BY <1>0, <1>1, <1>4 DEF SwitchStream, StreamsTypeOK, Linked
<1>5. ASSUME NEW s \in Streamers, Ban(s) PROVE StreamsTypeOK' /\ StreamsInv'
  BY <1>0, <1>1, <1>5 DEF Ban, StreamsTypeOK, Linked
<1>6. ASSUME NEW s \in Streamers, BanEnds(s) PROVE StreamsTypeOK' /\ StreamsInv'
  <2>1. ComesBack(s) /\ banned' = banned \ {s} /\ Linked' = Linked
    BY <1>6 DEF BanEnds, Linked
  <2> QED BY <1>0, <1>6, <2>1, ComesBackDoes
          DEF BanEnds, StreamsTypeOK, StreamsInv, PollHidesOut, NoBannedStreams
<1>7. ASSUME NEW i \in Polls, NEW s \in Streamers, FindProfile(i, s)
      PROVE  StreamsTypeOK' /\ StreamsInv'
  <2>1. UNCHANGED <<twitchProfiles, live, banned, appAccessToken, streams, hidden>>
    BY <1>7 DEF FindProfile
  <2>2. Linked' = Linked
    BY <2>1 DEF Linked
  <2> QED BY <1>0, <1>7, <2>1, <2>2, FindProfileDoes
          DEF StreamsTypeOK, StreamsInv, PollHidesOut, NoBannedStreams
<1>8. ASSUME NEW i \in Polls, NEW s \in Streamers, ReadBans(i, s)
      PROVE  StreamsTypeOK' /\ StreamsInv'
  <2>1. UNCHANGED <<twitchProfiles, live, banned, appAccessToken, streams, hidden>>
    BY <1>8 DEF ReadBans
  <2>2. Linked' = Linked
    BY <2>1 DEF Linked
  <2> QED BY <1>0, <1>8, <2>1, <2>2, ReadBansDoes
          DEF StreamsTypeOK, StreamsInv, PollHidesOut, NoBannedStreams
<1>9. ASSUME NEW i \in Polls,
             \/ PollUsersStreams(i) \/ GetAppAccessToken(i) \/ FetchStreams(i)
             \/ ShowStreams(i)
      PROVE  StreamsTypeOK' /\ StreamsInv'
  <2>1. UNCHANGED <<twitchProfiles, live, banned>> /\ Linked' = Linked
    BY <1>9 DEF PollUsersStreams, GetAppAccessToken, FetchStreams, ShowStreams, Linked
  <2>2. (\A j \in Polls : PollHidesOut(j))'
    BY <1>9, <2>1, PollStepDoes DEF StreamsInv, PollHidesOut
  <2>3. /\ appAccessToken' \in {"none", "valid", "expired"}
        /\ \/ UNCHANGED <<streams, hidden>>
           \/ streams' = polls[i].found /\ hidden' = polls[i].out
    BY <1>0, <1>9 DEF PollUsersStreams, GetAppAccessToken, FetchStreams, ShowStreams
  <2>4. streams' \subseteq TwitchStream /\ hidden' \subseteq Streamers
    BY <1>0, <2>3 DEF Poll
  <2>5. NoBannedStreams'
    BY <2>3 DEF StreamsInv, PollHidesOut, NoBannedStreams
  <2> QED BY <1>0, <1>9, <2>1, <2>2, <2>3, <2>4, <2>5, PollStepDoes
          DEF StreamsTypeOK, StreamsInv
<1>10. CASE TokenRunsOut
  BY <1>0, <1>1, <1>10 DEF TokenRunsOut, StreamsTypeOK, Linked
<1>11. CASE UNCHANGED streamsVars
  BY <1>0, <1>1, <1>11 DEF streamsVars, StreamsTypeOK, Linked
<1> QED BY <1>2, <1>3, <1>4, <1>5, <1>6, <1>7, <1>8, <1>9, <1>10, <1>11 DEF StreamsNext

\* Everything has its type.
THEOREM StreamsTypeCorrect == StreamsSpec => []StreamsTypeOK
<1>1. StreamsInit => StreamsInv
  BY DEF StreamsInit, StreamsInv, PollHidesOut, NoBannedStreams, NoPoll
<1> QED BY <1>1, InitStreamsType, NextStreams, PTL DEF StreamsSpec

\* Nobody is shown who was linked and banned all the while the poll that is shown ran,
\* however many polls overlap.
THEOREM BannedStreamsHidden == StreamsSpec => []NoBannedStreams
<1>1. StreamsInit => StreamsInv
  BY DEF StreamsInit, StreamsInv, PollHidesOut, NoBannedStreams, NoPoll
<1>2. StreamsInv => NoBannedStreams
  BY DEF StreamsInv
<1> QED BY <1>1, <1>2, InitStreamsType, NextStreams, PTL DEF StreamsSpec

-----------------------------------------------------------------------------
(* Voice *)

USE VoiceAssumption DEF VoiceAssumption

\* The channel that is going to be removed is of a game that is over, and whoever is in it
\* has entered since its users were counted.
SweepInv ==
  /\ sweep.over => sweep.game \in VoiceGames /\ progress[sweep.game] = "over"
  /\ sweep.step = "remove" => sweep.over /\ In(sweep.game) \subseteq sweep.arrived

LEMMA NoSweepType == NoSweep \in Sweep /\ ~ NoSweep.over /\ NoSweep.step = "idle"
BY DEF NoSweep, Sweep

LEMMA NoLookType ==
  ASSUME VoiceTypeOK, NEW g \in VoiceGames
  PROVE  NoLook(g) \in Sweep /\ ~ NoLook(g).over /\ NoLook(g).step # "remove"
BY DEF VoiceTypeOK, NoLook, Sweep

LEMMA InitVoice == VoiceInit => VoiceTypeOK /\ SweepInv
<1> SUFFICES ASSUME VoiceInit PROVE VoiceTypeOK /\ SweepInv
  OBVIOUS
<1> USE DEF VoiceInit
<1>1. SweepInv
  BY NoSweepType DEF SweepInv
<1>2. sweep \in Sweep
  BY NoSweepType
<1>3. connects \in 0..MaxConnects /\ linked = {}
  OBVIOUS
<1>4. /\ channels \in [VoiceGames -> SUBSET ChannelNames]
      /\ creating \in [VoiceGames -> ChannelNames \cup {"nothing"}]
      /\ progress \in [VoiceGames -> {"none", "running", "over"}]
      /\ speaking \in [Speakers -> VoiceGames \cup {NoGame}]
  OBVIOUS
<1> QED BY <1>1, <1>2, <1>3, <1>4 DEF VoiceTypeOK

\* What a step may do to the channels of a game.
OnlyAbandoned ==
  \A g \in VoiceGames : channels[g] # {} /\ channels'[g] = {}
    => progress[g] = "over" /\ In(g) \subseteq sweep.arrived

LEMMA NextVoice ==
  VoiceTypeOK /\ SweepInv /\ [VoiceNext]_voiceVars
    => VoiceTypeOK' /\ SweepInv' /\ OnlyAbandoned
<1> SUFFICES ASSUME VoiceTypeOK, SweepInv, [VoiceNext]_voiceVars
             PROVE  VoiceTypeOK' /\ SweepInv' /\ OnlyAbandoned
  OBVIOUS
<1> DEFINE Step == VoiceTypeOK' /\ SweepInv' /\ OnlyAbandoned
<1>0. /\ client \in {"none", "configured", "connecting", "connected"}
      /\ identity \in BOOLEAN
      /\ connects \in 0..MaxConnects
      /\ progress \in [VoiceGames -> {"none", "running", "over"}]
      /\ channels \in [VoiceGames -> SUBSET ChannelNames]
      /\ linked \subseteq {g \in VoiceGames : {"BLU", "RED"} \subseteq channels[g]}
      /\ creating \in [VoiceGames -> ChannelNames \cup {"nothing"}]
      /\ speaking \in [Speakers -> VoiceGames \cup {NoGame}]
      /\ sweep \in Sweep
  BY DEF VoiceTypeOK
\* The sweep goes on as it was, or is given up.
<1>1. ASSUME sweep' \in {sweep, NoSweep}, UNCHANGED speaking,
             \A g \in VoiceGames : progress[g] = "over" => progress'[g] = "over"
      PROVE  SweepInv'
  BY <1>1, NoSweepType DEF SweepInv, In
<1>2. ASSUME UNCHANGED channels PROVE OnlyAbandoned
  BY <1>2 DEF OnlyAbandoned
<1>3. CASE TryConnect \/ LoseConnection
  <2>1. sweep' \in Sweep /\ creating' \in [VoiceGames -> ChannelNames \cup {"nothing"}]
        /\ sweep' = NoSweep /\ UNCHANGED <<progress, speaking, channels>>
    BY <1>0, <1>3, NoSweepType DEF TryConnect, LoseConnection, GiveUp
  <2>2. /\ connects' \in 0..MaxConnects
        /\ client' \in {"none", "configured", "connecting", "connected"}
        /\ UNCHANGED <<identity, linked>>
    BY <1>0, <1>3 DEF TryConnect, LoseConnection
  <2> QED BY <1>0, <1>1, <1>2, <2>1, <2>2 DEF VoiceTypeOK
<1>4. CASE GetCertificate \/ Connected
  <2>1. /\ client' \in {"none", "configured", "connecting", "connected"}
        /\ identity' \in BOOLEAN
        /\ UNCHANGED <<connects, progress, channels, linked, creating, speaking, sweep>>
    BY <1>0, <1>4 DEF GetCertificate, Connected
  <2>2. SweepInv' /\ OnlyAbandoned
    BY <1>1, <1>2, <2>1
  <2> QED BY <1>0, <2>1, <2>2 DEF VoiceTypeOK
<1>5. CASE RemoveOldChannels
  <2> DEFINE gs == {g \in VoiceGames : channels[g] # {}}
  <2>1. sweep' = [NoSweep EXCEPT !.step = "next", !.games = gs]
    BY <1>5 DEF RemoveOldChannels
  <2>2. gs \subseteq VoiceGames
    OBVIOUS
  <2> HIDE DEF gs
  <2>3. sweep' \in Sweep /\ ~ sweep'.over /\ sweep'.step = "next"
    BY <2>1, <2>2 DEF NoSweep, Sweep
  <2> QED BY <1>0, <1>2, <1>5, <2>3 DEF RemoveOldChannels, VoiceTypeOK, SweepInv
<1>6. ASSUME NEW g \in VoiceGames, GameCreated(g) PROVE Step
  BY <1>0, <1>1, <1>2, <1>6 DEF GameCreated, VoiceTypeOK, ChannelNames
<1>7. ASSUME NEW g \in VoiceGames, CreateChannel(g) PROVE Step
  <2>1. /\ creating' \in [VoiceGames -> ChannelNames \cup {"nothing"}]
        /\ channels' \in [VoiceGames -> SUBSET ChannelNames]
        /\ \A h \in VoiceGames : channels[h] \subseteq channels'[h]
    BY <1>0, <1>7 DEF CreateChannel, ChannelNames
  <2>2. UNCHANGED <<client, identity, connects, progress, linked, speaking, sweep>>
    BY <1>7 DEF CreateChannel
  <2>3. linked' \subseteq {h \in VoiceGames : {"BLU", "RED"} \subseteq channels'[h]}
    BY <1>0, <2>1, <2>2
  <2>4. OnlyAbandoned
    BY <2>1 DEF OnlyAbandoned
  <2> QED BY <1>0, <1>1, <2>1, <2>2, <2>3, <2>4 DEF VoiceTypeOK
<1>8. ASSUME NEW g \in VoiceGames, GameOver(g) PROVE Step
  <2>1. progress' \in [VoiceGames -> {"none", "running", "over"}]
        /\ \A h \in VoiceGames : progress[h] = "over" => progress'[h] = "over"
    BY <1>0, <1>8 DEF GameOver
  <2>2. linked' \subseteq {h \in VoiceGames : {"BLU", "RED"} \subseteq channels'[h]}
    BY <1>0, <1>8 DEF GameOver, ChannelNames
  <2> QED BY <1>0, <1>1, <1>2, <1>8, <2>1, <2>2 DEF GameOver, VoiceTypeOK
<1>9. ASSUME NEW g \in VoiceGames, LookUpGame(g) PROVE Step
  <2>1. PICK b : b = (progress[g] = "over")
    OBVIOUS
  <2>2. b \in BOOLEAN
    BY <2>1
  <2> DEFINE gs == sweep.games \ {g}
  <2>3. sweep' = [sweep EXCEPT !.step = "read", !.game = g, !.games = gs, !.over = b]
    BY <1>0, <1>9, <2>1 DEF LookUpGame, Sweep
  <2>4. gs \subseteq VoiceGames
    BY <1>0 DEF Sweep
  <2> HIDE DEF gs
  <2>5. sweep' \in Sweep /\ sweep'.step = "read" /\ sweep'.game = g /\ sweep'.over = b
    BY <1>0, <2>2, <2>3, <2>4 DEF Sweep
  <2> QED BY <1>0, <1>2, <1>9, <2>1, <2>5 DEF LookUpGame, VoiceTypeOK, SweepInv
<1>10. ASSUME NEW g \in VoiceGames, CountUsers(g) PROVE Step
  <2>1. CASE sweep.over /\ In(g) = {}
    <3>1. sweep' = [sweep EXCEPT !.step = "remove"]
      BY <1>10, <2>1 DEF CountUsers
    <3>2. sweep' \in Sweep /\ sweep'.game = g /\ sweep'.over = sweep.over
      BY <1>0, <1>10, <3>1 DEF Sweep, CountUsers
    <3>3. In(g)' = {} /\ UNCHANGED progress
      BY <1>10, <2>1 DEF CountUsers, In
    <3>4. SweepInv'
      BY <1>10, <2>1, <3>2, <3>3 DEF SweepInv, CountUsers
    <3> QED BY <1>0, <1>2, <1>10, <3>2, <3>4 DEF CountUsers, VoiceTypeOK
  <2>2. CASE ~(sweep.over /\ In(g) = {})
    <3>1. sweep' = NoLook(g)
      BY <1>10, <2>2 DEF CountUsers
    <3> QED BY <1>0, <1>2, <1>10, <3>1, NoLookType DEF CountUsers, VoiceTypeOK, SweepInv
  <2> QED BY <2>1, <2>2
<1>11. ASSUME NEW g \in VoiceGames, RemoveChannel(g) PROVE Step
  <2>1. sweep' = NoLook(g) /\ channels' = [channels EXCEPT ![g] = {}]
        /\ linked' = linked \ {g}
    BY <1>11 DEF RemoveChannel
  <2>2. speaking' \in [Speakers -> VoiceGames \cup {NoGame}]
    BY <1>0, <1>11 DEF RemoveChannel
  <2>3. SweepInv'
    BY <2>1, NoLookType DEF SweepInv
  <2>4. OnlyAbandoned
    BY <1>0, <1>11, <2>1 DEF RemoveChannel, OnlyAbandoned, SweepInv
  <2>5. channels' \in [VoiceGames -> SUBSET ChannelNames]
        /\ linked' \subseteq {h \in VoiceGames : {"BLU", "RED"} \subseteq channels'[h]}
    BY <1>0, <2>1
  <2> QED BY <1>0, <1>11, <2>1, <2>2, <2>3, <2>4, <2>5, NoLookType
          DEF RemoveChannel, VoiceTypeOK
<1>12. ASSUME NEW s \in Speakers, Leave(s) PROVE Step
  <2>1. speaking' \in [Speakers -> VoiceGames \cup {NoGame}] /\ speaking'[s] = NoGame
        /\ \A t \in Speakers : t # s => speaking'[t] = speaking[t]
    BY <1>0, <1>12 DEF Leave
  <2>2. sweep.over => In(sweep.game)' \subseteq In(sweep.game)
    BY <1>12, <2>1 DEF Leave, In, SweepInv
  <2>3. SweepInv'
    BY <1>12, <2>1, <2>2 DEF Leave, SweepInv, In
  <2> QED BY <1>0, <1>2, <1>12, <2>1, <2>3 DEF Leave, VoiceTypeOK
<1>13. ASSUME NEW s \in Speakers, NEW g \in VoiceGames, Enter(s, g) PROVE Step
  <2>1. speaking' = [speaking EXCEPT ![s] = g]
        /\ UNCHANGED <<client, identity, connects, progress, channels, linked, creating>>
    BY <1>13 DEF Enter
  <2>2. \A h : In(h)' \subseteq IF h = g THEN In(h) \cup {s} ELSE In(h)
    BY <1>0, <2>1 DEF In
  <2>3. CASE sweep.step = "remove" /\ sweep.game = g
    <3> DEFINE as == sweep.arrived \cup {s}
    <3>1. sweep' = [sweep EXCEPT !.arrived = as]
      BY <1>0, <1>13, <2>3 DEF Enter, Sweep
    <3>2. as \subseteq Speakers
      BY <1>0 DEF Sweep
    <3>3. sweep' \in Sweep /\ sweep'.arrived = as /\ sweep'.game = sweep.game
          /\ sweep'.over = sweep.over /\ sweep'.step = sweep.step
      <4> HIDE DEF as
      <4> QED BY <1>0, <3>1, <3>2 DEF Sweep
    <3>4. SweepInv'
      BY <2>1, <2>2, <2>3, <3>3 DEF SweepInv, In
    <3> QED BY <1>0, <1>2, <2>1, <3>3, <3>4 DEF VoiceTypeOK
  <2>4. CASE ~(sweep.step = "remove" /\ sweep.game = g)
    <3>1. sweep' = sweep
      BY <1>13, <2>4 DEF Enter
    <3>2. SweepInv'
      BY <2>1, <2>2, <2>4, <3>1 DEF SweepInv, In
    <3> QED BY <1>0, <1>2, <2>1, <3>1, <3>2 DEF VoiceTypeOK
  <2> QED BY <2>3, <2>4
<1>14. CASE UNCHANGED voiceVars
  BY <1>0, <1>1, <1>2, <1>14 DEF voiceVars, VoiceTypeOK
<1> QED BY <1>3, <1>4, <1>5, <1>6, <1>7, <1>8, <1>9, <1>10, <1>11, <1>12, <1>13, <1>14
        DEF VoiceNext

\* Everything has its type; only channels that are there are linked.
THEOREM VoiceTypeCorrect == VoiceSpec => []VoiceTypeOK
BY InitVoice, NextVoice, PTL DEF VoiceSpec

\* The channels of a game are removed only after it is over, and then throw out only who
\* has come after the users were counted.
THEOREM ChannelsStay == VoiceSpec => ChannelsOutliveGame
<1>1. VoiceSpec => [](VoiceTypeOK /\ SweepInv)
  BY InitVoice, NextVoice, PTL DEF VoiceSpec
<1>2. VoiceTypeOK /\ SweepInv /\ [VoiceNext]_voiceVars
        => \A g \in VoiceGames : channels[g] # {} /\ channels'[g] = {}
             => progress[g] = "over" /\ In(g) \subseteq sweep.arrived
  BY NextVoice DEF OnlyAbandoned
<1> QED BY <1>1, <1>2, PTL DEF VoiceSpec, ChannelsOutliveGame

-----------------------------------------------------------------------------
(* Prompts *)

USE PromptsAssumption DEF PromptsAssumption

Refresh == [step : {"idle", "waiting", "find", "send", "store"},
            count : Counts, id : PromptIds \cup {0}]

Edit == [id : PromptIds, count : Counts]

\* The parts of PromptsTypeOK.
PromptsTypes ==
  /\ players \in Counts
  /\ threshold \in {0, Threshold}
  /\ debouncing \in BOOLEAN /\ astray \in BOOLEAN
  /\ refreshes \in [Refreshes -> Refresh]
  /\ promptId \in PromptIds \cup {0} /\ newest \in PromptIds \cup {0}
  /\ DOMAIN prompts \subseteq PromptIds
  /\ \A id \in DOMAIN prompts : prompts[id] \in Counts
  /\ edits \in Seq(Edit)
  /\ visibility \in [step : {"idle", "newest", "find", "delete"},
                     newest : PromptIds \cup {0}, id : PromptIds \cup {0}]

LEMMA PromptsTypeParts == PromptsTypeOK <=> PromptsTypes
BY DEF PromptsTypeOK, PromptsTypes, Refresh, Edit

LEMMA PromptsTypePartsNext == PromptsTypeOK' <=> PromptsTypes'
BY DEF PromptsTypeOK, PromptsTypes, Refresh, Edit

-----------------------------------------------------------------------------
\* The mutex, and what a refresh that holds it knows: while it sends a prompt there is
\* no other one, and no edit of it is on its way.
MutexInv ==
  /\ \A r, q \in Refreshes : InMutex(r) /\ InMutex(q) => r = q
  /\ \A r \in Refreshes :
       /\ InMutex(r) => threshold = Threshold
       /\ refreshes[r].step \in {"send", "store"} => promptId = 0
       /\ refreshes[r].step = "store" =>
            /\ refreshes[r].id # 0
            /\ \A i \in 1..Len(edits) : edits[i].id # refreshes[r].id

\* No id is used before its prompt is sent.
NumberInv ==
  /\ sent \in Nat
  /\ promptId <= sent
  /\ \A i \in 1..Len(edits) : edits[i].id <= sent
  /\ \A r \in Refreshes : refreshes[r].id <= sent

\* If an edit of the prompt is on its way, then the last edit is one of it.
LastEdit ==
  \A i \in 1..Len(edits) :
    promptId # 0 /\ edits[i].id = promptId => edits[Len(edits)].id = promptId

\* The prompts in the channel are the one in the cache and the one about to be cached.
ChannelInv ==
  \A id : id \in DOMAIN prompts <=>
            \/ id = promptId /\ promptId # 0
            \/ \E r \in Refreshes : refreshes[r].step = "store" /\ id = refreshes[r].id

\* No change of the queue waits for a refresh.
Fresh == ~ debouncing /\ \A r \in Refreshes : refreshes[r].step # "waiting"

Finding == \E r \in Refreshes : refreshes[r].step = "find"

\* What the prompt is going to say.
Says == IF edits # <<>> /\ edits[Len(edits)].id = promptId
        THEN edits[Len(edits)].count ELSE prompts[promptId]

CountInv ==
  /\ \A r \in Refreshes :
       /\ Fresh /\ InMutex(r) => refreshes[r].count = players
       /\ refreshes[r].step = "store" => prompts[refreshes[r].id] = refreshes[r].count
  /\ Fresh /\ promptId # 0 /\ ~ Finding => Says = players

ExistsInv ==
  ~ debouncing /\ ~ Refreshing /\ visibility.step # "delete" /\ players >= Threshold
    => promptId # 0

PromptsInv ==
  /\ MutexInv /\ NumberInv /\ LastEdit
  /\ ~ astray => ChannelInv /\ CountInv /\ ExistsInv

LEMMA InitPrompts == PromptsInit => PromptsTypeOK /\ PromptsInv
<1> SUFFICES ASSUME PromptsInit PROVE PromptsTypeOK /\ PromptsInv
  OBVIOUS
<1> USE DEF PromptsInit
<1>1. edits \in Seq(Edit) /\ Len(edits) = 0
  BY EmptySeq
<1>2. DOMAIN prompts = {}
  OBVIOUS
<1>3. \A r \in Refreshes : refreshes[r].step = "idle" /\ refreshes[r].id = 0
  BY DEF NoRefresh
<1>4. refreshes \in [Refreshes -> Refresh]
  BY DEF NoRefresh, Refresh, Counts
<1>5. PromptsTypes
  <2>1. NoCheck \in [step : {"idle", "newest", "find", "delete"},
                     newest : PromptIds \cup {0}, id : PromptIds \cup {0}]
    BY DEF NoCheck
  <2>2. players \in Counts /\ threshold \in {0, Threshold}
    BY DEF Counts
  <2>3. debouncing \in BOOLEAN /\ astray \in BOOLEAN
    OBVIOUS
  <2>4. promptId \in PromptIds \cup {0} /\ newest \in PromptIds \cup {0}
    OBVIOUS
  <2>5. visibility = NoCheck
    OBVIOUS
  <2> QED BY <1>1, <1>2, <1>4, <2>1, <2>2, <2>3, <2>4, <2>5 DEF PromptsTypes
<1>6. MutexInv /\ NumberInv /\ LastEdit
  BY <1>1, <1>3 DEF MutexInv, NumberInv, LastEdit, InMutex
<1>7. ChannelInv /\ CountInv
  BY <1>2, <1>3 DEF ChannelInv, CountInv, InMutex
<1>8. ExistsInv
  BY DEF ExistsInv
<1> QED BY <1>5, <1>6, <1>7, <1>8, PromptsTypeParts DEF PromptsInv

\* One refresh changes.
LEMMA RefreshStep ==
  ASSUME PromptsTypes, NEW r \in Refreshes, NEW x \in Refresh,
         refreshes' = [refreshes EXCEPT ![r] = x]
  PROVE  /\ refreshes' \in [Refreshes -> Refresh]
         /\ refreshes'[r] = x
         /\ \A q \in Refreshes : q # r => refreshes'[q] = refreshes[q]
BY DEF PromptsTypes

LEMMA NoRefreshType == NoRefresh \in Refresh /\ NoRefresh.step = "idle" /\ NoRefresh.id = 0
BY DEF NoRefresh, Refresh, Counts

LEMMA RefreshEnds ==
  ASSUME PromptsTypes, NEW r \in Refreshes,
         refreshes' = [refreshes EXCEPT ![r] = NoRefresh]
  PROVE  /\ refreshes' \in [Refreshes -> Refresh]
         /\ refreshes'[r].step = "idle" /\ refreshes'[r].id = 0
         /\ \A q \in Refreshes : q # r => refreshes'[q] = refreshes[q]
BY NoRefreshType, RefreshStep

LEMMA RefreshGoesOn ==
  ASSUME PromptsTypes, NEW r \in Refreshes,
         NEW step \in {"idle", "waiting", "find", "send", "store"},
         refreshes' = [refreshes EXCEPT ![r].step = step]
  PROVE  /\ refreshes' \in [Refreshes -> Refresh]
         /\ refreshes'[r].step = step
         /\ refreshes'[r].count = refreshes[r].count /\ refreshes'[r].id = refreshes[r].id
         /\ \A q \in Refreshes : q # r => refreshes'[q] = refreshes[q]
BY DEF PromptsTypes, Refresh

\* A step that leaves the refreshes, the prompts and the edits as they are.
LEMMA PromptsFrame ==
  ASSUME PromptsTypes, PromptsInv,
         UNCHANGED <<threshold, refreshes, promptId, sent, prompts, edits>>,
         debouncing' \/ (players' = players /\ debouncing' = debouncing),
         astray' \/ astray' = astray,
         visibility'.step = "delete" \/ visibility.step # "delete"
  PROVE  PromptsInv'
<1>1. MutexInv' /\ NumberInv' /\ LastEdit'
  BY DEF PromptsInv, MutexInv, NumberInv, LastEdit, InMutex
<1>2. ASSUME ~ astray, ~ astray' PROVE ChannelInv' /\ CountInv' /\ ExistsInv'
  BY <1>2 DEF PromptsInv, ChannelInv, CountInv, ExistsInv, InMutex, Fresh, Finding, Says,
              Refreshing, PromptsTypes
<1> QED BY <1>1, <1>2 DEF PromptsInv, PromptsTypes

LEMMA WaitStep ==
  ASSUME PromptsTypes, PromptsInv, NEW r \in Refreshes,
         refreshes[r].step = "idle",
         refreshes' = [refreshes EXCEPT ![r].step = "waiting"],
         UNCHANGED <<players, threshold, promptId, sent, prompts, edits, astray>>
  PROVE  PromptsInv' /\ refreshes' \in [Refreshes -> Refresh]
<1>1. /\ refreshes' \in [Refreshes -> Refresh]
      /\ refreshes'[r].step = "waiting"
      /\ refreshes'[r].count = refreshes[r].count /\ refreshes'[r].id = refreshes[r].id
      /\ \A q \in Refreshes : q # r => refreshes'[q] = refreshes[q]
  BY RefreshGoesOn
<1>2. MutexInv' /\ NumberInv' /\ LastEdit'
  BY <1>1 DEF PromptsInv, MutexInv, NumberInv, LastEdit, InMutex
<1>3. ~ Fresh' /\ Refreshing'
  BY <1>1 DEF Fresh, Refreshing
<1>4. ASSUME ~ astray PROVE ChannelInv' /\ CountInv' /\ ExistsInv'
  BY <1>1, <1>3, <1>4 DEF PromptsInv, ChannelInv, CountInv, ExistsInv
<1> QED BY <1>1, <1>2, <1>4 DEF PromptsInv

LEMMA TakeStep ==
  ASSUME PromptsTypes, PromptsInv, NEW r \in Refreshes, TakeMutex(r)
  PROVE  PromptsTypes' /\ PromptsInv'
<1> DEFINE x == [refreshes[r] EXCEPT !.step = "find", !.count = players]
<1>1. refreshes' = [refreshes EXCEPT ![r] = x]
  BY DEF TakeMutex, Preview, PromptsTypes, Refresh
<1>2. x \in Refresh /\ x.step = "find" /\ x.count = players /\ x.id = refreshes[r].id
  BY DEF PromptsTypes, Refresh
<1> HIDE DEF x
<1>3. /\ refreshes' \in [Refreshes -> Refresh]
      /\ refreshes'[r] = x
      /\ \A q \in Refreshes : q # r => refreshes'[q] = refreshes[q]
  BY <1>1, <1>2, RefreshStep
<1>4. /\ threshold' = Threshold
      /\ UNCHANGED <<players, debouncing, promptId, sent, prompts, edits, newest,
                     visibility, astray>>
      /\ \A q \in Refreshes : ~ InMutex(q)
      /\ refreshes[r].step = "waiting"
  BY DEF TakeMutex, Preview
<1>5. MutexInv' /\ NumberInv' /\ LastEdit'
  BY <1>2, <1>3, <1>4 DEF PromptsInv, MutexInv, NumberInv, LastEdit, InMutex
<1>6. Finding' /\ Refreshing'
  BY <1>2, <1>3 DEF Finding, Refreshing
<1>7. ASSUME ~ astray PROVE ChannelInv' /\ CountInv' /\ ExistsInv'
  <2>1. ChannelInv'
    BY <1>2, <1>3, <1>4, <1>7 DEF PromptsInv, ChannelInv
  <2>2. CountInv'
    BY <1>2, <1>3, <1>4, <1>6 DEF CountInv, InMutex
  <2>3. ExistsInv'
    BY <1>6 DEF ExistsInv
  <2> QED BY <2>1, <2>2, <2>3
<1>8. PromptsTypes'
  BY <1>3, <1>4 DEF PromptsTypes
<1> QED BY <1>4, <1>5, <1>7, <1>8 DEF PromptsInv

LEMMA FindStep ==
  ASSUME PromptsTypes, PromptsInv, NEW r \in Refreshes, FindPrompt(r)
  PROVE  PromptsTypes' /\ PromptsInv'
<1>1. /\ refreshes[r].step = "find" /\ InMutex(r)
      /\ UNCHANGED <<players, threshold, debouncing, promptId, sent, prompts, newest,
                     visibility, astray>>
  BY DEF FindPrompt, InMutex
<1>2. \A q \in Refreshes : q # r => ~ InMutex(q)
  BY <1>1 DEF PromptsInv, MutexInv
<1>3. CASE promptId \in DOMAIN prompts
  <2> DEFINE e == [id |-> promptId, count |-> refreshes[r].count]
  <2>1. refreshes' = [refreshes EXCEPT ![r] = NoRefresh] /\ edits' = Append(edits, e)
    BY <1>3 DEF FindPrompt
  <2>2. e \in Edit /\ e.id = promptId /\ e.count = refreshes[r].count
    BY <1>3 DEF PromptsTypes, Edit, Refresh
  <2> HIDE DEF e
  <2>3. edits \in Seq(Edit) /\ Len(edits) \in Nat
    BY DEF PromptsTypes
  <2>4. /\ edits' \in Seq(Edit) /\ Len(edits') = Len(edits) + 1 /\ edits' # <<>>
        /\ edits'[Len(edits')] = e
        /\ \A i \in 1..Len(edits) : edits'[i] = edits[i]
    BY <2>1, <2>2, <2>3, AppendProperties, EmptySeq
  <2>5. \A i \in 1..Len(edits') : edits'[i] = e \/ i \in 1..Len(edits)
    BY <2>3, <2>4
  <2>6. /\ refreshes' \in [Refreshes -> Refresh]
        /\ refreshes'[r].step = "idle" /\ refreshes'[r].id = 0
        /\ \A q \in Refreshes : q # r => refreshes'[q] = refreshes[q]
    BY <2>1, RefreshEnds
  <2>7. promptId # 0
    BY <1>3 DEF PromptsTypes
  <2>8. MutexInv'
    BY <1>1, <1>2, <2>6 DEF PromptsInv, MutexInv, InMutex
  <2>9. NumberInv'
    BY <1>1, <2>2, <2>4, <2>5, <2>6 DEF PromptsInv, NumberInv
  <2>10. LastEdit'
    BY <1>1, <2>2, <2>4 DEF LastEdit
  <2>11. ASSUME ~ astray PROVE ChannelInv' /\ CountInv' /\ ExistsInv'
    <3>1. ChannelInv'
      BY <1>1, <2>6, <2>11 DEF PromptsInv, ChannelInv
    <3>2. Says' = refreshes[r].count
      BY <1>1, <2>2, <2>4 DEF Says
    <3>3. Fresh' => refreshes[r].count = players
      BY <1>1, <2>6, <2>11 DEF Fresh, PromptsInv, CountInv
    <3>4. CountInv'
      BY <1>1, <1>2, <2>6, <3>2, <3>3 DEF CountInv, InMutex
    <3>5. ExistsInv'
      BY <1>1, <2>7 DEF ExistsInv
    <3> QED BY <3>1, <3>4, <3>5
  <2>12. PromptsTypes'
    BY <1>1, <2>4, <2>6 DEF PromptsTypes
  <2> QED BY <1>1, <2>8, <2>9, <2>10, <2>11, <2>12 DEF PromptsInv
<1>4. CASE promptId \notin DOMAIN prompts
  <2>1. edits' = edits
        /\ refreshes' = IF promptId = 0 /\ ThresholdMet
                        THEN [refreshes EXCEPT ![r].step = "send"]
                        ELSE [refreshes EXCEPT ![r] = NoRefresh]
    BY <1>4 DEF FindPrompt
  <2>2. CASE promptId = 0 /\ ThresholdMet
    <3>1. /\ refreshes' \in [Refreshes -> Refresh]
          /\ refreshes'[r].step = "send"
          /\ refreshes'[r].count = refreshes[r].count /\ refreshes'[r].id = refreshes[r].id
          /\ \A q \in Refreshes : q # r => refreshes'[q] = refreshes[q]
      BY <2>1, <2>2, RefreshGoesOn
    <3>2. MutexInv' /\ NumberInv' /\ LastEdit'
      BY <1>1, <1>2, <2>1, <2>2, <3>1
         DEF PromptsInv, MutexInv, NumberInv, LastEdit, InMutex
    <3>3. ASSUME ~ astray PROVE ChannelInv' /\ CountInv' /\ ExistsInv'
      <4>1. ChannelInv'
        BY <1>1, <2>2, <3>1, <3>3 DEF PromptsInv, ChannelInv
      <4>2. CountInv'
        BY <1>1, <1>2, <2>1, <2>2, <3>1, <3>3
           DEF PromptsInv, CountInv, InMutex, Fresh
      <4>3. ExistsInv'
        BY <3>1 DEF ExistsInv, Refreshing
      <4> QED BY <4>1, <4>2, <4>3
    <3>4. PromptsTypes'
      BY <1>1, <2>1, <3>1 DEF PromptsTypes
    <3> QED BY <1>1, <3>2, <3>3, <3>4 DEF PromptsInv
  <2>3. CASE ~ (promptId = 0 /\ ThresholdMet)
    <3>1. /\ refreshes' \in [Refreshes -> Refresh]
          /\ refreshes'[r].step = "idle" /\ refreshes'[r].id = 0
          /\ \A q \in Refreshes : q # r => refreshes'[q] = refreshes[q]
      BY <2>1, <2>3, RefreshEnds
    <3>2. MutexInv' /\ NumberInv' /\ LastEdit'
      BY <1>1, <1>2, <2>1, <3>1
         DEF PromptsInv, MutexInv, NumberInv, LastEdit, InMutex
    <3>3. ASSUME ~ astray PROVE ChannelInv' /\ CountInv' /\ ExistsInv'
      <4>1. ChannelInv'
        BY <1>1, <3>1, <3>3 DEF PromptsInv, ChannelInv
      <4>2. promptId = 0
        BY <1>4, <3>3 DEF PromptsInv, ChannelInv
      <4>3. CountInv'
        BY <1>1, <1>2, <2>1, <3>1, <4>2 DEF CountInv, InMutex
      <4>4. ~ (players >= Threshold)
        BY <1>1, <2>3, <4>2 DEF ThresholdMet, PromptsInv, MutexInv
      <4>5. ExistsInv'
        BY <1>1, <4>4 DEF ExistsInv
      <4> QED BY <4>1, <4>3, <4>5
    <3>4. PromptsTypes'
      BY <1>1, <2>1, <3>1 DEF PromptsTypes
    <3> QED BY <1>1, <3>2, <3>3, <3>4 DEF PromptsInv
  <2> QED BY <2>2, <2>3
<1> QED BY <1>3, <1>4

LEMMA SendStep ==
  ASSUME PromptsTypes, PromptsInv, NEW r \in Refreshes, SendPrompt(r)
  PROVE  PromptsTypes' /\ PromptsInv'
<1> DEFINE n == sent + 1
           x == [refreshes[r] EXCEPT !.step = "store", !.id = n]
<1>1. /\ refreshes[r].step = "send" /\ InMutex(r) /\ n \in PromptIds
      /\ sent' = n /\ newest' = n
      /\ prompts' = [i \in DOMAIN prompts \cup {n} |->
                       IF i = n THEN refreshes[r].count ELSE prompts[i]]
      /\ UNCHANGED <<players, threshold, debouncing, promptId, edits, visibility, astray>>
  BY DEF SendPrompt, InMutex
<1>2. refreshes' = [refreshes EXCEPT ![r] = x]
  BY DEF SendPrompt, PromptsTypes, Refresh
<1>3. x \in Refresh /\ x.step = "store" /\ x.count = refreshes[r].count /\ x.id = n
  BY <1>1 DEF PromptsTypes, Refresh
<1> HIDE DEF x
<1>4. /\ refreshes' \in [Refreshes -> Refresh]
      /\ refreshes'[r] = x
      /\ \A q \in Refreshes : q # r => refreshes'[q] = refreshes[q]
  BY <1>2, <1>3, RefreshStep
<1>5. \A q \in Refreshes : q # r => ~ InMutex(q)
  BY <1>1 DEF PromptsInv, MutexInv
<1>6. promptId = 0
  BY <1>1 DEF PromptsInv, MutexInv
<1>7. sent \in Nat /\ n # 0 /\ n \in Nat
  BY DEF PromptsInv, NumberInv
<1>8. \A i \in 1..Len(edits) : edits[i].id <= sent /\ edits[i].id \in Nat
  <2>1. \A i \in 1..Len(edits) : edits[i] \in Edit
    BY ElementOfSeq DEF PromptsTypes
  <2> QED BY <2>1 DEF PromptsInv, NumberInv, Edit
<1>9. \A i \in 1..Len(edits) : edits[i].id # n /\ edits[i].id <= n
  BY <1>7, <1>8
<1>10. \A q \in Refreshes : refreshes'[q].id <= n
  <2>1. \A q \in Refreshes : refreshes[q].id \in Nat /\ refreshes[q].id <= sent
    <3>1. \A q \in Refreshes : refreshes[q].id \in PromptIds \cup {0}
      BY DEF PromptsTypes, Refresh
    <3>2. \A m \in PromptIds \cup {0} : m \in Nat
      OBVIOUS
    <3> QED BY <3>1, <3>2 DEF PromptsInv, NumberInv
  <2>2. \A m \in Nat : m <= sent => m <= n
    BY <1>7
  <2> QED BY <1>3, <1>4, <1>7, <2>1, <2>2
<1>11. /\ DOMAIN prompts' = DOMAIN prompts \cup {n}
       /\ prompts'[n] = refreshes[r].count
       /\ \A i \in DOMAIN prompts : i # n => prompts'[i] = prompts[i]
  BY <1>1
<1>12. refreshes[r].count \in Counts
  BY DEF PromptsTypes, Refresh
<1>13. PromptsTypes'
  BY <1>1, <1>4, <1>11, <1>12 DEF PromptsTypes
<1> HIDE DEF n
<1>14. MutexInv'
  BY <1>1, <1>3, <1>4, <1>5, <1>6, <1>7, <1>9 DEF MutexInv, InMutex, PromptsInv
<1>15. NumberInv'
  BY <1>1, <1>6, <1>7, <1>9, <1>10 DEF NumberInv
<1>16. LastEdit'
  BY <1>1, <1>6 DEF LastEdit
<1>17. ASSUME ~ astray PROVE ChannelInv' /\ CountInv' /\ ExistsInv'
  <2>1. \A i : i \notin DOMAIN prompts
    BY <1>5, <1>6, <1>1, <1>17 DEF PromptsInv, ChannelInv, InMutex
  <2>2. ChannelInv'
    BY <1>1, <1>3, <1>4, <1>5, <1>6, <1>11, <2>1 DEF ChannelInv, InMutex
  <2>3. CountInv'
    BY <1>1, <1>3, <1>4, <1>5, <1>6, <1>11, <1>17 DEF PromptsInv, CountInv, InMutex, Fresh
  <2>4. ExistsInv'
    BY <1>3, <1>4 DEF ExistsInv, Refreshing
  <2> QED BY <2>2, <2>3, <2>4
<1> QED BY <1>1, <1>13, <1>14, <1>15, <1>16, <1>17 DEF PromptsInv

LEMMA CacheStep ==
  ASSUME PromptsTypes, PromptsInv, NEW r \in Refreshes, CachePromptId(r)
  PROVE  PromptsTypes' /\ PromptsInv'
<1> DEFINE n == refreshes[r].id
<1>1. /\ refreshes[r].step = "store" /\ InMutex(r) /\ promptId' = n
      /\ refreshes' = [refreshes EXCEPT ![r] = NoRefresh]
      /\ UNCHANGED <<players, threshold, debouncing, sent, prompts, edits, newest,
                     visibility, astray>>
  BY DEF CachePromptId, InMutex
<1>2. /\ refreshes' \in [Refreshes -> Refresh]
      /\ refreshes'[r].step = "idle" /\ refreshes'[r].id = 0
      /\ \A q \in Refreshes : q # r => refreshes'[q] = refreshes[q]
  BY <1>1, RefreshEnds
<1>3. \A q \in Refreshes : q # r => ~ InMutex(q)
  BY <1>1 DEF PromptsInv, MutexInv
<1>4. n # 0 /\ n <= sent /\ n \in PromptIds \cup {0}
      /\ promptId = 0 /\ \A i \in 1..Len(edits) : edits[i].id # n
  BY <1>1 DEF PromptsInv, MutexInv, NumberInv, PromptsTypes, Refresh
<1> HIDE DEF n
<1>5. PromptsTypes'
  BY <1>1, <1>2, <1>4 DEF PromptsTypes
<1>6. MutexInv'
  BY <1>1, <1>2, <1>3 DEF PromptsInv, MutexInv, InMutex
<1>7. NumberInv'
  BY <1>1, <1>2, <1>4 DEF PromptsInv, NumberInv
<1>8. LastEdit'
  BY <1>1, <1>4 DEF LastEdit
<1>9. ASSUME ~ astray PROVE ChannelInv' /\ CountInv' /\ ExistsInv'
  <2>1. ChannelInv'
    <3>1. \A id : id \in DOMAIN prompts <=> id = n
      BY <1>1, <1>3, <1>4, <1>9 DEF PromptsInv, ChannelInv, InMutex, n
    <3> QED BY <1>1, <1>2, <1>3, <1>4, <3>1 DEF ChannelInv, InMutex
  <2>2. Says' = prompts[n]
    <3>1. edits # <<>> => Len(edits) \in 1..Len(edits)
      BY LenProperties, EmptySeq DEF PromptsTypes
    <3> QED BY <1>1, <1>4, <3>1 DEF Says
  <2>3. prompts[n] = refreshes[r].count
    BY <1>1, <1>9 DEF PromptsInv, CountInv, n
  <2>4. Fresh' => refreshes[r].count = players
    BY <1>1, <1>2, <1>9 DEF PromptsInv, CountInv, Fresh
  <2>5. CountInv'
    BY <1>1, <1>2, <1>3, <2>2, <2>3, <2>4 DEF CountInv, InMutex
  <2>6. ExistsInv'
    BY <1>1, <1>4 DEF ExistsInv
  <2> QED BY <2>1, <2>5, <2>6
<1> QED BY <1>1, <1>5, <1>6, <1>7, <1>8, <1>9 DEF PromptsInv

LEMMA EditStep ==
  ASSUME PromptsTypes, PromptsInv, EditPrompt
  PROVE  PromptsTypes' /\ PromptsInv'
<1> DEFINE h == Head(edits)
<1>1. /\ edits # <<>> /\ edits' = Tail(edits)
      /\ prompts' = [id \in DOMAIN prompts |-> IF id = h.id THEN h.count ELSE prompts[id]]
      /\ UNCHANGED <<players, threshold, debouncing, refreshes, promptId, sent, newest,
                     visibility, astray>>
  BY DEF EditPrompt
<1>2. edits \in Seq(Edit) /\ Len(edits) \in Nat \ {0}
  BY <1>1, EmptySeq, LenProperties DEF PromptsTypes
<1>3. /\ edits' \in Seq(Edit) /\ Len(edits') = Len(edits) - 1 /\ h = edits[1]
      /\ \A i \in 1..Len(edits') : edits'[i] = edits[i + 1]
  BY <1>1, <1>2, HeadTailProperties
<1>4. h \in Edit
  BY <1>2, <1>3, ElementOfSeq
<1> HIDE DEF h
<1>5. \A i \in 1..Len(edits') : i + 1 \in 1..Len(edits)
  BY <1>2, <1>3
<1>6. 1 \in 1..Len(edits)
  BY <1>2
<1>7. /\ DOMAIN prompts' = DOMAIN prompts
      /\ \A id \in DOMAIN prompts :
           prompts'[id] = IF id = h.id THEN h.count ELSE prompts[id]
  BY <1>1
<1>8. PromptsTypes'
  BY <1>1, <1>3, <1>4, <1>7 DEF PromptsTypes, Edit
<1>9. CASE Len(edits) = 1
  <2>1. edits' = <<>> /\ Len(edits') = 0
    BY <1>3, <1>9, EmptySeq
  <2>2. MutexInv' /\ NumberInv' /\ LastEdit'
    BY <1>1, <2>1 DEF PromptsInv, MutexInv, NumberInv, LastEdit, InMutex
  <2>3. ASSUME ~ astray PROVE ChannelInv' /\ CountInv' /\ ExistsInv'
    <3>1. ChannelInv'
      BY <1>1, <1>7, <2>3 DEF PromptsInv, ChannelInv
    <3>2. promptId # 0 => Says' = Says
      BY <1>1, <1>3, <1>7, <1>9, <2>1, <2>3 DEF Says, PromptsInv, ChannelInv
    <3>3. \A r \in Refreshes : refreshes[r].step = "store" =>
            prompts'[refreshes[r].id] = prompts[refreshes[r].id]
      BY <1>3, <1>6, <1>7, <2>3 DEF PromptsInv, MutexInv, ChannelInv
    <3>4. CountInv'
      BY <1>1, <2>3, <3>2, <3>3 DEF PromptsInv, CountInv, Fresh, Finding, InMutex
    <3>5. ExistsInv'
      BY <1>1, <2>3 DEF PromptsInv, ExistsInv, Refreshing
    <3> QED BY <3>1, <3>4, <3>5
  <2> QED BY <1>1, <1>8, <2>2, <2>3 DEF PromptsInv
<1>10. CASE Len(edits) > 1
  <2>1. edits' # <<>> /\ edits'[Len(edits')] = edits[Len(edits)]
    <3>1. Len(edits') \in 1..Len(edits') /\ Len(edits') + 1 = Len(edits)
      BY <1>2, <1>3, <1>10
    <3> QED BY <1>3, <1>10, <3>1, EmptySeq
  <2>2. MutexInv' /\ NumberInv' /\ LastEdit'
    BY <1>1, <1>3, <1>5, <2>1 DEF PromptsInv, MutexInv, NumberInv, LastEdit, InMutex
  <2>3. ASSUME ~ astray PROVE ChannelInv' /\ CountInv' /\ ExistsInv'
    <3>1. ChannelInv'
      BY <1>1, <1>7, <2>3 DEF PromptsInv, ChannelInv
    <3>2. promptId # 0 => Says' = Says
      <4>1. promptId # 0 => promptId \in DOMAIN prompts
        BY <2>3 DEF PromptsInv, ChannelInv
      <4>2. promptId # 0 /\ h.id = promptId => edits[Len(edits)].id = promptId
        BY <1>3, <1>6 DEF PromptsInv, LastEdit
      <4> QED BY <1>1, <1>7, <2>1, <4>1, <4>2 DEF Says
    <3>3. \A r \in Refreshes : refreshes[r].step = "store" =>
            prompts'[refreshes[r].id] = prompts[refreshes[r].id]
      BY <1>3, <1>6, <1>7, <2>3 DEF PromptsInv, MutexInv, ChannelInv
    <3>4. CountInv'
      BY <1>1, <2>3, <3>2, <3>3 DEF PromptsInv, CountInv, Fresh, Finding, InMutex
    <3>5. ExistsInv'
      BY <1>1, <2>3 DEF PromptsInv, ExistsInv, Refreshing
    <3> QED BY <3>1, <3>4, <3>5
  <2> QED BY <1>1, <1>8, <2>2, <2>3 DEF PromptsInv
<1>11. \A n \in Nat \ {0} : n = 1 \/ n > 1
  OBVIOUS
<1> QED BY <1>2, <1>9, <1>10, <1>11

LEMMA DeleteStep ==
  ASSUME PromptsTypes, PromptsInv, DeletePrompt
  PROVE  PromptsTypes' /\ PromptsInv'
<1>1. visibility.step = "find"
      /\ UNCHANGED <<players, threshold, debouncing, refreshes, sent, edits, newest>>
  BY DEF DeletePrompt
<1>2. CASE Hidden /\ ThresholdMet
  <2> DEFINE v == visibility.id
             a == astray \/ promptId # v
  <2>1. /\ prompts' = [i \in DOMAIN prompts \ {v} |-> prompts[i]]
        /\ promptId' = 0
        /\ visibility' = [visibility EXCEPT !.step = "delete"]
        /\ astray' = a
    BY <1>2 DEF DeletePrompt, Without
  <2>2. a \in BOOLEAN /\ (~ a => ~ astray /\ promptId = v)
    BY DEF PromptsTypes
  <2>3. visibility'.step = "delete"
        /\ visibility' \in [step : {"idle", "newest", "find", "delete"},
                            newest : PromptIds \cup {0}, id : PromptIds \cup {0}]
    BY <2>1 DEF PromptsTypes
  <2> HIDE DEF a, v
  <2>4. /\ DOMAIN prompts' = DOMAIN prompts \ {v}
        /\ \A id \in DOMAIN prompts' : prompts'[id] = prompts[id]
    BY <2>1
  <2>5. PromptsTypes'
    BY <1>1, <2>1, <2>2, <2>3, <2>4 DEF PromptsTypes
  <2>6. MutexInv' /\ LastEdit'
    BY <1>1, <2>1 DEF PromptsInv, MutexInv, LastEdit, InMutex
  <2>7. NumberInv'
    BY <1>1, <2>1 DEF PromptsInv, NumberInv
  <2>8. ASSUME ~ a PROVE ChannelInv' /\ CountInv' /\ ExistsInv'
    <3>1. \A r \in Refreshes : refreshes[r].step = "store" =>
            refreshes[r].id # v /\ refreshes[r].id \in DOMAIN prompts
      BY <2>2, <2>8 DEF PromptsInv, MutexInv, ChannelInv
    <3>2. ChannelInv'
      BY <1>1, <2>1, <2>2, <2>4, <2>8, <3>1 DEF PromptsInv, ChannelInv
    <3>3. CountInv'
      BY <1>1, <2>1, <2>2, <2>4, <2>8, <3>1 DEF PromptsInv, CountInv, InMutex, Fresh
    <3>4. ExistsInv'
      BY <2>3 DEF ExistsInv
    <3> QED BY <3>2, <3>3, <3>4
  <2> QED BY <2>1, <2>5, <2>6, <2>7, <2>8 DEF PromptsInv
<1>3. CASE ~ (Hidden /\ ThresholdMet)
  <2>1. visibility' = NoCheck /\ UNCHANGED <<prompts, promptId, astray>>
    BY <1>3 DEF DeletePrompt
  <2>2. PromptsInv'
    BY <1>1, <2>1, PromptsFrame
  <2>3. PromptsTypes'
    BY <1>1, <2>1 DEF PromptsTypes, NoCheck
  <2> QED BY <2>2, <2>3
<1> QED BY <1>2, <1>3

LEMMA NextPrompts ==
  PromptsTypes /\ PromptsInv /\ [PromptsNext]_promptsVars => PromptsTypes' /\ PromptsInv'
<1> SUFFICES ASSUME PromptsTypes, PromptsInv, [PromptsNext]_promptsVars
             PROVE  PromptsTypes' /\ PromptsInv'
  OBVIOUS
<1>1. CASE SlotsChange
  <2>1. debouncing'
    BY <1>1 DEF SlotsChange
  <2>2. PromptsInv'
    BY <1>1, <2>1, PromptsFrame DEF SlotsChange
  <2>3. PromptsTypes'
    BY <1>1 DEF SlotsChange, PromptsTypes
  <2> QED BY <2>2, <2>3
<1>2. ASSUME NEW r \in Refreshes, RefreshPrompt(r) PROVE PromptsTypes' /\ PromptsInv'
  <2>1. PromptsInv' /\ refreshes' \in [Refreshes -> Refresh]
    BY <1>2, WaitStep DEF RefreshPrompt
  <2>2. PromptsTypes'
    BY <1>2, <2>1 DEF RefreshPrompt, PromptsTypes
  <2> QED BY <2>1, <2>2
<1>3. ASSUME NEW r \in Refreshes, RefreshAfterCheck(r) PROVE PromptsTypes' /\ PromptsInv'
  <2>1. PromptsInv' /\ refreshes' \in [Refreshes -> Refresh]
    BY <1>3, WaitStep DEF RefreshAfterCheck
  <2>2. PromptsTypes'
    BY <1>3, <2>1 DEF RefreshAfterCheck, PromptsTypes, NoCheck
  <2> QED BY <2>1, <2>2
<1>4. CASE Chat
  <2>1. PromptsInv'
    BY <1>4, PromptsFrame DEF Chat
  <2>2. PromptsTypes'
    BY <1>4 DEF Chat, PromptsTypes
  <2> QED BY <2>1, <2>2
<1>5. ASSUME NEW id \in PromptIds, RemovePrompt(id) PROVE PromptsTypes' /\ PromptsInv'
  <2>1. /\ DOMAIN prompts' = DOMAIN prompts \ {id}
        /\ \A i \in DOMAIN prompts' : prompts'[i] = prompts[i]
        /\ newest' \in {0, newest} /\ astray' = TRUE
        /\ UNCHANGED <<players, threshold, debouncing, refreshes, promptId, sent, edits,
                       visibility>>
    BY <1>5 DEF RemovePrompt, Without
  <2>2. PromptsTypes'
    BY <2>1 DEF PromptsTypes
  <2>3. MutexInv' /\ NumberInv' /\ LastEdit'
    BY <2>1 DEF PromptsInv, MutexInv, NumberInv, LastEdit, InMutex
  <2> QED BY <2>1, <2>2, <2>3 DEF PromptsInv
<1>6. CASE FetchNewest \/ FetchPrompt
  <2>1. UNCHANGED <<players, threshold, debouncing, refreshes, promptId, sent, prompts,
                    edits, newest, astray>> /\ visibility.step # "delete"
    BY <1>6 DEF FetchNewest, FetchPrompt
  <2>2. visibility' \in [step : {"idle", "newest", "find", "delete"},
                         newest : PromptIds \cup {0}, id : PromptIds \cup {0}]
    <3> DEFINE C == [step : {"idle", "newest", "find", "delete"},
                     newest : PromptIds \cup {0}, id : PromptIds \cup {0}]
    <3>1. \A c \in C, i \in PromptIds \cup {0} : [c EXCEPT !.step = "find", !.id = i] \in C
      OBVIOUS
    <3>2. \A i \in PromptIds \cup {0} :
            [NoCheck EXCEPT !.step = "newest", !.newest = i] \in C
      BY DEF NoCheck
    <3>3. NoCheck \in C
      BY DEF NoCheck
    <3>4. visibility \in C /\ newest \in PromptIds \cup {0} /\ promptId \in PromptIds \cup {0}
      BY DEF PromptsTypes
    <3> HIDE DEF C
    <3>5. visibility' \in C
      BY <1>6, <3>1, <3>2, <3>3, <3>4 DEF FetchNewest, FetchPrompt
    <3> QED BY <3>5 DEF C
  <2>3. PromptsInv'
    BY <2>1, PromptsFrame
  <2> QED BY <2>1, <2>2, <2>3 DEF PromptsTypes
<1>7. CASE UNCHANGED promptsVars
  <2>1. PromptsInv'
    BY <1>7, PromptsFrame DEF promptsVars
  <2>2. PromptsTypes'
    BY <1>7 DEF promptsVars, PromptsTypes
  <2> QED BY <2>1, <2>2
<1> QED
  BY <1>1, <1>2, <1>3, <1>4, <1>5, <1>6, <1>7, TakeStep, FindStep, SendStep, CacheStep,
     EditStep, DeleteStep DEF PromptsNext

LEMMA PromptsInvImplies == PromptsTypes /\ PromptsInv => PromptShowsQueue
<1> SUFFICES ASSUME PromptsTypes, PromptsInv, ~ debouncing, ~ Refreshing, edits = <<>>,
                    visibility.step = "idle", ~ astray
             PROVE  /\ players >= Threshold => DOMAIN prompts # {}
                    /\ \A id \in DOMAIN prompts : id = promptId /\ prompts[id] = players
  BY DEF PromptShowsQueue
<1>1. Fresh /\ ~ Finding
  BY DEF Fresh, Finding, Refreshing
<1>2. \A id : id \in DOMAIN prompts <=> id = promptId /\ promptId # 0
  BY DEF PromptsInv, ChannelInv, Refreshing
<1>3. promptId # 0 => prompts[promptId] = players
  BY <1>1 DEF PromptsInv, CountInv, Says
<1>4. players >= Threshold => promptId # 0
  BY DEF PromptsInv, ExistsInv
<1> QED BY <1>2, <1>3, <1>4

LEMMA PromptsInvariant == PromptsSpec => [](PromptsTypes /\ PromptsInv)
<1>1. PromptsInit => PromptsTypes /\ PromptsInv
  BY InitPrompts, PromptsTypeParts
<1> QED BY <1>1, NextPrompts, PTL DEF PromptsSpec

\* Everything has its type.
THEOREM PromptsTypeCorrect == PromptsSpec => []PromptsTypeOK
BY PromptsInvariant, PromptsTypeParts, PTL

\* When everything was sent and executed the one prompt there is says how many players are
\* in the queue, however many refreshes, edits and checks overlapped before.
THEOREM PromptsShowQueue == PromptsSpec => []PromptShowsQueue
BY PromptsInvariant, PromptsInvImplies, PTL

-----------------------------------------------------------------------------
(* Accounts *)

USE AccountsAssumption

LoginSteps == {"find", "hours", "etf2l", "create", "register", "issue"}

RefreshSteps == {"delete", "verify", "store"}

LEMMA IdleStep ==
  ASSUME AccountsTypeOK, NEW r \in Requests
  PROVE  requests[r].step = "idle" <=> requests[r] = Idle
BY DEF AccountsTypeOK, Request, Idle

LEMMA LoginRequest ==
  ASSUME AccountsTypeOK, NEW r \in Requests, requests[r].step \in LoginSteps
  PROVE  requests[r] \in [step : LoginSteps, steamId : SteamIds, forced : BOOLEAN]
BY DEF AccountsTypeOK, Request, Idle, LoginSteps

LEMMA RefreshRequest ==
  ASSUME AccountsTypeOK, NEW r \in Requests, requests[r].step \in RefreshSteps
  PROVE  requests[r] \in [step : RefreshSteps, token : Token]
BY DEF AccountsTypeOK, Request, Idle, RefreshSteps

LEMMA GoOnType ==
  ASSUME AccountsTypeOK, NEW r \in Requests, NEW step, GoOn(r, step),
         \/ step \in LoginSteps /\ requests[r].step \in LoginSteps
         \/ step \in RefreshSteps /\ requests[r].step \in RefreshSteps
  PROVE  requests' \in [Requests -> Request]
<1>1. requests' = [requests EXCEPT ![r] = [requests[r] EXCEPT !.step = step]]
  BY DEF GoOn, AccountsTypeOK
<1>2. [requests[r] EXCEPT !.step = step] \in Request
  <2>1. CASE step \in LoginSteps /\ requests[r].step \in LoginSteps
    BY <2>1, LoginRequest DEF Request, LoginSteps
  <2>2. CASE step \in RefreshSteps /\ requests[r].step \in RefreshSteps
    BY <2>2, RefreshRequest DEF Request, RefreshSteps
  <2> QED BY <2>1, <2>2
<1> QED BY <1>1, <1>2 DEF AccountsTypeOK

LEMMA LostWithType ==
  ASSUME AccountsTypeOK, NEW rs
  PROVE  LostWith(rs) \in [SessionIds -> Session]
BY DEF LostWith, AccountsTypeOK, Session

-----------------------------------------------------------------------------
(* The invariant *)

\* A process that is up signs with the key that is stored, which no other replaces.
KeyInv ==
  /\ process.step # "down" => process.starts > 0
  /\ process.step \in {"store", "up"} => process.key # NoKey
  /\ process.step = "store" => keyStore = NoKey
  /\ process.step = "up" => process.key = keyStore
  /\ \A r \in Requests : requests[r] # Idle => process.step = "up"
  /\ \A token \in refreshTokens : token.key = keyStore

\* A request sends a token that has a successor, of a session that has begun.
RefreshInv ==
  /\ \A r \in Requests : requests[r].step \in RefreshSteps =>
       /\ requests[r].token.n < MaxRefreshes
       /\ sessions[requests[r].token.session].state # "none"
  /\ \A token \in refreshTokens : sessions[token.session].state # "none"

AccountsInv == AccountsTypeOK /\ KeyInv /\ RefreshInv /\ SessionsGoOn

LEMMA InitAccountsInv == AccountsInit => AccountsInv
<1> SUFFICES ASSUME AccountsInit PROVE AccountsInv
  OBVIOUS
<1>1. AccountsTypeOK
  BY DEF AccountsInit, AccountsTypeOK, NoKey, Request, Session, Idle
<1>2. KeyInv /\ RefreshInv
  BY DEF AccountsInit, KeyInv, RefreshInv, RefreshSteps, Idle
<1>3. SessionsGoOn
  BY DEF AccountsInit, SessionsGoOn, GoesOn, TokensOf, Exchanging, Idle
<1> QED BY <1>1, <1>2, <1>3 DEF AccountsInv

LEMMA NextAccountsType ==
  AccountsInv /\ [AccountsNext]_accountsVars => AccountsTypeOK'
<1> SUFFICES ASSUME AccountsInv, [AccountsNext]_accountsVars PROVE AccountsTypeOK'
  OBVIOUS
<1> USE DEF AccountsInv
<1>i. Idle \in Request
  BY DEF Request
<1>k. process.step = "up" => process.key \in 1..MaxStarts
  BY DEF KeyInv, AccountsTypeOK, NoKey
<1>1. CASE Start
  BY <1>1 DEF Start, NoKey, AccountsTypeOK
<1>2. CASE ImportKeys
  BY <1>2 DEF ImportKeys, AccountsTypeOK
<1>3. CASE StoreKeys
  BY <1>3 DEF StoreKeys, AccountsTypeOK
<1>4. CASE Crash
  <2>1. requests' \in [Requests -> Request]
    BY <1>4, <1>i DEF Crash
  <2>2. sessions' \in [SessionIds -> Session]
    BY <1>4, LostWithType DEF Crash
  <2>3. process' \in [step : {"down", "import", "store", "up"}, key : 0..MaxStarts,
                      starts : 0..MaxStarts]
    <3>1. process' = [step |-> "down", key |-> NoKey, starts |-> process.starts]
      BY <1>4 DEF Crash, AccountsTypeOK
    <3> QED BY <3>1 DEF NoKey, AccountsTypeOK
  <2> QED BY <1>4, <2>1, <2>2, <2>3 DEF Crash, AccountsTypeOK
<1>5. ASSUME NEW r \in Requests, NEW s \in SteamIds,
             SteamLogin(r, s) \/ ForceCreatePlayer(r, s)
      PROVE  AccountsTypeOK'
  <2>1. /\ [step |-> "find", steamId |-> s, forced |-> FALSE] \in Request
        /\ [step |-> "create", steamId |-> s, forced |-> TRUE] \in Request
    BY DEF Request
  <2>2. CASE SteamLogin(r, s)
    BY <2>1, <2>2 DEF SteamLogin, Begin, AccountsTypeOK
  <2>3. CASE ForceCreatePlayer(r, s)
    BY <2>1, <2>3 DEF ForceCreatePlayer, Begin, AccountsTypeOK
  <2> QED BY <1>5, <2>2, <2>3
<1>6. ASSUME NEW r \in Requests,
             FindPlayer(r) \/ VerifyTf2InGameHours(r) \/ FetchPlayerInfo(r)
      PROVE  AccountsTypeOK'
  <2>1. requests' \in [Requests -> Request]
    BY <1>6, GoOnType DEF FindPlayer, VerifyTf2InGameHours, FetchPlayerInfo, LoginSteps
  <2> QED
    BY <1>6, <2>1 DEF FindPlayer, VerifyTf2InGameHours, FetchPlayerInfo, AccountsTypeOK
<1>7. ASSUME NEW r \in Requests, CreatePlayer(r) PROVE AccountsTypeOK'
  <2>1. requests' \in [Requests -> Request]
    BY <1>7, GoOnType DEF CreatePlayer, LoginSteps
  <2>2. requests[r].steamId \in SteamIds
    BY <1>7, LoginRequest DEF CreatePlayer, LoginSteps
  <2> QED BY <1>7, <2>1, <2>2 DEF CreatePlayer, AccountsTypeOK
<1>8. ASSUME NEW r \in Requests, RegisterPlayer(r) PROVE AccountsTypeOK'
  <2>1. requests' \in [Requests -> Request]
    <3>1. requests[r].step \in LoginSteps
      BY <1>8 DEF RegisterPlayer, LoginSteps
    <3>2. [requests[r] EXCEPT !.step = "issue"] \in Request
      BY <3>1, LoginRequest DEF Request, LoginSteps
    <3>3. requests' = [requests EXCEPT ![r] = IF requests[r].forced THEN Idle
                                     ELSE [requests[r] EXCEPT !.step = "issue"]]
      BY <1>8 DEF RegisterPlayer, AccountsTypeOK
    <3> QED BY <3>2, <3>3, <1>i DEF AccountsTypeOK
  <2>2. registrations' \in [SteamIds -> Nat]
    <3>1. requests[r].steamId \in SteamIds
      BY <1>8, LoginRequest DEF RegisterPlayer, LoginSteps
    <3>2. registrations[requests[r].steamId] + 1 \in Nat
      BY <3>1 DEF AccountsTypeOK
    <3> QED BY <1>8, <3>1, <3>2 DEF RegisterPlayer, AccountsTypeOK
  <2> QED BY <1>8, <2>1, <2>2 DEF RegisterPlayer, AccountsTypeOK
<1>9. ASSUME NEW r \in Requests, NEW i \in SessionIds, IssueTokens(r, i)
      PROVE  AccountsTypeOK'
  <2>1. requests' \in [Requests -> Request]
    BY <1>9, <1>i DEF IssueTokens, AccountsTypeOK
  <2>2. process.step = "up"
    BY <1>9 DEF IssueTokens, KeyInv, Idle
  <2>3. [session |-> i, n |-> 1, key |-> process.key] \in Token
    BY <2>2, <1>k DEF Token
  <2> QED BY <1>9, <2>1, <2>3 DEF IssueTokens, Session, AccountsTypeOK
<1>10. ASSUME NEW r \in Requests, RequestFails(r) PROVE AccountsTypeOK'
  BY <1>10, <1>i, LostWithType DEF RequestFails, AccountsTypeOK
<1>11. ASSUME NEW r \in Requests, NEW token \in Token, RefreshTokens(r, token)
       PROVE  AccountsTypeOK'
  BY <1>11 DEF RefreshTokens, Begin, Request, AccountsTypeOK
<1>12. ASSUME NEW r \in Requests, DeleteToken(r) PROVE AccountsTypeOK'
  <2>1. requests[r].step \in RefreshSteps
    BY <1>12 DEF DeleteToken, RefreshSteps
  <2>2. [requests[r] EXCEPT !.step = "verify"] \in Request
    BY <2>1, RefreshRequest DEF Request, RefreshSteps
  <2>3. requests' \in [Requests -> Request]
    <3>1. requests' = [requests EXCEPT ![r] =
                         IF requests[r].token \in refreshTokens
                         THEN [requests[r] EXCEPT !.step = "verify"] ELSE Idle]
      BY <1>12 DEF DeleteToken, AccountsTypeOK
    <3> QED BY <3>1, <2>2, <1>i DEF AccountsTypeOK
  <2> QED BY <1>12, <2>3 DEF DeleteToken, AccountsTypeOK
<1>13. ASSUME NEW r \in Requests, VerifyToken(r) PROVE AccountsTypeOK'
  <2>1. requests' \in [Requests -> Request]
    BY <1>13, GoOnType DEF VerifyToken, RefreshSteps
  <2> QED BY <1>13, <2>1 DEF VerifyToken, AccountsTypeOK
<1>14. ASSUME NEW r \in Requests, NEW answered \in BOOLEAN, StoreToken(r, answered)
       PROVE  AccountsTypeOK'
  <2> DEFINE old == requests[r].token
  <2>1. process.step = "up"
    BY <1>14 DEF StoreToken, KeyInv, Idle
  <2>2. old \in Token /\ old.n < MaxRefreshes
    BY <1>14, RefreshRequest DEF StoreToken, RefreshSteps, RefreshInv
  <2>3. [session |-> old.session, n |-> old.n + 1, key |-> process.key] \in Token
    BY <2>1, <2>2, <1>k DEF Token
  <2>4. requests' \in [Requests -> Request]
    BY <1>14, <1>i DEF StoreToken, AccountsTypeOK
  <2>5. sessions' \in [SessionIds -> Session]
    <3>1. old.session \in SessionIds /\ old.n + 1 \in 0..MaxRefreshes
      BY <2>2 DEF Token
    <3>2. sessions' = [sessions EXCEPT ![old.session] =
                         IF answered THEN [sessions[old.session] EXCEPT !.has = old.n + 1]
                         ELSE [sessions[old.session] EXCEPT !.state = "lost"]]
      BY <1>14 DEF StoreToken, AccountsTypeOK
    <3> QED BY <3>1, <3>2 DEF Session, AccountsTypeOK
  <2> QED BY <1>14, <2>3, <2>4, <2>5 DEF StoreToken, AccountsTypeOK
<1>15. ASSUME NEW token \in Token, TokenExpires(token) PROVE AccountsTypeOK'
  BY <1>15 DEF TokenExpires, Session, Token, AccountsTypeOK
<1>16. CASE UNCHANGED accountsVars
  BY <1>16 DEF accountsVars, AccountsTypeOK
<1> QED
  BY <1>1, <1>2, <1>3, <1>4, <1>5, <1>6, <1>7, <1>8, <1>9, <1>10, <1>11, <1>12, <1>13,
     <1>14, <1>15, <1>16 DEF AccountsNext

LEMMA NextKeyInv == AccountsInv /\ [AccountsNext]_accountsVars => KeyInv'
<1> SUFFICES ASSUME AccountsInv, [AccountsNext]_accountsVars PROVE KeyInv'
  OBVIOUS
<1> USE DEF AccountsInv, KeyInv
<1>1. CASE Start
  BY <1>1 DEF Start, AccountsTypeOK
<1>2. CASE ImportKeys
  <2>1. CASE keyStore # NoKey
    BY <1>2, <2>1 DEF ImportKeys, AccountsTypeOK
  <2>2. CASE keyStore = NoKey
    BY <1>2, <2>2 DEF ImportKeys, AccountsTypeOK, NoKey
  <2> QED BY <2>1, <2>2
<1>3. CASE StoreKeys
  <2>1. refreshTokens = {}
    BY <1>3 DEF StoreKeys, AccountsTypeOK, Token, NoKey
  <2> QED BY <1>3, <2>1 DEF StoreKeys, AccountsTypeOK
<1>4. CASE Crash
  BY <1>4 DEF Crash, AccountsTypeOK
<1>5. ASSUME NEW r \in Requests, NEW s \in SteamIds,
             SteamLogin(r, s) \/ ForceCreatePlayer(r, s)
      PROVE  KeyInv'
  BY <1>5 DEF SteamLogin, ForceCreatePlayer, Begin
<1>6. ASSUME NEW r \in Requests,
             \/ FindPlayer(r) \/ VerifyTf2InGameHours(r) \/ FetchPlayerInfo(r)
             \/ CreatePlayer(r) \/ RegisterPlayer(r) \/ RequestFails(r) \/ VerifyToken(r)
      PROVE  KeyInv'
  <2>1. requests[r] # Idle /\ UNCHANGED <<process, keyStore, refreshTokens>>
    BY <1>6 DEF FindPlayer, VerifyTf2InGameHours, FetchPlayerInfo, CreatePlayer,
                RegisterPlayer, RequestFails, VerifyToken, Idle
  <2> QED BY <2>1
<1>7. ASSUME NEW r \in Requests, NEW i \in SessionIds, IssueTokens(r, i) PROVE KeyInv'
  BY <1>7 DEF IssueTokens, Idle
<1>8. ASSUME NEW r \in Requests, NEW token \in Token, RefreshTokens(r, token)
      PROVE  KeyInv'
  BY <1>8 DEF RefreshTokens, Begin
<1>9. ASSUME NEW r \in Requests, DeleteToken(r) PROVE KeyInv'
  BY <1>9 DEF DeleteToken, Idle
<1>10. ASSUME NEW r \in Requests, NEW answered \in BOOLEAN, StoreToken(r, answered)
       PROVE  KeyInv'
  BY <1>10 DEF StoreToken, Idle
<1>11. ASSUME NEW token \in Token, TokenExpires(token) PROVE KeyInv'
  BY <1>11 DEF TokenExpires
<1>12. CASE UNCHANGED accountsVars
  BY <1>12 DEF accountsVars
<1> QED
  BY <1>1, <1>2, <1>3, <1>4, <1>5, <1>6, <1>7, <1>8, <1>9, <1>10, <1>11, <1>12
  DEF AccountsNext

-----------------------------------------------------------------------------
(* Sessions *)

\* What the steps of a login and of the process leave alone: no token is exchanged.
NoExchange ==
  /\ UNCHANGED <<keyStore, refreshTokens, sessions>>
  /\ \A r \in Requests :
       requests'[r].step \in RefreshSteps => requests'[r] = requests[r]
  /\ \A r \in Requests :
       requests[r].step \in {"verify", "store"} => requests'[r] = requests[r]

LEMMA NoExchangeInv ==
  ASSUME RefreshInv, SessionsGoOn, NoExchange
  PROVE  RefreshInv' /\ SessionsGoOn'
<1>1. RefreshInv'
  BY DEF RefreshInv, NoExchange
<1>2. ASSUME NEW i \in SessionIds PROVE Exchanging(i)' = Exchanging(i)
  BY DEF Exchanging, NoExchange, RefreshSteps
<1>3. ASSUME NEW i \in SessionIds PROVE TokensOf(i)' = TokensOf(i)
  BY DEF TokensOf, NoExchange
<1> QED BY <1>1, <1>2, <1>3 DEF SessionsGoOn, GoesOn, NoExchange

LEMMA BeginNoExchange ==
  ASSUME AccountsTypeOK, NEW r \in Requests, NEW request,
         request.step \notin RefreshSteps, Begin(r, request)
  PROVE  NoExchange
BY DEF Begin, NoExchange, AccountsTypeOK, RefreshSteps, Idle

LEMMA LoginNoExchange ==
  ASSUME AccountsTypeOK, NEW r \in Requests,
         \/ FindPlayer(r) \/ VerifyTf2InGameHours(r) \/ FetchPlayerInfo(r)
         \/ CreatePlayer(r) \/ RegisterPlayer(r)
  PROVE  NoExchange
<1>1. requests[r].step \in LoginSteps
  BY DEF FindPlayer, VerifyTf2InGameHours, FetchPlayerInfo, CreatePlayer, RegisterPlayer,
         LoginSteps
<1>2. requests[r].step \notin RefreshSteps
  BY <1>1 DEF LoginSteps, RefreshSteps
<1>3. \A q \in Requests : q # r => requests'[q] = requests[q]
  BY DEF FindPlayer, VerifyTf2InGameHours, FetchPlayerInfo, CreatePlayer, RegisterPlayer,
         GoOn, AccountsTypeOK
<1>4. requests'[r].step \notin RefreshSteps
  <2>1. ASSUME NEW step \in LoginSteps, GoOn(r, step) PROVE requests'[r].step \in LoginSteps
    <3>1. requests'[r] = [requests[r] EXCEPT !.step = step]
      BY <2>1 DEF GoOn, AccountsTypeOK
    <3> QED BY <3>1, <1>1, LoginRequest
  <2>2. CASE RegisterPlayer(r)
    <3>1. \/ requests'[r] = Idle
          \/ requests'[r] = [requests[r] EXCEPT !.step = "issue"]
      BY <2>2 DEF RegisterPlayer, AccountsTypeOK
    <3> QED BY <3>1, <1>1, LoginRequest DEF Idle, RefreshSteps
  <2>3. CASE ~ RegisterPlayer(r)
    BY <2>1, <2>3
    DEF FindPlayer, VerifyTf2InGameHours, FetchPlayerInfo, CreatePlayer, LoginSteps,
        RefreshSteps
  <2> QED BY <2>2, <2>3
<1>5. UNCHANGED <<keyStore, refreshTokens, sessions>>
  BY DEF FindPlayer, VerifyTf2InGameHours, FetchPlayerInfo, CreatePlayer, RegisterPlayer
<1> QED BY <1>2, <1>3, <1>4, <1>5 DEF NoExchange, RefreshSteps

\* What cannot be replaced is lost.
LEMMA LostWithFacts ==
  ASSUME AccountsTypeOK, RefreshInv, NEW rs \in SUBSET Requests, NEW i \in SessionIds
  PROVE  /\ Exchanging(i) \cap rs # {} => LostWith(rs)[i].state = "lost"
         /\ Exchanging(i) \cap rs = {} => LostWith(rs)[i] = sessions[i]
         /\ sessions[i].state # "none" => LostWith(rs)[i].state # "none"
<1> DEFINE ids == {requests[r].token.session :
                     r \in {x \in rs : requests[x].step \in {"verify", "store"}}}
<1>1. i \in ids <=> Exchanging(i) \cap rs # {}
  BY DEF Exchanging
<1>2. LostWith(rs)[i] = IF i \in ids THEN [sessions[i] EXCEPT !.state = "lost"]
                                     ELSE sessions[i]
  BY DEF LostWith
<1>3. [sessions[i] EXCEPT !.state = "lost"].state = "lost"
  BY DEF AccountsTypeOK, Session
<1> QED BY <1>1, <1>2, <1>3

LEMMA LoseInv ==
  ASSUME AccountsInv, NEW rs \in SUBSET Requests,
         requests' = [r \in Requests |-> IF r \in rs THEN Idle ELSE requests[r]],
         sessions' = LostWith(rs),
         UNCHANGED <<keyStore, refreshTokens>>
  PROVE  RefreshInv' /\ SessionsGoOn'
<1> USE DEF AccountsInv
<1>1. RefreshInv'
  <2>1. \A i \in SessionIds : sessions[i].state # "none" => sessions'[i].state # "none"
    BY LostWithFacts
  <2>2. ASSUME NEW r \in Requests, requests'[r].step \in RefreshSteps
        PROVE  /\ requests'[r].token.n < MaxRefreshes
               /\ sessions'[requests'[r].token.session].state # "none"
    <3>1. requests'[r] = requests[r]
      BY <2>2 DEF Idle, RefreshSteps
    <3>2. requests[r].token.session \in SessionIds
      BY <2>2, <3>1, RefreshRequest DEF Token
    <3> QED BY <2>1, <2>2, <3>1, <3>2 DEF RefreshInv
  <2>3. ASSUME NEW token \in refreshTokens' PROVE sessions'[token.session].state # "none"
    BY <2>1 DEF RefreshInv, AccountsTypeOK, Token
  <2> QED BY <2>2, <2>3 DEF RefreshInv
<1>2. ASSUME NEW i \in SessionIds PROVE GoesOn(i)'
  <2>1. Exchanging(i)' = Exchanging(i) \ rs
    BY DEF Exchanging, Idle
  <2>2. TokensOf(i)' = TokensOf(i)
    BY DEF TokensOf
  <2>3. GoesOn(i)
    BY DEF SessionsGoOn
  <2>4. CASE Exchanging(i) \cap rs = {}
    <3>1. sessions'[i] = sessions[i] /\ Exchanging(i)' = Exchanging(i)
      BY <2>1, <2>4, LostWithFacts
    <3> QED BY <2>2, <2>3, <3>1 DEF GoesOn
  <2>5. CASE Exchanging(i) \cap rs # {}
    <3>1. sessions'[i].state = "lost"
      BY <2>5, LostWithFacts
    <3> QED BY <2>1, <2>2, <2>3, <3>1 DEF GoesOn
  <2> QED BY <2>4, <2>5
<1> QED BY <1>1, <1>2 DEF SessionsGoOn

LEMMA IssueInv ==
  ASSUME AccountsInv, NEW r \in Requests, NEW i \in SessionIds, IssueTokens(r, i)
  PROVE  RefreshInv' /\ SessionsGoOn'
<1> USE DEF AccountsInv
<1>1. /\ sessions' = [sessions EXCEPT ![i] = [state |-> "kept", has |-> 1]]
      /\ refreshTokens' = refreshTokens \cup {[session |-> i, n |-> 1, key |-> process.key]}
      /\ requests' = [requests EXCEPT ![r] = Idle]
      /\ keyStore' = keyStore /\ process.key = keyStore
      /\ sessions[i].state = "none"
      /\ requests[r].step \notin RefreshSteps
  BY DEF IssueTokens, KeyInv, Idle, RefreshSteps
<1>2. \A q \in Requests : requests'[q].step \in RefreshSteps => requests'[q] = requests[q]
  BY <1>1 DEF AccountsTypeOK, Idle, RefreshSteps
<1>3. RefreshInv'
  BY <1>1, <1>2 DEF RefreshInv, AccountsTypeOK
<1>4. \A j \in SessionIds : Exchanging(j)' = Exchanging(j)
  BY <1>1, <1>2 DEF Exchanging, RefreshSteps, AccountsTypeOK
<1>5. GoesOn(i)'
  <2>1. TokensOf(i)' = {[session |-> i, n |-> 1, key |-> process.key]}
    BY <1>1 DEF TokensOf, RefreshInv
  <2>2. Exchanging(i)' = {}
    BY <1>1, <1>4 DEF Exchanging, RefreshInv, RefreshSteps
  <2>3. sessions'[i].has = 1
    BY <1>1 DEF AccountsTypeOK
  <2> QED BY <1>1, <2>1, <2>2, <2>3 DEF GoesOn
<1>6. ASSUME NEW j \in SessionIds, j # i PROVE GoesOn(j)'
  <2>1. TokensOf(j)' = TokensOf(j) /\ sessions'[j] = sessions[j]
    BY <1>1, <1>6 DEF TokensOf, AccountsTypeOK
  <2> QED BY <1>1, <1>4, <2>1 DEF SessionsGoOn, GoesOn
<1> QED BY <1>3, <1>5, <1>6 DEF SessionsGoOn

LEMMA RefreshTokensInv ==
  ASSUME AccountsInv, NEW r \in Requests, NEW token \in Token, RefreshTokens(r, token)
  PROVE  RefreshInv' /\ SessionsGoOn'
<1> USE DEF AccountsInv
<1>1. /\ requests' = [requests EXCEPT ![r] = [step |-> "delete", token |-> token]]
      /\ requests[r].step = "idle"
      /\ token.n < MaxRefreshes
      /\ sessions[token.session].state = "kept"
      /\ UNCHANGED <<keyStore, refreshTokens, sessions>>
  BY DEF RefreshTokens, Begin, Idle
<1>2. RefreshInv'
  BY <1>1 DEF RefreshInv, AccountsTypeOK
<1>3. ASSUME NEW i \in SessionIds
      PROVE  Exchanging(i)' = Exchanging(i) /\ TokensOf(i)' = TokensOf(i)
  BY <1>1 DEF Exchanging, TokensOf, AccountsTypeOK
<1> QED BY <1>1, <1>2, <1>3 DEF SessionsGoOn, GoesOn

\* A token is taken by one request: those that sent it too find that it is not there.
LEMMA DeleteTokenInv ==
  ASSUME AccountsInv, NEW r \in Requests, DeleteToken(r)
  PROVE  RefreshInv' /\ SessionsGoOn'
<1> USE DEF AccountsInv
<1> DEFINE token == requests[r].token
<1>1. /\ requests[r] = [step |-> "delete", token |-> token]
      /\ token \in Token
  BY RefreshRequest DEF DeleteToken, RefreshSteps
<1>2. /\ refreshTokens' = refreshTokens \ {token}
      /\ UNCHANGED <<keyStore, sessions>>
      /\ \A q \in Requests : q # r => requests'[q] = requests[q]
      /\ requests'[r] = IF token \in refreshTokens THEN [step |-> "verify", token |-> token]
                                                   ELSE Idle
  BY <1>1 DEF DeleteToken, AccountsTypeOK
<1> HIDE DEF token
<1>3. RefreshInv'
  BY <1>1, <1>2 DEF RefreshInv, RefreshSteps, Idle
<1>4. ASSUME NEW i \in SessionIds PROVE GoesOn(i)'
  <2>1. GoesOn(i)
    BY DEF SessionsGoOn
  <2>2. CASE i # token.session \/ token \notin refreshTokens
    <3>1. Exchanging(i)' = Exchanging(i) /\ TokensOf(i)' = TokensOf(i)
      BY <1>1, <1>2, <2>2 DEF Exchanging, TokensOf, Idle
    <3> QED BY <1>2, <2>1, <3>1 DEF GoesOn
  <2>3. CASE i = token.session /\ token \in refreshTokens
    <3>1. Exchanging(i) = {} /\ TokensOf(i) = {token}
      BY <2>1, <2>3 DEF GoesOn, TokensOf
    <3>2. TokensOf(i)' = {}
      BY <1>2, <3>1 DEF TokensOf
    <3>3. Exchanging(i)' = {r}
      BY <1>1, <1>2, <2>3, <3>1 DEF Exchanging
    <3> QED BY <3>2, <3>3 DEF GoesOn
  <2> QED BY <2>2, <2>3
<1> QED BY <1>3, <1>4 DEF SessionsGoOn

LEMMA VerifyTokenInv ==
  ASSUME AccountsInv, NEW r \in Requests, VerifyToken(r)
  PROVE  RefreshInv' /\ SessionsGoOn'
<1> USE DEF AccountsInv
<1>1. /\ requests[r].step = "verify"
      /\ requests'[r] = [requests[r] EXCEPT !.step = "store"]
      /\ \A q \in Requests : q # r => requests'[q] = requests[q]
      /\ UNCHANGED <<keyStore, refreshTokens, sessions>>
  BY DEF VerifyToken, GoOn, AccountsTypeOK
<1>2. requests'[r].step = "store" /\ requests'[r].token = requests[r].token
  BY <1>1, RefreshRequest DEF RefreshSteps
<1>3. RefreshInv'
  BY <1>1, <1>2 DEF RefreshInv, RefreshSteps
<1>4. ASSUME NEW i \in SessionIds
      PROVE  Exchanging(i)' = Exchanging(i) /\ TokensOf(i)' = TokensOf(i)
  BY <1>1, <1>2 DEF Exchanging, TokensOf
<1> QED BY <1>1, <1>3, <1>4 DEF SessionsGoOn, GoesOn

LEMMA StoreTokenInv ==
  ASSUME AccountsInv, NEW r \in Requests, NEW answered \in BOOLEAN, StoreToken(r, answered)
  PROVE  RefreshInv' /\ SessionsGoOn'
<1> USE DEF AccountsInv
<1> DEFINE old == requests[r].token
           new == [session |-> old.session, n |-> old.n + 1, key |-> process.key]
<1>1. /\ requests[r].step = "store" /\ old \in Token
      /\ requests[r] # Idle
  BY RefreshRequest DEF StoreToken, RefreshSteps, Idle
<1>2. PICK s \in SessionIds : s = old.session
  BY <1>1 DEF Token
<1>9. process.key = keyStore
  BY <1>1 DEF KeyInv
<1>3. /\ refreshTokens' = refreshTokens \cup {new}
      /\ requests' = [requests EXCEPT ![r] = Idle]
      /\ keyStore' = keyStore
      /\ \A i \in SessionIds : i # s => sessions'[i] = sessions[i]
      /\ sessions'[s] = IF answered THEN [sessions[s] EXCEPT !.has = old.n + 1]
                                    ELSE [sessions[s] EXCEPT !.state = "lost"]
  BY <1>2 DEF StoreToken, AccountsTypeOK
<1>4. /\ sessions'[s].state \in {sessions[s].state, "lost"}
      /\ sessions'[s].state = "kept" => sessions'[s].has = old.n + 1
  BY <1>2, <1>3 DEF AccountsTypeOK, Session
<1>5. new.session = s /\ new.n = old.n + 1 /\ new.key = keyStore
  BY <1>2, <1>9
<1>6. sessions[s].state # "none"
  BY <1>1, <1>2 DEF RefreshInv, RefreshSteps
<1> HIDE DEF new, old
<1>7. RefreshInv'
  <2>1. \A i \in SessionIds : sessions[i].state # "none" => sessions'[i].state # "none"
    BY <1>3, <1>4
  <2>2. ASSUME NEW q \in Requests, requests'[q].step \in RefreshSteps
        PROVE  /\ requests'[q].token.n < MaxRefreshes
               /\ sessions'[requests'[q].token.session].state # "none"
    <3>1. requests'[q] = requests[q]
      BY <1>3, <2>2 DEF Idle, RefreshSteps, AccountsTypeOK
    <3>2. requests[q].token.session \in SessionIds
      BY <2>2, <3>1, RefreshRequest DEF Token
    <3> QED BY <2>1, <2>2, <3>1, <3>2 DEF RefreshInv
  <2>3. ASSUME NEW token \in refreshTokens' PROVE sessions'[token.session].state # "none"
    <3>1. CASE token = new
      BY <1>2, <1>5, <1>6, <2>1, <3>1
    <3>2. CASE token \in refreshTokens
      BY <2>1, <3>2 DEF RefreshInv, AccountsTypeOK, Token
    <3> QED BY <1>3, <3>1, <3>2
  <2> QED BY <2>2, <2>3 DEF RefreshInv
<1>8. GoesOn(s)'
  <2>1. GoesOn(s)
    BY <1>2 DEF SessionsGoOn
  <2>2. r \in Exchanging(s)
    BY <1>1, <1>2 DEF Exchanging, old
  <2>3. Exchanging(s) = {r} /\ TokensOf(s) = {}
    BY <2>1, <2>2 DEF GoesOn
  <2>4. TokensOf(s)' = {new}
    BY <1>3, <1>5, <2>3 DEF TokensOf
  <2>5. Exchanging(s)' = {}
    BY <1>3, <2>3 DEF Exchanging, Idle, AccountsTypeOK
  <2> QED BY <1>3, <1>4, <1>5, <2>4, <2>5 DEF GoesOn
<1>10. ASSUME NEW i \in SessionIds, i # s PROVE GoesOn(i)'
  <2>1. GoesOn(i) /\ sessions'[i] = sessions[i]
    BY <1>3, <1>10 DEF SessionsGoOn
  <2>2. TokensOf(i)' = TokensOf(i)
    BY <1>3, <1>5, <1>10 DEF TokensOf
  <2>3. Exchanging(i)' = Exchanging(i)
    BY <1>1, <1>2, <1>3, <1>10 DEF Exchanging, Idle, AccountsTypeOK, old
  <2> QED BY <1>3, <2>1, <2>2, <2>3 DEF GoesOn
<1> QED BY <1>7, <1>8, <1>10 DEF SessionsGoOn

LEMMA TokenExpiresInv ==
  ASSUME AccountsInv, NEW token \in Token, TokenExpires(token)
  PROVE  RefreshInv' /\ SessionsGoOn'
<1> USE DEF AccountsInv
<1>1. /\ token.session \in SessionIds
      /\ refreshTokens' = refreshTokens \ {token}
      /\ UNCHANGED <<keyStore, requests>>
      /\ \A i \in SessionIds :
           IF i = token.session THEN sessions'[i].state = "lost"
                                ELSE sessions'[i] = sessions[i]
  BY DEF TokenExpires, Token, AccountsTypeOK, Session
<1>2. RefreshInv'
  <2>1. \A i \in SessionIds : sessions[i].state # "none" => sessions'[i].state # "none"
    BY <1>1
  <2>2. ASSUME NEW r \in Requests, requests[r].step \in RefreshSteps
        PROVE  sessions'[requests[r].token.session].state # "none"
    BY <2>1, <2>2, RefreshRequest DEF RefreshInv, Token
  <2>3. ASSUME NEW other \in refreshTokens PROVE sessions'[other.session].state # "none"
    BY <2>1 DEF RefreshInv, AccountsTypeOK, Token
  <2> QED BY <1>1, <2>2, <2>3 DEF RefreshInv
<1>3. ASSUME NEW i \in SessionIds PROVE GoesOn(i)'
  <2>1. GoesOn(i) /\ Exchanging(i)' = Exchanging(i)
    BY <1>1 DEF SessionsGoOn, Exchanging
  <2>2. TokensOf(i)' \subseteq TokensOf(i)
    BY <1>1 DEF TokensOf
  <2>3. CASE i = token.session
    BY <1>1, <2>1, <2>2, <2>3 DEF GoesOn
  <2>4. CASE i # token.session
    <3>1. TokensOf(i)' = TokensOf(i)
      BY <1>1, <2>4 DEF TokensOf
    <3> QED BY <1>1, <2>1, <2>4, <3>1 DEF GoesOn
  <2> QED BY <2>3, <2>4
<1> QED BY <1>2, <1>3 DEF SessionsGoOn

LEMMA NextSessions ==
  AccountsInv /\ [AccountsNext]_accountsVars => RefreshInv' /\ SessionsGoOn'
<1> SUFFICES ASSUME AccountsInv, [AccountsNext]_accountsVars
             PROVE  RefreshInv' /\ SessionsGoOn'
  OBVIOUS
<1> USE DEF AccountsInv
<1>1. CASE Start \/ ImportKeys \/ UNCHANGED accountsVars
  <2>1. NoExchange
    BY <1>1 DEF Start, ImportKeys, accountsVars, NoExchange
  <2> QED BY <2>1, NoExchangeInv
<1>2. CASE StoreKeys
  <2>1. refreshTokens = {}
    BY <1>2 DEF StoreKeys, KeyInv, AccountsTypeOK, Token, NoKey
  <2>2. RefreshInv'
    BY <1>2 DEF StoreKeys, RefreshInv
  <2>3. ASSUME NEW i \in SessionIds PROVE GoesOn(i)'
    <3>1. TokensOf(i) = {} /\ TokensOf(i)' = {}
      BY <1>2, <2>1 DEF StoreKeys, TokensOf
    <3>2. Exchanging(i)' = Exchanging(i)
      BY <1>2 DEF StoreKeys, Exchanging
    <3> QED BY <1>2, <3>1, <3>2 DEF StoreKeys, SessionsGoOn, GoesOn
  <2> QED BY <2>2, <2>3 DEF SessionsGoOn
<1>3. CASE Crash
  BY <1>3, LoseInv DEF Crash
<1>4. ASSUME NEW r \in Requests, RequestFails(r) PROVE RefreshInv' /\ SessionsGoOn'
  <2>1. requests' = [q \in Requests |-> IF q \in {r} THEN Idle ELSE requests[q]]
    BY <1>4 DEF RequestFails, AccountsTypeOK
  <2> QED BY <1>4, <2>1, LoseInv DEF RequestFails
<1>5. ASSUME NEW r \in Requests, NEW s \in SteamIds,
             SteamLogin(r, s) \/ ForceCreatePlayer(r, s)
      PROVE  RefreshInv' /\ SessionsGoOn'
  <2>1. \A request : request.step \notin RefreshSteps /\ Begin(r, request) => NoExchange
    BY BeginNoExchange
  <2>2. NoExchange
    BY <1>5, <2>1 DEF SteamLogin, ForceCreatePlayer, RefreshSteps
  <2> QED BY <2>2, NoExchangeInv
<1>6. ASSUME NEW r \in Requests,
             \/ FindPlayer(r) \/ VerifyTf2InGameHours(r) \/ FetchPlayerInfo(r)
             \/ CreatePlayer(r) \/ RegisterPlayer(r)
      PROVE  RefreshInv' /\ SessionsGoOn'
  BY <1>6, LoginNoExchange, NoExchangeInv
<1> QED
  BY <1>1, <1>2, <1>3, <1>4, <1>5, <1>6, IssueInv, RefreshTokensInv, DeleteTokenInv,
     VerifyTokenInv, StoreTokenInv, TokenExpiresInv
  DEF AccountsNext

-----------------------------------------------------------------------------
LEMMA AccountsInvariant == AccountsSpec => []AccountsInv
<1>1. AccountsInv /\ [AccountsNext]_accountsVars => AccountsInv'
  BY NextAccountsType, NextKeyInv, NextSessions DEF AccountsInv
<1> QED BY <1>1, InitAccountsInv, PTL DEF AccountsSpec

\* Everything has its type: no session gets a token beyond the bound, and no token is
\* signed with a key that is not stored.
THEOREM AccountsTypeCorrect == AccountsSpec => []AccountsTypeOK
BY AccountsInvariant, PTL DEF AccountsInv

\* However often a refresh token is sent, by however many requests, it is exchanged
\* once, and a session whose client got every answer goes on after any restart.
THEOREM SessionsContinue == AccountsSpec => []SessionsGoOn
BY AccountsInvariant, PTL DEF AccountsInv

-----------------------------------------------------------------------------
(* Registrations *)

LEMMA RegistersFrame ==
  ASSUME AccountsTypeOK, RegistersOnce, registrations' = registrations, accounts' = accounts,
         \A r \in Requests : requests'[r].step = "register" => requests'[r] = requests[r]
  PROVE  RegistersOnce'
<1>1. ASSUME NEW s \in SteamIds PROVE Registering(s)' \subseteq Registering(s)
  BY DEF Registering
<1>2. \A s \in SteamIds : registrations[s] \in Nat
  BY DEF AccountsTypeOK
<1> QED BY <1>1, <1>2 DEF RegistersOnce

LEMMA NextRegisters ==
  AccountsInv /\ RegistersOnce /\ [AccountsNext]_accountsVars => RegistersOnce'
<1> SUFFICES ASSUME AccountsInv, RegistersOnce, [AccountsNext]_accountsVars
             PROVE  RegistersOnce'
  OBVIOUS
<1> USE DEF AccountsInv
<1>1. ASSUME NEW r \in Requests, registrations' = registrations, accounts' = accounts,
             \A q \in Requests : q # r => requests'[q] = requests[q],
             requests'[r].step # "register"
      PROVE  RegistersOnce'
  <2>1. \A q \in Requests : requests'[q].step = "register" => requests'[q] = requests[q]
    BY <1>1
  <2> QED BY <1>1, <2>1, RegistersFrame
<1>2. ASSUME NEW r \in Requests, NEW step, GoOn(r, step), requests[r].step # "idle"
      PROVE  /\ requests'[r].step = step
             /\ requests'[r].steamId = requests[r].steamId
             /\ \A q \in Requests : q # r => requests'[q] = requests[q]
  <2>1. requests'[r] = [requests[r] EXCEPT !.step = step]
    BY <1>2 DEF GoOn, AccountsTypeOK
  <2>2. requests[r].step \in LoginSteps \/ requests[r].step \in RefreshSteps
    BY <1>2 DEF AccountsTypeOK, Request, Idle, LoginSteps, RefreshSteps
  <2>3. requests'[r].step = step /\ requests'[r].steamId = requests[r].steamId
    BY <2>1, <2>2, LoginRequest, RefreshRequest
  <2> QED BY <1>2, <2>3 DEF GoOn, AccountsTypeOK
<1>3. CASE Start \/ ImportKeys \/ StoreKeys \/ UNCHANGED accountsVars
  BY <1>3, RegistersFrame DEF Start, ImportKeys, StoreKeys, accountsVars
<1>4. CASE Crash
  BY <1>4, RegistersFrame DEF Crash, Idle
<1>5. ASSUME NEW r \in Requests, NEW s \in SteamIds,
             SteamLogin(r, s) \/ ForceCreatePlayer(r, s)
      PROVE  RegistersOnce'
  <2>1. /\ requests'[r].step \in {"find", "create"}
        /\ \A q \in Requests : q # r => requests'[q] = requests[q]
        /\ UNCHANGED <<registrations, accounts>>
    BY <1>5 DEF SteamLogin, ForceCreatePlayer, Begin, AccountsTypeOK
  <2> QED BY <1>1, <2>1
<1>6. ASSUME NEW r \in Requests,
             \/ FindPlayer(r) \/ VerifyTf2InGameHours(r) \/ FetchPlayerInfo(r)
             \/ VerifyToken(r)
      PROVE  RegistersOnce'
  <2>1. PICK step \in {"issue", "create", "hours", "etf2l", "store"} : GoOn(r, step)
    BY <1>6 DEF FindPlayer, VerifyTf2InGameHours, FetchPlayerInfo, VerifyToken
  <2>2. requests[r].step # "idle" /\ UNCHANGED <<registrations, accounts>>
    BY <1>6 DEF FindPlayer, VerifyTf2InGameHours, FetchPlayerInfo, VerifyToken
  <2> QED BY <1>1, <1>2, <2>1, <2>2
<1>7. ASSUME NEW r \in Requests, CreatePlayer(r) PROVE RegistersOnce'
  <2>1. PICK s \in SteamIds : s = requests[r].steamId
    BY <1>7, LoginRequest DEF CreatePlayer, LoginSteps
  <2>2. /\ s \notin accounts /\ accounts' = accounts \cup {s}
        /\ registrations' = registrations
        /\ requests'[r].step = "register" /\ requests'[r].steamId = s
        /\ \A q \in Requests : q # r => requests'[q] = requests[q]
    BY <1>2, <1>7, <2>1 DEF CreatePlayer
  <2>3. Registering(s) = {} /\ registrations[s] = 0
    BY <2>2 DEF RegistersOnce, AccountsTypeOK
  <2>4. Registering(s)' = {r}
    BY <2>2, <2>3 DEF Registering
  <2>5. ASSUME NEW other \in SteamIds, other # s
        PROVE  Registering(other)' = Registering(other)
    <3>1. r \notin Registering(other)
      BY <1>7 DEF CreatePlayer, Registering
    <3> QED BY <2>2, <2>5, <3>1 DEF Registering
  <2> QED BY <2>2, <2>3, <2>4, <2>5 DEF RegistersOnce
<1>8. ASSUME NEW r \in Requests, RegisterPlayer(r) PROVE RegistersOnce'
  <2>1. PICK s \in SteamIds : s = requests[r].steamId
    BY <1>8, LoginRequest DEF RegisterPlayer, LoginSteps
  <2>2. /\ registrations' = [registrations EXCEPT ![s] = registrations[s] + 1]
        /\ accounts' = accounts
        /\ requests[r].step = "register"
        /\ \A q \in Requests : q # r => requests'[q] = requests[q]
    BY <1>8, <2>1 DEF RegisterPlayer, AccountsTypeOK
  <2>3. requests'[r].step # "register"
    <3>1. \/ requests'[r] = Idle
          \/ requests'[r] = [requests[r] EXCEPT !.step = "issue"]
      BY <1>8 DEF RegisterPlayer, AccountsTypeOK
    <3> QED BY <2>2, <3>1, LoginRequest DEF Idle, LoginSteps
  <2>4. Registering(s) = {r}
    BY <2>1, <2>2 DEF RegistersOnce, Registering
  <2>5. Registering(s)' = {} /\ registrations[s] = 0 /\ s \in accounts
    BY <2>2, <2>3, <2>4 DEF RegistersOnce, Registering, AccountsTypeOK
  <2>6. registrations'[s] = 1
    BY <2>2, <2>5 DEF AccountsTypeOK
  <2>7. ASSUME NEW other \in SteamIds, other # s
        PROVE  /\ Registering(other)' = Registering(other)
               /\ registrations'[other] = registrations[other]
    BY <2>1, <2>2, <2>3, <2>7 DEF Registering, AccountsTypeOK
  <2> QED BY <2>2, <2>5, <2>6, <2>7 DEF RegistersOnce
<1>9. ASSUME NEW r \in Requests, NEW i \in SessionIds, IssueTokens(r, i)
      PROVE  RegistersOnce'
  BY <1>1, <1>9 DEF IssueTokens, AccountsTypeOK, Idle
<1>10. ASSUME NEW r \in Requests, RequestFails(r) PROVE RegistersOnce'
  BY <1>1, <1>10 DEF RequestFails, AccountsTypeOK, Idle
<1>11. ASSUME NEW r \in Requests, NEW token \in Token, RefreshTokens(r, token)
       PROVE  RegistersOnce'
  BY <1>1, <1>11 DEF RefreshTokens, Begin, AccountsTypeOK
<1>12. ASSUME NEW r \in Requests, DeleteToken(r) PROVE RegistersOnce'
  <2>1. CASE requests[r].token \in refreshTokens
    <3>1. GoOn(r, "verify") /\ requests[r].step # "idle"
      BY <1>12, <2>1 DEF DeleteToken, GoOn
    <3> QED BY <1>1, <1>2, <1>12, <3>1 DEF DeleteToken
  <2>2. CASE requests[r].token \notin refreshTokens
    BY <1>1, <1>12, <2>2 DEF DeleteToken, AccountsTypeOK, Idle
  <2> QED BY <2>1, <2>2
<1>13. ASSUME NEW r \in Requests, NEW answered \in BOOLEAN, StoreToken(r, answered)
       PROVE  RegistersOnce'
  BY <1>1, <1>13 DEF StoreToken, AccountsTypeOK, Idle
<1>14. ASSUME NEW token \in Token, TokenExpires(token) PROVE RegistersOnce'
  <2>1. UNCHANGED <<registrations, accounts, requests>>
    BY <1>14 DEF TokenExpires
  <2> QED BY <2>1, RegistersFrame
<1> QED
  BY <1>3, <1>4, <1>5, <1>6, <1>7, <1>8, <1>9, <1>10, <1>11, <1>12, <1>13, <1>14
  DEF AccountsNext

\* However many logins and forced creations of a player overlap, one account is made of
\* him, and it is announced once at most.
THEOREM PlayersRegisterOnce == AccountsSpec => []RegistersOnce
<1>1. AccountsInit => RegistersOnce
  <2> SUFFICES ASSUME AccountsInit PROVE RegistersOnce
    OBVIOUS
  <2>1. ASSUME NEW s \in SteamIds PROVE Registering(s) = {} /\ registrations[s] = 0
    BY DEF AccountsInit, Registering, Idle
  <2>2. ASSUME NEW s \in SteamIds
        PROVE  /\ \A r, q \in Registering(s) : r = q
               /\ registrations[s] <= IF Registering(s) = {} THEN 1 ELSE 0
               /\ registrations[s] = 1 \/ Registering(s) # {} => s \in accounts
    BY <2>1
  <2> QED BY <2>2 DEF RegistersOnce
<1> QED BY <1>1, NextRegisters, AccountsInvariant, PTL DEF AccountsSpec

-----------------------------------------------------------------------------
(* All of it *)

\* A behaviour of the six is one of each.
LEMMA EachPart ==
  AllSpec => /\ Spec /\ AccountsSpec /\ VoiceSpec
             /\ PromptsSpec /\ StreamsSpec /\ NoticesSpec
<1>1. AllInit => /\ Init /\ AccountsInit /\ VoiceInit
                 /\ PromptsInit /\ StreamsInit /\ NoticesInit
  BY DEF AllInit
<1>2. [AllNext]_<<part, vars, accountsVars, voiceVars, promptsVars, streamsVars, noticesVars>>
        => /\ [Next]_vars /\ [AccountsNext]_accountsVars /\ [VoiceNext]_voiceVars
           /\ [PromptsNext]_promptsVars /\ [StreamsNext]_streamsVars
           /\ [NoticesNext]_noticesVars
  BY DEF AllNext
<1> QED
  BY <1>1, <1>2, PTL
  DEF AllSpec, Spec, AccountsSpec, VoiceSpec, PromptsSpec, StreamsSpec, NoticesSpec

\* What is stored and sent around the players is always of the right type.
THEOREM MembersTypesCorrect == AllSpec => []TypesOK
BY EachPart, PresenceTypeCorrect, AccountsTypeCorrect, VoiceTypeCorrect, PromptsTypeCorrect,
   StreamsTypeCorrect, NoticesTypeCorrect, PTL DEF TypesOK

=============================================================================
