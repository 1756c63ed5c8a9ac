----------------------------- MODULE AvatarStore -----------------------------
(***************************************************************************)
(* The avatar icon of a player: the session cache of                       *)
(* apps/web/src/lib/avatar-store.ts, the endpoints of                      *)
(* apps/server/src/avatar-api.ts and the rows of player_profile in db.ts.  *)
(*                                                                         *)
(* One browser session, reloads included, beside other devices that write  *)
(* the same rows.  What a render asks for is fetched by a microtask, before*)
(* anything else can happen, so "pending" is empty between the actions; the*)
(* chunks of 100, the listeners' render and the validity of an icon are    *)
(* left out.  A row counts its writes; the code keeps no such number.      *)
(***************************************************************************)
EXTENDS Naturals, FiniteSets

CONSTANTS
  Self,           \* the address that is signed in
  Others,         \* other addresses on screen
  Icons, Gradient,
  MaxWrites,      \* bound: writes of one row
  MaxReads,       \* bound: fetches of a session
  MaxLoads,       \* bound: page loads
  MaxPosts        \* bound: writes on their way

ASSUME AvatarAssumption ==
  MaxWrites \in Nat \ {0} /\ MaxReads \in Nat /\ MaxLoads \in Nat

Addresses == {Self} \cup Others
Values == Icons \cup {Gradient}
NoRow == [icon |-> Gradient, writes |-> 0]
NoRead == [rows |-> [a \in Addresses |-> NoRow], blind |-> FALSE]

VARIABLES
  profile,      \* player_profile; NoRow where there is none
  cache,        \* what is known of each address, if anything
  fetches,      \* inflight: requests and, once served, their answers
  absent,       \* confirmedAbsent
  assigning,    \* ensureStarterAvatar waits for a fetch
  seed,         \* localStorage: the own last pick, if any
  posts,        \* POST /avatar on their way
  reads, loads

avatarVars == <<profile, cache, fetches, absent, assigning, seed, posts, reads, loads>>

(* A post; a starter icon has what the session's read of the row was.       *)
Post(a, icon, starter, read) == [address |-> a, icon |-> icon, starter |-> starter,
                                 seen |-> read.rows[a].writes, blind |-> read.blind, load |-> loads]

AvatarTypeOK ==
  /\ profile \in [Addresses -> [icon : Values, writes : 0 .. MaxWrites]]
  /\ cache \in [Addresses -> {{}} \cup {{v} : v \in Values}]
  /\ \A f \in fetches :
       /\ f.addresses \in (SUBSET Addresses) \ {{}} /\ f.served \in BOOLEAN
       /\ f.read.rows \in [Addresses -> [icon : Values, writes : 0 .. MaxWrites]]
  /\ absent \subseteq Addresses /\ assigning \in BOOLEAN
  /\ seed \in {{}} \cup {{v} : v \in Values}
  /\ \A p \in posts : p.address \in Addresses /\ p.icon \in Values
  /\ reads \in 0 .. MaxReads /\ loads \in 0 .. MaxLoads

AvatarInit ==
  /\ profile \in [Addresses -> {NoRow} \cup {[icon |-> v, writes |-> 1] : v \in Values}]
  /\ cache = [a \in Addresses |-> {}]
  /\ fetches = {} /\ absent = {} /\ assigning = FALSE
  /\ seed = {} /\ posts = {} /\ reads = 0 /\ loads = 0

Inflight == UNION {f.addresses : f \in fetches}

(* enqueue and flush: what is neither known nor asked for yet.              *)
Wanted(addresses) == {a \in addresses : cache[a] = {}} \ Inflight
Fetch(addresses) ==
  IF Wanted(addresses) = {} THEN UNCHANGED <<fetches, reads>>
  ELSE /\ reads < MaxReads
       /\ reads' = reads + 1
       /\ fetches' = fetches \cup {[id |-> reads', addresses |-> Wanted(addresses),
                                    served |-> FALSE, read |-> NoRead]}

(* useAvatarIcon, prefetchAvatarIcons: a screen shows some avatars.         *)
ShowAvatars(addresses) ==
  /\ Fetch(addresses)
  /\ UNCHANGED <<profile, cache, absent, assigning, seed, posts, loads>>

(* ensureStarterAvatar: from the layout, once an address is signed in.      *)
EnsureStarterAvatar ==
  /\ cache[Self] = {} /\ ~assigning
  /\ assigning' = TRUE
  /\ Fetch({Self})
  /\ UNCHANGED <<profile, cache, absent, seed, posts, loads>>

(* GET /avatars: a read that the database fails is served as no rows.       *)
ServeAvatars(f) ==
  /\ ~f.served
  /\ \E blind \in BOOLEAN :
       fetches' = (fetches \ {f}) \cup
         {[f EXCEPT !.served = TRUE,
             !.read = [rows |-> IF blind THEN NoRead.rows ELSE profile, blind |-> blind]]}
  /\ UNCHANGED <<profile, cache, absent, assigning, seed, posts, reads, loads>>

RowSeen(f, a) == ~f.read.blind /\ f.read.rows[a].writes > 0

(* fetchChunk: every address asked for is known from now on, as read when   *)
(* the request was served.  The starter that waits for its own comes next,  *)
(* in the same turn; one whose fetch failed before is given up.             *)
ConfirmedAbsent_Any(newAbsent) == TRUE
ConfirmedAbsent(newAbsent) == Self \in newAbsent

FetchArrives(f) ==
  LET newAbsent == absent \cup {a \in f.addresses : ~RowSeen(f, a)}
      settled == Self \in f.addresses \/ cache[Self] # {} \/ Self \notin Inflight
  IN  /\ f.served
      /\ fetches' = fetches \ {f}
      /\ absent' = newAbsent
      /\ IF assigning /\ settled /\ ConfirmedAbsent(newAbsent)
         THEN \E id \in Icons :
                /\ cache' = [a \in Addresses |->
                               IF a = Self THEN {id}
                               ELSE IF a \in f.addresses THEN {f.read.rows[a].icon} ELSE cache[a]]
                /\ seed' = {id}
                /\ posts' = posts \cup {Post(Self, id, TRUE, f.read)}
         ELSE /\ cache' = [a \in Addresses |->
                             IF a \in f.addresses THEN {f.read.rows[a].icon} ELSE cache[a]]
              /\ UNCHANGED <<seed, posts>>
      /\ assigning' = (assigning /\ ~settled)
      /\ UNCHANGED <<profile, reads, loads>>

(* A failed fetch wakes the waiting before its addresses leave inflight, so *)
(* a starter that waits for it goes on waiting.                             *)
FetchBreaks(f) ==
  /\ fetches' = fetches \ {f}
  /\ assigning' = (assigning /\ cache[Self] = {} /\ Self \in Inflight)
  /\ UNCHANGED <<profile, cache, absent, seed, posts, reads, loads>>

(* setAvatarIcon from the picker: shown at once, written later or not.      *)
PickAvatar(icon) ==
  /\ Cardinality(posts) < MaxPosts
  /\ cache' = [cache EXCEPT ![Self] = {icon}]
  /\ seed' = {icon}
  /\ posts' = posts \cup {Post(Self, icon, FALSE, NoRead)}
  /\ assigning' = FALSE
  /\ UNCHANGED <<profile, fetches, absent, reads, loads>>

Written(a, icon) ==
  /\ profile[a].writes < MaxWrites
  /\ profile' = [profile EXCEPT ![a] = [icon |-> icon, writes |-> @.writes + 1]]

SaveAvatar(p) ==
  /\ Written(p.address, p.icon)
  /\ posts' = posts \ {p}
  /\ UNCHANGED <<cache, fetches, absent, assigning, seed, reads, loads>>

LosePost(p) ==
  /\ posts' = posts \ {p}
  /\ UNCHANGED <<profile, cache, fetches, absent, assigning, seed, reads, loads>>

(* The player picks on another device; what the others pick is only read.   *)
PickElsewhere(icon) ==
  /\ Written(Self, icon)
  /\ UNCHANGED <<cache, fetches, absent, assigning, seed, posts, reads, loads>>

(* seedSelf: a reload knows the own last pick; storage may be unavailable.  *)
ReloadPage ==
  /\ loads < MaxLoads
  /\ loads' = loads + 1
  /\ seed' \in {seed, {}}
  /\ cache' = [a \in Addresses |-> IF a = Self THEN seed' ELSE {}]
  /\ fetches' = {} /\ absent' = {} /\ assigning' = FALSE
  /\ UNCHANGED <<profile, posts, reads>>

AvatarNext ==
  \/ \E addresses \in SUBSET Addresses : Wanted(addresses) # {} /\ ShowAvatars(addresses)
  \/ EnsureStarterAvatar
  \/ \E f \in fetches : ServeAvatars(f) \/ FetchArrives(f) \/ FetchBreaks(f)
  \/ \E icon \in Values : PickAvatar(icon) \/ PickElsewhere(icon)
  \/ \E p \in posts : SaveAvatar(p) \/ LosePost(p)
  \/ ReloadPage

-----------------------------------------------------------------------------
(* Safety: a starter icon never replaces what its session was told of, a    *)
(* chosen icon or the explicit gradient: it replaces a row only if that was *)
(* written after the read, or if the read had failed and was served as a    *)
(* table without rows.  And one page load sends no two of them.             *)
StarterSparesChoices ==
  \A p \in posts : p.starter =>
    /\ p.blind \/ p.seen = 0
    /\ \A q \in posts : q.starter /\ q.load = p.load => q = p
=============================================================================
