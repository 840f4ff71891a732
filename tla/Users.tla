-------------------------------- MODULE Users --------------------------------
(***************************************************************************)
(* Users and their identities (controller/users.go, login/service.go,      *)
(* account/user.go, account/identity.go).  The auth service creates,       *)
(* updates, obfuscates and deletes them here; a user who logs in is        *)
(* created or brought up to date from the claims of the token.             *)
(*                                                                         *)
(* A user has what the claims carry (data) and the rest (bio), and any     *)
(* number of identities.  An identity has a user name, which is not        *)
(* unique, and may have a user and the URL of a profile, which is unique:  *)
(* the import of a tracker makes identities that have no user.  Updates    *)
(* write whole rows that were read before, and a row that is gone by then  *)
(* is inserted again (gorm's Save).                                        *)
(***************************************************************************)
EXTENDS Naturals, FiniteSets

CONSTANTS
    UserIDs, IdentityIDs,
    UserNames,          \* names tokens and the auth service use
    LowerCase(_),       \* the name in lower case
    Data,               \* other personal data
    Profiles,           \* URLs of profiles on trackers
    Obfuscated, Nothing,
    Services            \* requests that run at a time

\* The random string in place of what was known of a user.
Hidden(u) == <<Obfuscated, u>>

UserRow == [data : Data \cup {Hidden(u) : u \in UserIDs}, bio : Data \cup {Hidden(u) : u \in UserIDs} \cup {Nothing}]
IdentityRow == [user : UserIDs \cup {Nothing}, username : UserNames \cup {Hidden(u) : u \in UserIDs},
                profile : Profiles \cup {Hidden(u) : u \in UserIDs} \cup {Nothing}]

ASSUME UsersAssumption ==
    Nothing \notin UserIDs \cup IdentityIDs \cup UserNames \cup Profiles \cup UserRow \cup IdentityRow \cup {Hidden(u) : u \in UserIDs}

VARIABLES
    users,          \* data and bio of a user, or Nothing
    identities,     \* user, user name and profile of an identity, or Nothing
    owned,          \* the identities that own a space
    ureq,           \* ureq[p]: the request
    everUsed,       \* identifiers of users are random and not used again
    forgotten,      \* users that were obfuscated, and not updated by the auth service nor given
                    \* an identity since, as long as no requests have overlapped
    gone,           \* users that were deleted
    overlap,        \* two requests have overlapped
    namesakes       \* that, or two identities have had the same name, but for its spelling, or user

userTables == <<users, identities, owned, everUsed>>
userVars == <<users, identities, owned, ureq, everUsed, forgotten, gone, overlap, namesakes>>

UIdle == [pc |-> "idle", i |-> Nothing, user |-> Nothing, identity |-> Nothing, data |-> Nothing, name |-> Nothing, bio |-> Nothing]

UsersInit ==
    /\ users = [u \in UserIDs |-> Nothing]
    /\ identities = [i \in IdentityIDs |-> Nothing]
    /\ owned = {} /\ everUsed = {} /\ forgotten = {} /\ gone = {}
    /\ ureq = [p \in Services |-> UIdle]
    /\ overlap = FALSE /\ namesakes = FALSE

Begin(p, r) ==
    /\ ureq[p].pc = "idle"
    /\ ureq' = [ureq EXCEPT ![p] = r]
    /\ overlap' = (overlap \/ \E q \in Services : ureq[q].pc # "idle")
End(p) == ureq' = [ureq EXCEPT ![p] = UIdle] /\ UNCHANGED overlap

IdentitiesOf(u) == {i \in IdentityIDs : identities[i] # Nothing /\ identities[i].user = u}
Fresh == UserIDs \ everUsed
HasUser(identity) == identity # Nothing /\ identity.user # Nothing
UserOfRow(identity) == IF HasUser(identity) THEN users[identity.user] ELSE Nothing

\* uix_identity_profileurl
Unique(ids) ==
    \A i, j \in IdentityIDs : i # j /\ Nothing \notin {ids[i], ids[j]} /\ ids[i].profile # Nothing => ids[i].profile # ids[j].profile

-------------------------------------------------------------------------------

\* The user and then the identity are inserted; if there is one with its identifier,
\* the transaction is aborted, and committing it stores nothing.
InsertBoth(u, i, name, data, bio) ==
    IF identities[i] # Nothing THEN UNCHANGED <<users, identities, everUsed>>
    ELSE /\ users' = [users EXCEPT ![u] = [data |-> data, bio |-> bio]]
         /\ identities' = [identities EXCEPT ![i] = [user |-> u, username |-> name, profile |-> Nothing]]
         /\ everUsed' = everUsed \cup {u}

\* createUserInDB
CreateUser(p, u, i, name, data) ==
    /\ Begin(p, UIdle) /\ u \in Fresh
    /\ InsertBoth(u, i, name, data, data)
    /\ UNCHANGED <<owned, forgotten, gone>>

\* Lookup, for the creator and the assignees of an imported item: if no identity has the
\* profile, one is made that has no user.
Lookup(p, i, name, profile) ==
    /\ Begin(p, UIdle)
    /\ \A j \in IdentityIDs : identities[j] # Nothing => identities[j].profile # profile
    /\ identities[i] = Nothing
    /\ identities' = [identities EXCEPT ![i] = [user |-> Nothing, username |-> name, profile |-> profile]]
    /\ UNCHANGED <<users, owned, everUsed, forgotten, gone>>

\* A user gets one more identity, of another provider; no code here does that.
Associate(p, i, u, name, profile) ==
    /\ Begin(p, UIdle)
    /\ users[u] # Nothing /\ identities[i] = Nothing
    /\ identities' = [identities EXCEPT ![i] = [user |-> u, username |-> name, profile |-> profile]]
    /\ Unique(identities')
    /\ forgotten' = forgotten \ {u}
    /\ UNCHANGED <<users, owned, everUsed, gone>>

\* CreateOrUpdateKeycloakUser queries the identity and its user, outside a transaction.
\* It is an error that the identity has no user.
Login(p, i, name, data) ==
    /\ IF identities[i] # Nothing /\ ~HasUser(identities[i]) THEN Begin(p, UIdle)
       ELSE Begin(p, [UIdle EXCEPT !.pc = "login", !.i = i, !.identity = identities[i], !.name = name, !.data = data,
                                   !.user = UserOfRow(identities[i])])
    /\ UNCHANGED <<userTables, forgotten, gone>>

\* Save of both rows: what is not there any more is inserted again, and nothing is stored
\* if the profile is another's by now.
SaveBoth(i, identity, row) ==
    /\ IF Unique([identities EXCEPT ![i] = identity])
       THEN /\ users' = [users EXCEPT ![identity.user] = row]
            /\ identities' = [identities EXCEPT ![i] = identity]
       ELSE UNCHANGED <<users, identities>>
    /\ UNCHANGED everUsed

\* fillUser
FillUser(user, data) == [user EXCEPT !.data = data]

\* The transaction of the login; there is none if nothing has changed.
FinishLogin(p) ==
    LET r == ureq[p]
        row == FillUser(r.user, r.data)
        identity == [r.identity EXCEPT !.username = r.name]
    IN  /\ r.pc = "login" /\ End(p)
        /\ \/ r.identity = Nothing /\ \E u \in Fresh : InsertBoth(u, r.i, r.name, r.data, Nothing)
           \/ r.identity = Nothing /\ Fresh = {} /\ UNCHANGED <<users, identities, everUsed>>
           \/ r.identity # Nothing /\
              IF <<row, identity>> = <<r.user, r.identity>> THEN UNCHANGED <<users, identities, everUsed>>
              ELSE SaveBoth(r.i, identity, row)
        /\ UNCHANGED <<owned, forgotten, gone>>

\* updateUserInDB loads both rows in its transaction, which locks neither.  Without a
\* user it has no row to change, and fails.
LoadUser(p, i, name, bio) ==
    /\ identities[i] # Nothing
    /\ IF ~HasUser(identities[i]) THEN Begin(p, UIdle)
       ELSE Begin(p, [UIdle EXCEPT !.pc = "update", !.i = i, !.identity = identities[i], !.name = name, !.bio = bio,
                                   !.user = UserOfRow(identities[i])])
    /\ UNCHANGED <<userTables, forgotten, gone>>

UpdateUser(p) ==
    LET r == ureq[p]
    IN  /\ r.pc = "update" /\ End(p)
        /\ SaveBoth(r.i, [r.identity EXCEPT !.username = r.name], [r.user EXCEPT !.bio = r.bio])
        /\ forgotten' = IF overlap' THEN {} ELSE forgotten \ {r.identity.user}
        /\ UNCHANGED <<owned, gone>>

\* What Obfuscate makes of the identities of a user.
HiddenIdentities(u) ==
    [i \in IdentityIDs |-> IF i \in IdentitiesOf(u) THEN [identities[i] EXCEPT !.username = Hidden(u), !.profile = Hidden(u)]
                           ELSE identities[i]]

\* Obfuscate: the user and all its identities get the same random string, also as the
\* profile.  It fails as a whole for a user who has no identity, or several: the profile is
\* unique.
Obfuscate(p, u) ==
    /\ Begin(p, UIdle) /\ users[u] # Nothing
    /\ IF IdentitiesOf(u) # {} /\ Unique(HiddenIdentities(u))
       THEN /\ users' = [users EXCEPT ![u] = [data |-> Hidden(u), bio |-> Hidden(u)]]
            /\ identities' = HiddenIdentities(u)
            /\ forgotten' = IF overlap' THEN {} ELSE forgotten \cup {u}
       ELSE UNCHANGED <<users, identities, forgotten>>
    /\ UNCHANGED <<owned, everUsed, gone>>

\* An identity makes a space (controller/space.go).
OwnSpace(i) ==
    /\ identities[i] # Nothing /\ i \notin owned
    /\ owned' = owned \cup {i}
    /\ UNCHANGED <<users, identities, ureq, everUsed, forgotten, gone, overlap>>

\* LoadByUsername: the users of the identities that have the name.
NamedUsers(name) == {identities[i].user : i \in {j \in IdentityIDs : HasUser(identities[j]) /\ identities[j].username = name}}

\* Mutant of UsersToDelete: only the first one.
UsersToDeleteFirst(name) == {CHOOSE u \in NamedUsers(name) : TRUE}

UsersToDelete(name) == NamedUsers(name)

\* The spaces that are left when those of an identity are deleted.
SpacesLeft(first) == owned \ {first}

\* Delete: the users of the name with all their identities (the database cascades), and
\* the spaces of one identity that has the name in some spelling.
DeleteUser(p, name, first) ==
    /\ Begin(p, UIdle)
    /\ identities[first] # Nothing
    /\ LowerCase(identities[first].username) = LowerCase(name)
    /\ NamedUsers(name) # {}
    /\ LET victims == UsersToDelete(name)
       IN  /\ users' = [u \in UserIDs |-> IF u \in victims THEN Nothing ELSE users[u]]
           /\ identities' = [i \in IdentityIDs |-> IF i \in UNION {IdentitiesOf(u) : u \in victims} THEN Nothing ELSE identities[i]]
    /\ gone' = gone \cup NamedUsers(name)
    /\ owned' = SpacesLeft(first)
    /\ UNCHANGED <<everUsed, forgotten>>

Namesakes(ids) ==
    \E i, j \in IdentityIDs :
        /\ i # j /\ Nothing \notin {ids[i], ids[j]}
        /\ \/ LowerCase(ids[i].username) = LowerCase(ids[j].username)
           \/ ids[i].user # Nothing /\ ids[i].user = ids[j].user

UsersStep ==
    \/ \E i \in IdentityIDs : OwnSpace(i)
    \/ \E p \in Services :
        \/ \E i \in IdentityIDs, name \in UserNames, d \in Data :
            \/ \E u \in Fresh : CreateUser(p, u, i, name, d)
            \/ Login(p, i, name, d) \/ LoadUser(p, i, name, d)
        \/ \E i \in IdentityIDs, name \in UserNames, profile \in Profiles :
            \/ Lookup(p, i, name, profile)
            \/ \E u \in UserIDs : Associate(p, i, u, name, profile)
        \/ FinishLogin(p) \/ UpdateUser(p)
        \/ \E u \in UserIDs : Obfuscate(p, u)
        \/ \E name \in UserNames, i \in IdentityIDs : DeleteUser(p, name, i)

UsersNext == UsersStep /\ namesakes' = (overlap' \/ namesakes \/ Namesakes(identities'))

UsersSpec == UsersInit /\ [][UsersNext]_userVars

-------------------------------------------------------------------------------

\* Type invariant.
UsersTypeOK ==
    /\ \A u \in UserIDs : users[u] # Nothing => u \in everUsed /\ users[u] \in UserRow
    /\ \A i \in IdentityIDs : identities[i] # Nothing => identities[i] \in IdentityRow
    /\ gone \cup forgotten \subseteq everUsed

\* The user of an identity exists, and as long as nobody was deleted every user has an
\* identity, whatever logins, updates, obfuscations and imports overlap: two first logins
\* do not leave a user without an identity behind.
IdentitiesFitUsers ==
    /\ \A i \in IdentityIDs : HasUser(identities[i]) => users[identities[i].user] # Nothing
    /\ gone = {} => \A u \in UserIDs : users[u] # Nothing => IdentitiesOf(u) # {}

\* As long as requests do not overlap: what a token does not carry of an obfuscated user
\* stays obfuscated, and so do the profiles of all the user's identities, also after the
\* user logs in again, until the auth service updates the user or an identity is added.
SerialForgotten ==
    ~overlap => \A u \in forgotten : users[u] # Nothing =>
        /\ users[u].bio = Hidden(u)
        /\ \A i \in IdentitiesOf(u) : identities[i].profile = Hidden(u)

\* As long as requests do not overlap: all users who had the name are gone for good after
\* Delete, and so are all their identities.
SerialGone == ~overlap => \A u \in gone : users[u] = Nothing /\ IdentitiesOf(u) = {}

\* As long as requests do not overlap, names are different even in lower case and no user
\* has two identities: no space is left without its owner when a user is deleted.
SerialSpacesHaveOwners == ~overlap /\ ~namesakes => \A i \in owned : identities[i] # Nothing

UsersAreSound == IdentitiesFitUsers /\ SerialForgotten /\ SerialGone /\ SerialSpacesHaveOwners

\* As long as nobody was deleted, no identity vanishes or goes to another user, and none of
\* an imported name gets a user, although whole rows are written that were read before.
\* (A login that overlaps a deletion and a new login brings the old user back and takes
\* the identity away from the new one.)
IdentitiesStay ==
    gone' = {} => \A i \in IdentityIDs : identities[i] # Nothing => identities'[i] # Nothing /\ identities'[i].user = identities[i].user

\* A user who is created has an identity, and keeps it; one who is obfuscated or deleted is
\* so everywhere, and takes along no space of somebody else's.
UsersAreConsistent == [](UsersTypeOK /\ UsersAreSound) /\ [][IdentitiesStay]_userVars
===============================================================================
