------------------------------- MODULE Profiles -------------------------------
(***************************************************************************)
(* Names and avatars of users and channels: a user's profile is edited a   *)
(* field at a time from several tabs, usernames and channel aliases are    *)
(* unique up to case, and an avatar is a blob the row points at.           *)
(*                                                                         *)
(*   edit     pre-check -> name guard -> clash -> update                   *)
(*   avatar   put blob -> read previous -> set -> delete previous          *)
(***************************************************************************)
EXTENDS Naturals, FiniteSets

CONSTANTS Users, Chans, Names, Edits, Uploads,
          Lower,        \* name -> the key its spelling folds to
          Blank, Keep,  \* a field that is cleared, a field that is not mentioned
          NoBlob

\* No blob is called what stands for none.
ProfilesAssumption == NoBlob \notin Uploads

VARIABLES pfStore,      \* "mongo" or "memory"
          handle,       \* owner -> username or alias
          display,      \* user -> whether it has a display name
          edit,         \* edit -> where it is, with what it asks for
          avatar,       \* owner -> the blob its row names
          pfBlobs,      \* blobs stored
          put           \* upload -> where it is, for whom, with the avatar it replaces

pfVars == <<pfStore, handle, display, edit, avatar, pfBlobs, put>>
Owners == Users \cup Chans

\* A field is absent, blank or a value: absent leaves it alone.
UserProfileUpdate == [username : Names \cup {Blank, Keep}, display : {"set", "blank", "keep"}]

PfInit ==
    /\ pfStore \in {"mongo", "memory"}
    /\ handle = [o \in Owners |-> Blank] /\ display = [u \in Users |-> TRUE]
    /\ edit = [e \in Edits |-> [pc |-> "idle"]]
    /\ avatar = [o \in Owners |-> NoBlob] /\ pfBlobs = {}
    /\ put = [p \in Uploads |-> [pc |-> "idle"]]

SameKind(o, p) == (o \in Users) = (p \in Users)

\* Another user with this username, or another channel with this alias, whatever the case.
Clash(o, n) ==
    \E p \in Owners \ {o} : SameKind(o, p) /\ handle[p] # Blank /\ Lower[handle[p]] = Lower[n]

EditAt(e, pc) == edit[e].pc = pc
EditGoes(e, pc) == edit' = [edit EXCEPT ![e].pc = pc]
Wants(e) == edit[e].update.username
IsName(n) == n \notin {Blank, Keep}

(***************************************************************************)
(* updateProfile                                                           *)
(***************************************************************************)
\* The pre-check answers 409 early; it decides nothing.
updateProfile(e, u, update) ==
    /\ EditAt(e, "idle")
    /\ IsName(update.username) => ~Clash(u, update.username)
    /\ edit' = [edit EXCEPT ![e] = [pc |-> "named", owner |-> u, update |-> update]]
    /\ UNCHANGED <<pfStore, handle, display, avatar, pfBlobs, put>>

\* "refuse to clear the last name it has", asked when the display name is blanked.
NameGuard(e) ==
    LET up == edit[e].update
    IN  /\ EditAt(e, "named")
        /\ IF up.display = "blank" /\ ~IsName(up.username)
              /\ (up.username = Blank \/ handle[edit[e].owner] = Blank)
           THEN EditGoes(e, "done") ELSE EditGoes(e, "clash")
        /\ UNCHANGED <<pfStore, handle, display, avatar, pfBlobs, put>>

\* setChannelAlias joins the same path with nothing but a name.
SetChannelAlias(e, c, n) ==
    /\ EditAt(e, "idle")
    /\ edit' = [edit EXCEPT ![e] = [pc |-> "clash", owner |-> c,
                                    update |-> [username |-> n, display |-> "keep"]]]
    /\ UNCHANGED <<pfStore, handle, display, avatar, pfBlobs, put>>

FindClash(e) ==
    /\ pfStore = "mongo" /\ EditAt(e, "clash")
    /\ EditGoes(e, IF IsName(Wants(e)) /\ Clash(edit[e].owner, Wants(e)) THEN "done" ELSE "update")
    /\ UNCHANGED <<pfStore, handle, display, avatar, pfBlobs, put>>

Applied(e) ==
    LET o == edit[e].owner
        up == edit[e].update
    IN  /\ handle' = IF up.username = Keep THEN handle ELSE [handle EXCEPT ![o] = up.username]
        /\ display' = IF up.display = "keep" THEN display
                      ELSE [display EXCEPT ![o] = up.display = "set"]

\* Mutant: no unique index on the names.
DuplicateNameUnindexed(e) == FALSE

\* The unique partial indexes on usernameLower and aliasLower.
DuplicateName(e) == IsName(Wants(e)) /\ Clash(edit[e].owner, Wants(e))

MongoUpdateUserProfile(e) ==
    /\ pfStore = "mongo" /\ EditAt(e, "update")
    /\ IF DuplicateName(e) THEN UNCHANGED <<handle, display>> ELSE Applied(e)
    /\ EditGoes(e, "done")
    /\ UNCHANGED <<pfStore, avatar, pfBlobs, put>>

MemoryUpdateUserProfile(e) ==
    /\ pfStore = "memory" /\ EditAt(e, "clash")
    /\ IF IsName(Wants(e)) /\ Clash(edit[e].owner, Wants(e)) THEN UNCHANGED <<handle, display>>
       ELSE Applied(e)
    /\ EditGoes(e, "done")
    /\ UNCHANGED <<pfStore, avatar, pfBlobs, put>>

(***************************************************************************)
(* Avatars.  An upload's blob is named after it; a removal stores none.    *)
(***************************************************************************)
PutAvatar(p, o) ==
    /\ put[p].pc = "idle"
    /\ pfBlobs' = pfBlobs \cup {p}
    /\ put' = [put EXCEPT ![p] = [pc |-> "read", owner |-> o, blob |-> p, prev |-> NoBlob]]
    /\ UNCHANGED <<pfStore, handle, display, edit, avatar>>

RemoveAvatar(p, o) ==
    /\ put[p].pc = "idle"
    /\ put' = [put EXCEPT ![p] = [pc |-> "read", owner |-> o, blob |-> NoBlob, prev |-> NoBlob]]
    /\ UNCHANGED <<pfStore, handle, display, edit, avatar, pfBlobs>>

uploadAvatar(p, u) == u \in Users /\ PutAvatar(p, u)
deleteAvatar(p, u) == u \in Users /\ RemoveAvatar(p, u)
uploadChannelAvatar(p, c) == c \in Chans /\ PutAvatar(p, c)
deleteChannelAvatar(p, c) == c \in Chans /\ RemoveAvatar(p, c)

ReadPrevious(p) ==
    /\ pfStore = "mongo" /\ put[p].pc = "read"
    /\ put' = [put EXCEPT ![p].pc = "set", ![p].prev = avatar[put[p].owner]]
    /\ UNCHANGED <<pfStore, handle, display, edit, avatar, pfBlobs>>

MongoSetAvatar(p) ==
    /\ pfStore = "mongo" /\ put[p].pc = "set"
    /\ avatar' = [avatar EXCEPT ![put[p].owner] = put[p].blob]
    /\ put' = [put EXCEPT ![p].pc = "drop"]
    /\ UNCHANGED <<pfStore, handle, display, edit, pfBlobs>>

\* The row's previous avatar is read under the lock; its blob goes after it.
MemorySetAvatar(p) ==
    /\ pfStore = "memory" /\ put[p].pc = "read"
    /\ avatar' = [avatar EXCEPT ![put[p].owner] = put[p].blob]
    /\ put' = [put EXCEPT ![p].pc = "drop", ![p].prev = avatar[put[p].owner]]
    /\ UNCHANGED <<pfStore, handle, display, edit, pfBlobs>>

\* deleteBlobs; what it fails to delete is left behind.
DeletePrevious(p, fails) ==
    /\ put[p].pc = "drop"
    /\ pfBlobs' = IF fails THEN pfBlobs ELSE pfBlobs \ {put[p].prev}
    /\ put' = [put EXCEPT ![p].pc = "done"]
    /\ UNCHANGED <<pfStore, handle, display, edit, avatar>>

\* The row cannot be read or written: the upload ends there.
SetAvatarFails(p) ==
    /\ put[p].pc \in {"read", "set"}
    /\ put' = [put EXCEPT ![p].pc = "done"]
    /\ UNCHANGED <<pfStore, handle, display, edit, avatar, pfBlobs>>

NamesNext ==
    \/ \E e \in Edits, u \in Users, update \in UserProfileUpdate : updateProfile(e, u, update)
    \/ \E e \in Edits, c \in Chans, n \in Names \cup {Blank} : SetChannelAlias(e, c, n)
    \/ \E e \in Edits :
          NameGuard(e) \/ FindClash(e) \/ MongoUpdateUserProfile(e) \/ MemoryUpdateUserProfile(e)

AvatarsNext ==
    \/ \E p \in Uploads, o \in Owners :
          \/ uploadAvatar(p, o) \/ deleteAvatar(p, o)
          \/ uploadChannelAvatar(p, o) \/ deleteChannelAvatar(p, o)
    \/ \E p \in Uploads :
          ReadPrevious(p) \/ MongoSetAvatar(p) \/ MemorySetAvatar(p) \/ SetAvatarFails(p)
    \/ \E p \in Uploads, fails \in BOOLEAN : DeletePrevious(p, fails)

PfSpec == PfInit /\ [][NamesNext \/ AvatarsNext]_pfVars

\* No two users share a username and no two channels an alias, in any spelling.
OneOwnerPerName ==
    \A o, p \in Owners :
        (o # p /\ SameKind(o, p) /\ handle[o] # Blank /\ handle[p] # Blank)
            => Lower[handle[o]] # Lower[handle[p]]

\* The avatar a row names is in the blob store.
AvatarIsThere == \A o \in Owners : avatar[o] # NoBlob => avatar[o] \in pfBlobs

\* However edits of several tabs and accounts, uploads and removals interleave or fail, the
\* name a user or a channel is shown under is no one else's and its avatar can be loaded
\* (UpdateUserProfile, SetChannelAlias: "the unique partial index is the real backstop";
\* SetUserAvatar, SetChannelAvatar).
ProfileIsItsOwn == OneOwnerPerName /\ AvatarIsThere

\* A user always has a username or a display name (updateProfile: "An account has to be callable
\* something, so refuse to clear the last name it has").
AlwaysNamed == \A u \in Users : handle[u] # Blank \/ display[u]

=============================================================================
