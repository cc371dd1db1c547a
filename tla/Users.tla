------------------------------- MODULE Users --------------------------------
(***************************************************************************)
(* Users and groups (system/users/users.c), the commands and system calls  *)
(* that change them (shell/commands/users.c, system/syscall/syscall.c) and *)
(* what they leave in /etc/passwd, /etc/group and /home.  The tables in    *)
(* RAM are read from the files once, at boot; later every call changes     *)
(* both.                                                                   *)
(*                                                                         *)
(* A file is a sequence of lines, a line a sequence of fields.  A write to *)
(* a full disk fails or falls short, and power may be lost between two     *)
(* writes; a behaviour is followed to the boot after a write that fell     *)
(* short.  Names are ones a line can hold: at most 31 bytes, without ':',  *)
(* not beginning with '#'.                                                 *)
(***************************************************************************)
EXTENDS Integers, Sequences, FiniteSets, FiniteSetsExt, SequencesExt, TLC

CONSTANTS
    Names, Passwords,      \* of users and groups
    Top, Own, Salt,        \* the home "/", one's own directory in /home, a salt
    RootName,              \* the name "root"
    MaxUsers, MaxGroups,   \* MAX_USERS, MAX_GROUPS
    MaxFaults              \* bound: faults in one behaviour

VARIABLES
    users, groups,  \* g_users, g_groups: filled from the front, never emptied
    passwd, group,  \* the files
    home,           \* the owner of each directory in /home
    file,           \* owner and permissions of some other file
    who,            \* uid and gid of the caller
    faults          \* history: "short" write, "half" of a useradd, "rewrite" that failed

vars == <<users, groups, passwd, group, home, file, who, faults>>

User(n, u, g, p, h) == [name |-> n, uid |-> u, gid |-> g, pw |-> p, home |-> h]

------------------------------------------------------------------------------
\* Lines.

\* build_user_line: name, uid, gid, salt, hash, home.
build_user_line(u) == <<u.name, u.uid, u.gid, Salt, u.pw, u.home>>

\* One line of parse_passwd: five fields make a user, who is then at home in "/".
ParseUser(l) ==
    IF Len(l) < 5 THEN << >>
    ELSE <<User(l[1], l[2], l[3], l[5], IF Len(l) >= 6 THEN l[6] ELSE Top)>>
parse_passwd(f) ==
    \E us \in {FlattenSeq([k \in DOMAIN f |-> ParseUser(f[k])])} :
        users' = SubSeq(us, 1, Min({MaxUsers, Len(us)}))

ParseGroup(l) == IF Len(l) < 2 THEN << >> ELSE <<[name |-> l[1], gid |-> l[2]]>>
parse_group(f) ==
    \E gs \in {FlattenSeq([k \in DOMAIN f |-> ParseGroup(f[k])])} :
        groups' = SubSeq(gs, 1, Min({MaxGroups, Len(gs)}))

\* lufirafs_write: everything, a part (which counts as success), or nothing.
Outcomes == {"all", "part", "none"}
lufirafs_write(f, l, how) ==
    CASE how = "all" -> {Append(f, l)}
      [] how = "part" -> {Append(f, SubSeq(l, 1, k)) : k \in 1..Len(l)}
      [] how = "none" -> {f}

Suffer(kinds) == faults' = faults \cup kinds /\ (kinds # {} => Cardinality(faults') <= MaxFaults)

------------------------------------------------------------------------------
\* No file has been damaged.
Whole == faults \cap {"short", "rewrite"} = {}

\* Lookups.
Name(s, n) == SelectSeq(s, LAMBDA x : x.name = n)
Uid(u) == SelectSeq(users, LAMBDA x : x.uid = u)

\* Fault: the last uid that was given out.
next_uid_last == Max({users[k].uid : k \in DOMAIN users})

\* users_next_free_uid and groups_next_free_gid; 1 stands for 1000.
users_next_free_uid == Min({u \in 1..(MaxUsers + 1) : Uid(u) = << >>})
groups_next_free_gid == Min({g \in 1..(MaxGroups + 1) : \A k \in DOMAIN groups : groups[k].gid # g})

------------------------------------------------------------------------------
\* users_init after a boot, from what the disk holds then.
Boot(pf, gf) ==
    /\ parse_passwd(pf) /\ parse_group(gf)
    /\ passwd' = pf /\ group' = gf
    /\ who' = [uid |-> 0, gid |-> 0]

\* groups_add of a name that is new, in a table with room: the line may not fit.
groups_add(n, g, how) ==
    /\ group' \in lufirafs_write(group, <<n, g>>, how)
    /\ groups' = IF how = "none" THEN groups ELSE Append(groups, [name |-> n, gid |-> g])

groupadd ==
    /\ \E n \in Names, how \in Outcomes :
         /\ Name(groups, n) = << >> /\ Len(groups) < MaxGroups
         /\ groups_add(n, groups_next_free_gid, how)
         /\ Suffer({"short" : x \in {how} \cap {"part"}})
    /\ UNCHANGED <<users, passwd, home, file, who>>

\* ensure_home_dir: /home/n is made unless it is there.
ensure_home_dir(n, u) == IF n \in DOMAIN home THEN home ELSE home @@ (n :> u)

\* users_add.
users_add(u, how) ==
    /\ passwd' \in lufirafs_write(passwd, build_user_line(u), how)
    /\ users' = IF how = "none" THEN users ELSE Append(users, u)

\* command_useradd and sys_useradd: the group, unless one is named, then the home
\* directory, for which there may be no room, then the user.  A call that fails on the way leaves what it has done.
useradd ==
    /\ \E n \in Names, p \in Passwords, g \in {0} \cup {groups[k].gid : k \in DOMAIN groups}, how \in Outcomes :
         /\ Name(users, n) = << >>
         /\ g = 0 => Name(groups, n) = << >> /\ Len(groups) < MaxGroups
         /\ IF g = 0 THEN groups_add(n, groups_next_free_gid, "all") ELSE UNCHANGED <<groups, group>>
         /\ home' \in {home, ensure_home_dir(n, users_next_free_uid)}
         /\ IF Len(users) < MaxUsers
            THEN users_add(User(n, users_next_free_uid, IF g = 0 THEN groups_next_free_gid ELSE g, p,
                                IF n \in DOMAIN home' THEN Own ELSE Top), how)
            ELSE how = "none" /\ UNCHANGED <<users, passwd>>
         /\ Suffer({x \in {"short", "half"} : how = IF x = "short" THEN "part" ELSE "none"})
    /\ UNCHANGED <<file, who>>

\* Power is lost in useradd, behind one of the syncs before the last.
useradd_cut ==
    /\ Suffer({"half"})
    /\ \E n \in Names :
         /\ Name(users, n) = << >> /\ Name(groups, n) = << >> /\ Len(groups) < MaxGroups
         /\ home' \in {home, ensure_home_dir(n, users_next_free_uid)}
         /\ Boot(passwd, Append(group, <<n, groups_next_free_gid>>))
    /\ UNCHANGED file

\* rewrite_passwd_file: the file is emptied and written line by line; the first write
\* that fails ends it, and one that falls short is followed by one that fails.
Lines(us) == [k \in DOMAIN us |-> build_user_line(us[k])]
rewrite_passwd_file(us, how) ==
    CASE how = "all" -> {Lines(us)}
      [] how = "none" -> {SubSeq(Lines(us), 1, k) : k \in 0..(Len(us) - 1)}
      [] how = "part" -> UNION {lufirafs_write(SubSeq(Lines(us), 1, k - 1), build_user_line(us[k]), "part") : k \in DOMAIN us}

\* Fault: the file keeps the old line.
set_password_ram(n, p, how) ==
    users' = [k \in DOMAIN users |-> IF users[k].name = n THEN [users[k] EXCEPT !.pw = p] ELSE users[k]]
    /\ UNCHANGED passwd

\* users_set_password: the first user of that name.
users_set_password(n, p, how) ==
    \E k \in {Min({j \in DOMAIN users : users[j].name = n})} :
        /\ users' = [users EXCEPT ![k].pw = p]
        /\ passwd' \in rewrite_passwd_file(users', how)

\* command_passwd and sys_passwd: one's own, or as root anybody's.
set_passwd ==
    /\ \E k \in DOMAIN users, p \in Passwords, how \in Outcomes :
         /\ who.uid = 0 \/ (users[k].uid = who.uid /\ \A j \in 1..(k - 1) : users[j].uid # who.uid)
         /\ users_set_password(users[k].name, p, how)
         /\ Suffer({"rewrite" : x \in {how} \ {"all"}})
    /\ UNCHANGED <<groups, group, home, file, who>>

\* command_su and sys_su.
su ==
    /\ \E n \in Names \cup {RootName}, p \in Passwords : \E found \in {Name(users, n)} :
         /\ found # << >>
         /\ who.uid = 0 \/ found[1].pw = p
         /\ who' = [uid |-> found[1].uid, gid |-> found[1].gid]
    /\ UNCHANGED <<users, groups, passwd, group, home, file, faults>>

\* lufirafs_check_access, of the permission bits as sets of rights.
check_access(f, w, right) ==
    \/ w.uid = 0
    \/ right \in (IF f.uid = w.uid THEN f.perm.owner ELSE IF f.gid = w.gid THEN f.perm.group ELSE f.perm.other)

Modes == {[owner |-> {"r", "w"}, group |-> {"r"}, other |-> {}], [owner |-> {"r", "w"}, group |-> {}, other |-> {"r"}]}

\* command_chmod and sys_chmod; command_chown and sys_chown.
chmod ==
    /\ who.uid \in {0, file.uid}
    /\ \E m \in Modes : file' = [file EXCEPT !.perm = m]
    /\ UNCHANGED <<users, groups, passwd, group, home, who, faults>>
chown ==
    /\ who.uid = 0
    /\ \E k \in DOMAIN users : file' = [file EXCEPT !.uid = users[k].uid, !.gid = users[k].gid]
    /\ UNCHANGED <<users, groups, passwd, group, home, who, faults>>

restart == Boot(passwd, group) /\ UNCHANGED <<home, file, faults>>

Root == User(RootName, 0, 0, CHOOSE p \in Passwords : TRUE, Top)
Init ==
    /\ users = <<Root>> /\ groups = <<[name |-> RootName, gid |-> 0]>>
    /\ passwd = <<build_user_line(Root)>>
    /\ group = << <<RootName, 0>> >>
    /\ home = << >> /\ faults = {} /\ who = [uid |-> 0, gid |-> 0]
    /\ \E m \in Modes : file = [uid |-> 0, gid |-> 0, perm |-> m]

Next ==
    \/ Whole /\ (groupadd \/ useradd \/ useradd_cut \/ set_passwd \/ su \/ chmod \/ chown)
    \/ restart

Spec == Init /\ [][Next]_vars

------------------------------------------------------------------------------
\* What the tables hold is what a boot would read from the files: nobody is lost or
\* changed by a restart.  A write that fails as a whole and a useradd that loses power
\* do no harm; one that falls short, and a rewrite that fails, do.
RestartKeepsUsers ==
    Whole =>
                  /\ Lines(users) = passwd
                  /\ [k \in DOMAIN groups |-> <<groups[k].name, groups[k].gid>>] = group

\* No uid is given twice, and a home directory belongs to the user it is named after,
\* as long as no call failed half way.
HomesOfTheirUsers ==
    faults = {} => /\ \A i, j \in DOMAIN users : users[i].uid = users[j].uid => i = j
                   /\ \A n \in DOMAIN home : \E k \in DOMAIN users : users[k].name = n /\ users[k].uid = home[n]
=============================================================================
