----------------------------- MODULE MCFsckTree -----------------------------
(* Damaged volumes with three user inodes (4, 5, 6) and up to three entries. *)
EXTENDS FsckTree

Users == {4, 5, 6}
Ent(i, lf, dio) == [ino |-> i, lf |-> lf, dio |-> dio]
Kinds == {<<"dir", "dir", "dir">>, <<"dir", "dir", "file">>,
          <<"dir", "file", "free">>}
\* A directory in the orphan directory has no other entry.
Unlinked(E, K) == \A i \in Users : <<Orph, i>> \in E /\ K[i - 3] = "dir"
                                      => \A e \in E : e[2] = i => e[1] = Orph
Edges == UNION {kSubset(k, {1, Orph, 4, 5, 6} \X Users) : k \in 0..3}

\* ents: the entries; kinds: what the users are; root: what the root is; lf:
\* which entry of the root is lost+found, if any; up: what ".." of the users
\* says; down: the order of the directory blocks; dup: the entries of the
\* orphan directory are there twice.
Damage(E, K, R, lf, up, dn, dup) ==
    [ents |-> E, kinds |-> K, root |-> R, lf |-> lf, up |-> up, down |-> dn, dup |-> dup]
MCDamages ==
    {d \in {Damage(E, K, "dir", lf, IF K[3] = "dir" THEN 5 ELSE 1, K[3] = "dir", FALSE) :
              E \in Edges, K \in Kinds, lf \in {0, 4, 6}} :
       /\ Unlinked(d.ents, d.kinds)
       /\ d.lf # 0 => <<1, d.lf>> \in d.ents}
    \cup {Damage(E, <<"dir", "dir", "file">>, R, 0, 1, FALSE, R = "dir") :
            R \in {"free", "file", "dir"}, E \in SUBSET {<<Orph, 6>>, <<4, 5>>, <<5, 4>>, <<5, 6>>}}

MCImage(x) ==
    LET tgt(d) == SelectSeq(<<4, 5, 6>>, LAMBDA i : <<d, i>> \in x.ents)
        kind(i) == CASE i \in Users -> x.kinds[i - 3]
                     [] i = 1 -> x.root
                     [] i \in {Sys, Orph} -> "dir"
                     [] OTHER -> "free"
        \* a file with a name is there for a direct write
        dio(i) == kind(i) = "file" /\ \E e \in x.ents : e[2] = i /\ kind(e[1]) = "dir" /\ e[1] # Orph
        unlinked(i) == <<Orph, i>> \in x.ents /\ ~dio(i)
        ents(d) == [k \in DOMAIN tgt(d) |->
                      Ent(tgt(d)[k], d = 1 /\ tgt(d)[k] = x.lf,
                          d = Orph /\ dio(tgt(d)[k]))]
        dirOf(i) == [block |-> TRUE, dot |-> i, ents |-> ents(i),
                     dotdot |-> CASE i \in {1, Sys} -> i
                                  [] i = Orph -> Sys
                                  [] OTHER -> x.up]
    IN  [down |-> x.down,
         inode |-> [i \in Inos |->
            CASE kind(i) = "free" -> Free
              [] i = Sys -> [kind |-> "dir", links |-> 3, orph |-> FALSE]
              [] i \in {1, Orph} -> [kind |-> kind(i), links |-> 2, orph |-> FALSE]
              [] OTHER -> [kind |-> kind(i), links |-> IF unlinked(i) THEN 0 ELSE 1,
                           orph |-> unlinked(i)]],
         dir |-> [i \in Inos |->
            CASE kind(i) # "dir" -> NoDir
              [] i = Sys -> [dirOf(Sys) EXCEPT !.ents = <<Ent(Orph, FALSE, FALSE)>>]
              [] i = Orph /\ x.dup -> [dirOf(Orph) EXCEPT !.ents = @ \o @]
              [] OTHER -> dirOf(i)]]
=============================================================================
