----------------------------- MODULE MCFileList -----------------------------
(* FileList for TLC.  The tree:  ./  a  d/  d/a (a link to a)  d/x (excluded) *)
(* d-/  d-/e/ (unreadable)  d-/e/a  l (a symbolic link)  p (a pipe).          *)
EXTENDS FileList

a  == <<97>>
d  == <<100>>
da == d \o <<Slash>> \o a
dx == <<100, Slash, 120>>
dm == <<100, 45>>
de == dm \o <<Slash, 101>>
ea == de \o <<Slash>> \o a
l  == <<108>>
p  == <<112>>
z  == <<122>>

SmallTree ==
    [n \in {Dot, a, d, da, dx, dm, de, ea, l, p} |->
        CASE n = Dot -> 1 [] n \in {a, da, ea} -> 2 [] n = d -> 3 [] n = dx -> 4
          [] n = dm -> 5 [] n = de -> 6 [] n = l -> 7 [] n = p -> 8]

SmallNodes ==
    << [type |-> "dir",     perm |-> 1, uid |-> 1, size |-> 0],
       [type |-> "file",    perm |-> 1, uid |-> 1, size |-> 9],
       [type |-> "dir",     perm |-> 2, uid |-> 1, size |-> 0],
       [type |-> "file",    perm |-> 1, uid |-> 1, size |-> 9],
       [type |-> "dir",     perm |-> 2, uid |-> 2, size |-> 0],
       [type |-> "dir",     perm |-> 1, uid |-> 2, size |-> 0],
       [type |-> "symlink", perm |-> 1, uid |-> 2, size |-> 1],
       [type |-> "special", perm |-> 1, uid |-> 1, size |-> 0] >>

Archive == [protocol |-> 31, varint |-> TRUE, inc_recurse |-> FALSE, recursive |-> TRUE,
            hard_links |-> TRUE, times |-> TRUE, owner |-> TRUE, devices |-> FALSE,
            checksum |-> FALSE, prune |-> FALSE, delete |-> TRUE, foreign |-> FALSE,
            limits |-> {0, 9}, rlimits |-> {0, 9}, faulty |-> {}, files_from |-> <<>>]

SmallOptions ==
    { Archive,
      [Archive EXCEPT !.varint = FALSE, !.owner = FALSE, !.prune = TRUE],
      [Archive EXCEPT !.protocol = 30, !.varint = FALSE, !.devices = TRUE, !.foreign = TRUE],
      [Archive EXCEPT !.protocol = 29, !.varint = FALSE, !.devices = TRUE, !.times = FALSE,
                      !.checksum = TRUE],
      [Archive EXCEPT !.hard_links = FALSE, !.recursive = FALSE, !.delete = FALSE],
      [Archive EXCEPT !.faulty = {dm, l, da, d \o <<Slash>> \o z}],
      [Archive EXCEPT !.rlimits = {0}],
      [Archive EXCEPT !.files_from = <<da, z, dm, a>>, !.prune = TRUE, !.limits = {9}] }

Hidden == {dx}
Closed == {de}

SmallDest == {{}, {d, d \o <<Slash>> \o z, l, z, dm}}
=============================================================================
