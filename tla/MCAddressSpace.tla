--------------------------- MODULE MCAddressSpace ---------------------------
(***************************************************************************)
(* Instances of AddressSpace for TLC: the calls of two processes.          *)
(***************************************************************************)
EXTENDS AddressSpace

Prots == {{"r"}, {"r", "w"}}
Mmap(addrs, lens, prots, anons, shareds, fixed) ==
    {[op |-> "mmap", addr |-> a, len |-> n, prot |-> pr, anon |-> an, shared |-> sh, fixed |-> fixed,
      off |-> 0] : a \in addrs, n \in lens, pr \in prots, an \in anons, sh \in shareds}
Range3(op, addrs, lens) == {[op |-> op, addr |-> a, len |-> n] : a \in addrs, n \in lens}
Protect(addrs, lens, prots) ==
    {[op |-> "mprotect", addr |-> a, len |-> n, prot |-> pr] : a \in addrs, n \in lens, pr \in prots}
Touch(op, addrs) == {[op |-> op, addr |-> a, x |-> 7] : a \in addrs}
Brk(sizes) == {[op |-> "brk", to |-> s] : s \in sizes}
Simple(op) == {[op |-> op]}

Static == [size |-> 3, interp |-> <<>>, bad |-> "none"]
Piece0(a, n, prot, shared, anon, fixed) ==
    [addr |-> a, len |-> n, prot |-> prot, off |-> 0, fixed |-> fixed, shared |-> shared, anon |-> anon, f |-> 0]
Dynamic == [size |-> 2, bad |-> "none",
            interp |-> <<Piece0(DynBase, 1, {"r"}, TRUE, FALSE, FALSE),
                         Piece0(DynBase + 1, 1, {"r", "w"}, FALSE, FALSE, TRUE),
                         Piece0(DynBase + 2, 1, {"r", "w"}, FALSE, TRUE, TRUE)>>]
Exec(progs) == {[op |-> "execve", prog |-> g] : g \in progs}
Failing == {[Static EXCEPT !.bad = b] : b \in {"header", "phdr", "loadseg", "interp"}}
           \union {[Dynamic EXCEPT !.interp = <<[@[1] EXCEPT !.len = UserTop]>>]}
           \union {[Dynamic EXCEPT !.interp = <<@[1], [@[2] EXCEPT !.addr = DynBase]>>]}

Script(a, b) == [p \in Procs |-> IF p = 1 THEN a ELSE b]

Areas == Script(<<Mmap({0, MmapBase - 1, MmapBase + 2}, {1, 2}, Prots, {TRUE}, {FALSE}, FALSE),
                  Mmap({MmapBase, MmapBase + 1}, {1, 2}, {{"r"}}, {TRUE, FALSE}, {FALSE}, TRUE),
                  Mmap({0, 1}, {1}, {{"r"}}, {TRUE}, {FALSE}, FALSE)
                  \union Range3("munmap", {MmapBase, MmapBase + 1, MmapBase + 2}, {1, 2, 3}),
                  Mmap({0}, {1, 2}, {{"r"}}, {TRUE}, {TRUE}, FALSE)>>, <<>>)

Anon(shareds) == Mmap({0}, {2}, {{"r", "w"}}, {TRUE}, shareds, FALSE)
File(lens, shareds) == Mmap({0}, lens, {{"r", "w"}}, {FALSE}, shareds, FALSE)
M == MmapBase

Growth == Script(<<Brk({4, 5}), Mmap({0, 1, 3}, {1}, {{"r", "w"}, {}}, {TRUE}, {FALSE}, FALSE)
                                \union Mmap({1, M}, {1}, {{}}, {TRUE}, {FALSE}, TRUE),
                   Brk({1, 3, 7}) \union Protect({0, 1, 3}, {1, 2}, {{}, {"r"}, {"w"}}),
                   Touch("store", {0, 1, 3, M}) \union Touch("load", {1, 3, M}) \union Touch("copyout", {1, M}),
                   Brk({0, 4, 6})>>, <<>>)
Sharing == Script(<<Anon({TRUE}) \union File({1, 2}, BOOLEAN), Simple("fork"),
                    Touch("store", {M, M + 1}) \union Range3("msync", {M}, {1, 2}) \union Simple("close")>>,
                  <<Touch("load", {M}) \union Touch("copyout", {M}),
                    Range3("munmap", {M, M + 1}, {1, 2}) \union File({2}, {TRUE})>>)
Offsets == Script(<<Simple("fork"), File({2}, BOOLEAN), Range3("munmap", {M}, {2})>>,
                  <<File({2}, {FALSE}) \union Simple("read"), Simple("close"), Simple("read") \union File({1}, {TRUE})>>)
Programs == Script(<<Anon({FALSE}) \union File({2}, {TRUE}), File({1}, {FALSE}),
                     Exec({Static, Dynamic} \union Failing), Touch("load", {DynBase, DynBase + 2})>>, <<>>)
Replaced == Script(<<File({1}, {TRUE}), Anon({FALSE}), Simple("fork"), Exec({Static})>>,
                   <<Exec({Static, Dynamic})>>)
Protected == Script(<<Anon({FALSE}) \union File({2}, BOOLEAN),
                      Protect({M, M + 1}, {1, 2}, {{"r"}, {"r", "w"}, {}}), Touch("store", {M, M + 1})>>, <<>>)
Recycled == Script(<<Simple("fork"), File({2}, {FALSE}), Protect({M + 1}, {1}, {{"r"}})>>,
                 <<Anon({FALSE})>>)
Holes == Script(<<Mmap({0}, {3}, {{"r", "w"}}, BOOLEAN, BOOLEAN, FALSE),
                  Range3("munmap", {M, M + 1, M + 2}, {1, 2, 3}) \union Protect({M + 1}, {1}, {{"r"}}),
                  Touch("load", {M, M + 2}) \union Touch("store", {M + 1, M + 2}) \union Exec({Static})
                  \union Mmap({M + 1}, {1}, {{"r"}}, {FALSE}, {FALSE}, TRUE),
                  Range3("msync", {M, M + 2}, {1, 3}) \union Range3("munmap", {M}, {3})
                  \union Mmap({0}, {1}, {{"r"}}, {FALSE}, {FALSE}, FALSE)>>, <<>>)
RaceScripts == {Offsets}
MCScripts == {Areas, Growth, Sharing, Offsets, Programs, Protected, Recycled, Replaced, Holes}
=============================================================================
