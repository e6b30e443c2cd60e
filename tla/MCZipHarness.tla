----------------------------- MODULE MCZipHarness -----------------------------
(* The corpus of fixtures.py, and archives at the ceilings such as the lab's  *)
(* tests make.                                                                *)
EXTENDS ZipHarness

safe == Record("note.txt", "note.txt", Payload(2, FALSE))
marked == Record("note.txt", "note.txt", Payload(1, TRUE))
InOrder(records) == [records |-> records, order |-> [i \in DOMAIN records |-> i]]
Filled(sizes) ==
    InOrder([i \in DOMAIN sizes |-> Record("file.txt", "file.txt", Payload(sizes[i], FALSE))])

MCCorpus == <<
    InOrder(<<safe>>),
    InOrder(<<marked, safe>>),
    InOrder(<<safe, marked>>),
    [records |-> <<Record("first.txt", "first.txt", Payload(1, FALSE)),
                   Record("second.txt", "second.txt", Payload(1, TRUE))>>,
     order |-> <<2, 1>>],
    InOrder(<<Record("local.txt", "index.txt", Payload(1, TRUE))>>),
    [records |-> <<safe, Record("extra.txt", "extra.txt", Payload(1, TRUE))>>,
     order |-> <<1>>],
    Filled(<<1, 0, 1>>),
    Filled(<<1, 1, 0, 1>>),
    Filled(<<5>>),
    Filled(<<3, 2>>),
    Filled(<<6>>),
    Filled(<<5, 0>>),
    Filled(<<3, 3>>)>>
=============================================================================
