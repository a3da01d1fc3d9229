--------------------------- MODULE MCScanEngine ---------------------------
(* Two-byte items in a private region of a page and a half, read in two    *)
(* chunks, then memory that was never mapped, then a writable image.       *)
EXTENDS ScanEngine

MCAddress == 0..7
MCRegions ==
    {[base |-> 0, size |-> 3, type |-> "private", writable |-> TRUE],
     [base |-> 6, size |-> 2, type |-> "image", writable |-> TRUE]}

Opt(alignment, chunk, max, budget, min) ==
    [alignment |-> alignment, writable_only |-> TRUE, include_image |-> TRUE,
     include_mapped |-> FALSE, address_min |-> min, address_max |-> 7,
     chunk_size |-> chunk, max_candidates |-> max, budget |-> budget]
Fine == Opt(1, 1, 3, 4, 0)
Coarse == Opt(0, 2, 2, 4, 1)
Req(mode, value, value2, options) ==
    [type |-> "int", mode |-> mode, value |-> value, value2 |-> value2,
     pattern |-> <<>>, options |-> options]
MCRequests ==
    {Req("between", -2, 0, Fine),
     Req("exact", 1, NoValue, Coarse),
     Req("unknown_initial", NoValue, NoValue, Fine),
     Req("unknown_initial", NoValue, NoValue, Coarse),
     Req("increased", NoValue, NoValue, Coarse),
     Req("increased_by", -2, NoValue, Fine),
     [Req("aob", NoValue, NoValue, Fine) EXCEPT !.type = "aob",
                                               !.pattern = <<1, Wild>>]}
=============================================================================
