------------------------------ MODULE PFTypes ------------------------------
(***************************************************************************)
(* The declarations the paged-file layer shares: pf.h (error codes) and    *)
(* pftypes.h (file header, file page, buffer page, open-file table).       *)
(***************************************************************************)
EXTENDS Integers, Sequences, FiniteSets

CONSTANTS
    PF_FTAB_SIZE,   \* entries in the table of open files
    PF_MAX_BUFS,    \* pages in the buffer pool, the argument of PF_Init
    MaxPages,       \* BOUND: no file grows beyond this number of pages
    Fname,          \* file names
    Data,           \* contents a page can have
    Junk,           \* the member of Data that stands for bytes nobody wrote
    PF_Strategy,    \* the replacement strategies files are opened with
    NULL,           \* the null fname of an unused table entry
    Faults          \* which system calls may fail: "read", "write", "mem"

(***************************************************************************)
(* At least one buffer, one descriptor and one page; Junk is a possible    *)
(* content; NULL is neither a name nor a content.                          *)
(***************************************************************************)
ASSUME PFAssumption ==
    /\ PF_FTAB_SIZE \in Nat \ {0}
    /\ PF_MAX_BUFS \in Nat \ {0}
    /\ MaxPages \in Nat \ {0}
    /\ PF_Strategy \subseteq {"PF_LRU", "PF_MRU"}
    /\ Junk \in Data
    /\ NULL \notin Fname \cup Data

FD      == 0 .. PF_FTAB_SIZE - 1
PageNum == 0 .. MaxPages - 1
Frame   == 1 .. PF_MAX_BUFS       \* the PFbpage structures malloc can return
NoFrame == 0                      \* the null PFbpage pointer

PFE_OK             == 0
PFE_NOMEM          == -1
PFE_NOBUF          == -2
PFE_PAGEFIXED      == -3
PFE_PAGENOTINBUF   == -4
PFE_UNIX           == -5
PFE_INCOMPLETEREAD == -6
PFE_INCOMPLETEWRITE == -7
PFE_HDRREAD        == -8
PFE_HDRWRITE       == -9
PFE_INVALIDPAGE    == -10
PFE_FILEOPEN       == -11
PFE_FTABFULL       == -12
PFE_FD             == -13
PFE_EOF            == -14
PFE_PAGEFREE       == -15
PFE_PAGEUNFIXED    == -16
PFE_PAGEINBUF      == -17
PFE_HASHPAGEEXIST  == -19

PF_PAGE_LIST_END == -1            \* end of the chain of free pages
PF_PAGE_USED     == -2            \* nextfree of a page that is in use
Link             == PageNum \cup {PF_PAGE_LIST_END, PF_PAGE_USED}

(* struct PFfpage and struct PFhdr_str *)
PFfpage   == [nextfree : Link, data : Data]
PFhdr_str == [firstfree : Link, numpages : 0 .. MaxPages]

(***************************************************************************)
(* The Unix file behind a paged file: its header, the pages written so far *)
(* (len of them) and, beyond, what read(2) would find in a hole: zeroes.   *)
(***************************************************************************)
ZeroPage  == [nextfree |-> 0, data |-> Junk]
File      == [exists : BOOLEAN, hdr : PFhdr_str, len : 0 .. MaxPages,
              page : [PageNum -> PFfpage]]
EmptyHdr  == [firstfree |-> PF_PAGE_LIST_END, numpages |-> 0]
EmptyFile(exists) == [exists |-> exists, hdr |-> EmptyHdr, len |-> 0,
                      page |-> [p \in PageNum |-> ZeroPage]]

(* struct PFftab_ele; the Unix descriptor is the file named fname. *)
PFftab_ele == [fname : Fname \cup {NULL}, hdr : PFhdr_str,
               hdrchanged : BOOLEAN, strategy : {"PF_LRU", "PF_MRU"}]

(* struct PFbpage without its two links, which are the sequences of PFBuf. *)
PFbpage == [fd : FD, page : PageNum, dirty : BOOLEAN, fixed : BOOLEAN,
            fpage : PFfpage]
=============================================================================
