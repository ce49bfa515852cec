--------------------------- MODULE MCByteStream ---------------------------
EXTENDS ByteStream
MCFields ==
    {[kind |-> "byte", type |-> 0, value |-> 42],
     [kind |-> "word", type |-> 0, value |-> 513],
     [kind |-> "wordLE", type |-> 0, value |-> 65280],
     [kind |-> "dword", type |-> 0, value |-> <<255, 0, 1, 2>>],
     [kind |-> "dwordLE", type |-> 0, value |-> <<255, 0, 1, 2>>],
     [kind |-> "tlv", type |-> 257, value |-> <<7, 8, 9, 10, 11>>],
     [kind |-> "tlv", type |-> 6, value |-> <<>>],
     [kind |-> "string08", type |-> 0, value |-> <<49, 50>>],
     [kind |-> "string16", type |-> 0, value |-> <<97>>]}
=============================================================================
