SPECIFICATION AccessSpec
CONSTANTS
    h1 = h1
    h2 = h2
    k1 = k1
    k2 = k2
    m1 = m1
    m2 = m2
    t1 = t1
    t2 = t2
    t3 = t3
    x1 = x1
    None = None
    Handlers = {h1, h2}
    AccessKeys = {k1, k2}
    Masters = {m1, m2}
    TokenIds = {t1, t2, t3}
    TokenLimit = 2
    Tickets = {x1}
SYMMETRY Exchanges
INVARIANTS AccessTypeOK RecoveryKeyIsRight KeysStayDecryptable WithdrawnStaysWithdrawn IssuedTokensWork TicketUsedOnce
