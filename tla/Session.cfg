SPECIFICATION MCSpec
CONSTANTS
    Users = {u1, u2}
    Requests = {r1}
    None = None
    Posts = {p1, p2}
    MaxQueries = 1
INVARIANTS RunsWithRank FirstIsSuperadmin NoSelfPromotion CookieFollows AppUserFollows
PROPERTIES PageFollows
